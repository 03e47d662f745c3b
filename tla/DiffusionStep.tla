--------------------------- MODULE DiffusionStep ---------------------------
(***************************************************************************)
(* One denoising step of one request, as GPUModelRunner computes it        *)
(* (vllm/v1/worker/gpu_model_runner.py, execute_diffusion_once) with the   *)
(* schedule arithmetic it shares with the DiffusionScheduler.              *)
(*                                                                         *)
(* A request's text is a function x from 1..total_len to tokens: first the *)
(* prompt, then gen_length positions that start as MaskId and are revealed *)
(* block by block.  The neural network is external: it may put any token   *)
(* of Vocab at a position, and its confidences may rank the positions in   *)
(* any order, so the top-k choice is an arbitrary set of the right size.   *)
(***************************************************************************)
EXTENDS Integers, Sequences, FiniteSets

CONSTANTS MaskId,       \* the mask token
          Vocab,        \* the tokens the network may sample
          PromptToken   \* the tokens a prompt may contain

ASSUME VocabNonEmpty == Vocab # {}

Token == Vocab \cup PromptToken \cup {MaskId}

(***************************************************************************)
(* DiffusionParams, the fields that steer control flow.  cfg stands for    *)
(* cfg_scale > 0.                                                          *)
(***************************************************************************)
Params == [steps : Nat, gen_length : Nat, block_length : Nat, cfg : BOOLEAN]

AtLeastOne(n) == IF n < 1 THEN 1 ELSE n

Smaller(a, b) == IF a < b THEN a ELSE b

NumBlocks(p) == AtLeastOne(p.gen_length \div AtLeastOne(p.block_length))

StepsPerBlock(p) == AtLeastOne(p.steps \div NumBlocks(p))

(***************************************************************************)
(* _get_num_transfer_tokens: entry si of the split of n positions over     *)
(* `steps` steps, the remainder going to the first ones.                   *)
(***************************************************************************)
(* Faulty variant: the remainder is dropped.                               *)
NumTransferTokensNoRemainder(n, steps, si) == n \div steps

NumTransferTokens(n, steps, si) ==
  (n \div steps) + (IF si < n % steps THEN 1 ELSE 0)

(***************************************************************************)
(* The assertions and divisions the runner performs before the forward     *)
(* pass: on the parameters of the first request, and then on those of      *)
(* every request of the batch.  With cfg_scale > 0 the guidance branch     *)
(* reads the name block_table, which no longer exists.                     *)
(***************************************************************************)
HeadParamsAccepted(p) ==
  /\ p.block_length # 0
  /\ p.gen_length # 0
  /\ p.gen_length % p.block_length = 0
  /\ p.steps % (p.gen_length \div p.block_length) = 0
  /\ ~p.cfg

BatchParamsAccepted(p) ==
  /\ p.gen_length % AtLeastOne(p.block_length) = 0
  /\ p.steps % NumBlocks(p) = 0

(***************************************************************************)
(* The block a request is working on, as the last position before it and   *)
(* its last position.                                                      *)
(***************************************************************************)
BlockStart(st) == st.prompt_len + st.block_idx * st.params.block_length

BlockEnd(st) == Smaller(BlockStart(st) + st.params.block_length, st.total_len)

Block(st) == (BlockStart(st) + 1) .. BlockEnd(st)

MaskedIn(st, S) == {i \in S : st.x[i] = MaskId}

(* output_mask_indices: the positions logits are computed for.             *)
OutputMasks(st) == MaskedIn(st, (st.prompt_len + 1) .. st.total_len)

(* The quota of this step: entry step_idx_in_block of the static split.    *)
Quota(st) ==
  LET n == IF BlockStart(st) < BlockEnd(st)
           THEN BlockEnd(st) - BlockStart(st) ELSE 0
  IN  IF st.step_idx_in_block < StepsPerBlock(st.params)
      THEN NumTransferTokens(n, StepsPerBlock(st.params), st.step_idx_in_block)
      ELSE 0

(* Faulty variant: masked positions behind the block are eligible too.     *)
TransfersBehindBlock(st) ==
  LET valid == MaskedIn(st, (BlockStart(st) + 1) .. st.total_len)
  IN  {sel \in SUBSET valid :
         Cardinality(sel) = Smaller(Quota(st), Cardinality(valid))}

(* topk: as many masked positions of the block as the quota allows.        *)
Transfers(st) ==
  LET valid == MaskedIn(st, Block(st))
  IN  {sel \in SUBSET valid :
         Cardinality(sel) = Smaller(Quota(st), Cardinality(valid))}

(* Faulty variant: a mask token of the prompt is filled in as well.        *)
NewTextsPrompt(st) ==
  UNION { { [i \in DOMAIN st.x |->
               IF i \in sel THEN tok[i]
               ELSE IF i \in MaskedIn(st, 1 .. st.prompt_len)
                    THEN CHOOSE t \in Vocab : TRUE ELSE st.x[i]]
            : tok \in [sel -> Vocab] } : sel \in Transfers(st) }

(* The texts the step may return: sampled tokens at the selected positions.*)
NewTexts(st) ==
  UNION { { [i \in DOMAIN st.x |-> IF i \in sel THEN tok[i] ELSE st.x[i]]
            : tok \in [sel -> Vocab] } : sel \in Transfers(st) }
=============================================================================
