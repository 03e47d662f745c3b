------------------------ MODULE DiffusionScheduler ------------------------
(***************************************************************************)
(* The iteration-level scheduler of vllm/v1/diffusion/scheduler.py.        *)
(*                                                                         *)
(* Its four fields are the variables below, its methods the operators; the *)
(* engine's main thread is its only caller, and module DiffusionServing    *)
(* composes the calls.  A DiffusionRequest is named by its id: requests[r] *)
(* holds the data the client sends, so `waiting` is a sequence of ids.     *)
(***************************************************************************)
EXTENDS DiffusionStep, Functions

CONSTANTS ReqId,          \* request ids
          MaxBatchSize,   \* max_batch_size (999 in EngineCore)
          PoolChoice      \* the values pool_ready may have

ASSUME MaxBatchSizeAssumption == MaxBatchSize \in Nat \ {0}
ASSUME PoolChoiceAssumption == PoolChoice \subseteq BOOLEAN

VARIABLES requests,          \* what each client sends: prompt and parameters
          pool_ready,        \* _model_runner is set and its pool initialised
          waiting,           \* FCFS queue of requests not yet running
          running,           \* ids being iterated, in arrival order
          states,            \* req_id -> DiffusionRuntimeState (a dict)
          finished_req_ids   \* ids that finished

schedVars == <<waiting, running, states, finished_req_ids>>

DiffusionRuntimeState ==
  { st \in [x : Seq(Token), prompt_len : Nat, total_len : Nat,
            params : Params, block_idx : Nat, step_idx_in_block : Nat] :
      /\ st.total_len = st.prompt_len + st.params.gen_length
      /\ Len(st.x) = st.total_len }

(* dict[k] = v                                                             *)
Put(dict, k, v) ==
  [i \in DOMAIN dict \cup {k} |-> IF i = k THEN v ELSE dict[i]]

(* list.remove of the element at a known place                             *)
RemoveAt(s, i) == SubSeq(s, 1, i - 1) \o SubSeq(s, i + 1, Len(s))

(* Faulty variant: total_len forgets the prompt.                           *)
InitialStateShort(r) ==
  [ x |-> [i \in 1 .. requests[r].params.gen_length |-> MaskId],
    prompt_len |-> Len(requests[r].input_token_ids),
    total_len |-> requests[r].params.gen_length,
    params |-> requests[r].params, block_idx |-> 0, step_idx_in_block |-> 0 ]

InitialState(r) ==
  LET prompt == requests[r].input_token_ids
      p      == requests[r].params
  IN  [ x |-> [i \in 1 .. Len(prompt) + p.gen_length |->
                 IF i <= Len(prompt) THEN prompt[i] ELSE MaskId],
        prompt_len |-> Len(prompt),
        total_len |-> Len(prompt) + p.gen_length,
        params |-> p, block_idx |-> 0, step_idx_in_block |-> 0 ]

(* Faulty variant: the last block is not worked on.                        *)
FinishedOneBlockEarly(st) ==
  \/ \A i \in (st.prompt_len + 1) .. st.total_len : st.x[i] # MaskId
  \/ st.block_idx + 1 >= NumBlocks(st.params)

(* Faulty variant: only the block pointer is consulted.                    *)
FinishedByBlocks(st) == st.block_idx >= NumBlocks(st.params)

Finished(st) ==
  \/ \A i \in (st.prompt_len + 1) .. st.total_len : st.x[i] # MaskId
  \/ st.block_idx >= NumBlocks(st.params)

Tail_token_ids(st) ==
  [i \in 1 .. st.params.gen_length |-> st.x[st.prompt_len + i]]

SchedInit ==
  /\ waiting = <<>>
  /\ running = <<>>
  /\ states = <<>>
  /\ finished_req_ids = {}

add_request(r) ==
  /\ states' = Put(states, r, InitialState(r))
  /\ waiting' = Append(waiting, r)
  /\ UNCHANGED <<running, finished_req_ids>>

(***************************************************************************)
(* Without a pool the emptiness of `waiting` is not consulted.             *)
(***************************************************************************)
can_add_more_requests ==
  /\ pool_ready => waiting # <<>>
  /\ Len(running) < MaxBatchSize

(* Faulty variant: the request is peeked at, not popped.                   *)
migrate_one_peeks ==
  /\ running' = IF Head(waiting) \in Range(running) THEN running
                ELSE Append(running, Head(waiting))
  /\ UNCHANGED <<waiting, states, finished_req_ids>>

(* One iteration of the loop of _ensure_running_capacity.                  *)
migrate_one ==
  LET r == Head(waiting)
  IN  /\ waiting' = Tail(waiting)
      /\ states' = IF r \in DOMAIN states THEN states
                   ELSE Put(states, r, InitialState(r))
      /\ running' = IF r \in Range(running) THEN running
                    ELSE Append(running, r)
      /\ UNCHANGED finished_req_ids

(***************************************************************************)
(* schedule_step: the positions of `running` that make up the batch, the   *)
(* first MaxBatchSize of those that have a state.                          *)
(***************************************************************************)
Batch ==
  { i \in 1 .. Len(running) :
      /\ running[i] \in DOMAIN states
      /\ Cardinality({j \in 1 .. (i - 1) : running[j] \in DOMAIN states})
           < MaxBatchSize }

(* Faulty variant: the last request of the batch.                          *)
IsBatchLast(h) == h \in Batch /\ \A i \in Batch : h >= i

(* requests[0] of the step batch.                                          *)
IsBatchHead(h) == h \in Batch /\ \A i \in Batch : h <= i

(* Faulty variant: one step too many in every block.                       *)
AdvanceLate(st, new_x) ==
  LET wrap == st.step_idx_in_block + 1 > StepsPerBlock(st.params)
  IN  [st EXCEPT !.x = new_x,
                 !.step_idx_in_block = IF wrap THEN 0 ELSE @ + 1,
                 !.block_idx = IF wrap THEN @ + 1 ELSE @]

(***************************************************************************)
(* apply_updates_and_collect_finished for the update (running[h], new_x).  *)
(* The runner returns one update, for the head of the batch; the head is   *)
(* the first occurrence of its id in `running`.                            *)
(***************************************************************************)
Advance(st, new_x) ==
  LET wrap == st.step_idx_in_block + 1 >= StepsPerBlock(st.params)
  IN  [st EXCEPT !.x = new_x,
                 !.step_idx_in_block = IF wrap THEN 0 ELSE @ + 1,
                 !.block_idx = IF wrap THEN @ + 1 ELSE @]

apply_update(h, new_x) ==
  LET r  == running[h]
      st == Advance(states[r], new_x)
  IN  /\ states' = Put(states, r, st)
      /\ IF Finished(st)
         THEN /\ finished_req_ids' = finished_req_ids \cup {r}
              /\ running' = RemoveAt(running, h)
         ELSE UNCHANGED <<finished_req_ids, running>>
      /\ UNCHANGED waiting

has_active_requests == waiting # <<>> \/ running # <<>>
=============================================================================
