---------------------------- MODULE BlockGraphs ----------------------------
(***************************************************************************)
(* The computation graphs of one layer of LLaDA, Dream and LLaDA-MoE, with *)
(* and without chunking (vllm/v1/worker/graph_builder.py, define_... ).    *)
(*                                                                         *)
(* The three models have the same nine nodes up to the residual; tensors   *)
(* are named by their position in the execution order.                     *)
(***************************************************************************)
EXTENDS Integers, Sequences

Models == {"llada", "dream", "llada-moe"}

(* Row widths, in elements: hidden state, keys and values, the three MLP   *)
(* (or MoE cache) tensors, and logits.                                     *)
LLaDA == [hidden |-> 4096, kv |-> 32 * 128, mlp |-> <<12288, 12288, 12288>>,
          vocab |-> 126464, moe |-> FALSE]
Dream == [hidden |-> 3584, kv |-> 4 * 128, mlp |-> <<18944, 18944, 18944>>,
          vocab |-> 152064, moe |-> FALSE]
LLaDAMoE == [hidden |-> 2048, kv |-> 16 * 128,
             mlp |-> <<8 * 2 * 1024, 8 * 1024, 8 * 2048>>,
             vocab |-> 157184, moe |-> TRUE]

(* add_op: a bfloat16 tensor, two bytes per element.                       *)
Op(part, rows, cols, inputs) ==
  [part |-> part, size |-> 2 * rows * cols, inputs |-> inputs,
   alias |-> 0, width |-> 2]

(* A one-byte tensor that only keeps its inputs alive.                     *)
Barrier(inputs) ==
  [part |-> "mlp", size |-> 1, inputs |-> inputs, alias |-> 0, width |-> 1]

CeilDiv(a, b) == (a + b - 1) \div b

(* x, x_normed, q, k, v, att_tmp, att_out, x_normed_2, residual            *)
Attention(d, N) ==
  << Op("fixed", N, d.hidden, {}),
     Op("fixed", N, d.hidden, {1}),
     Op("fixed", N, d.hidden, {2}),
     Op("fixed", N, d.kv, {2}),
     Op("fixed", N, d.kv, {2}),
     Op("fixed", N, d.hidden, {3, 4, 5}),
     Op("fixed", N, d.hidden, {6}),
     Op("fixed", N, d.hidden, {1, 7}),
     Op("fixed", N, d.hidden, {1, 7}) >>

(* The gated MLP (mlp_x, mlp_x_up, mlp_gated, mlp_output) or the experts   *)
(* (moe_cache1, moe_cache2, moe_cache3, moe_output) on rows tokens.        *)
Mlp(d, N, rows) ==
  << Op("mlp", rows, d.mlp[1], {8}),
     Op("mlp", rows, d.mlp[2], IF d.moe THEN {10} ELSE {8}),
     Op("mlp", rows, d.mlp[3], IF d.moe THEN {11} ELSE {10, 11}),
     Op("mlp", N, d.hidden, {12}) >>

(* Faulty variant: xnorm2_barrier is forgotten.                            *)
OneBarrier == << Barrier({10, 11, 12, 13}) >>

(* mlp_loop_hazard_barrier and xnorm2_barrier                              *)
Barriers == << Barrier({10, 11, 12, 13}), Barrier({8}) >>

(* final_output takes over the memory of x.                                *)
FinalOutput(d, N) == [Op("fixed", N, d.hidden, {9, 13}) EXCEPT !.alias = 1]

(* A layer on N tokens of which M need logits.  One chunk stands for       *)
(* chunking switched off.                                                  *)
Layer(d, N, M, chunksLogits, chunksMlp) ==
  LET mlp  == Mlp(d, N, CeilDiv(N, chunksMlp))
                \o (IF chunksMlp > 1 THEN Barriers ELSE <<>>)
      last == 10 + Len(mlp)
  IN  Attention(d, N) \o mlp \o
      << FinalOutput(d, N),
         Op("logits", CeilDiv(M, chunksLogits), d.vocab, {last}) >>

(* define_..._block_graph without chunking, define_..._chunkwise with.     *)
define_llada_block_graph(N, M, cl, cm) == Layer(LLaDA, N, M, cl, cm)
define_dream_block_graph(N, M, cl, cm) == Layer(Dream, N, M, cl, cm)
define_llada_moe_block_graph(N, M, cl, cm) == Layer(LLaDAMoE, N, M, cl, cm)

(* The graph builder chosen by the model's name.                           *)
BlockGraph(m, N, M, cl, cm) ==
  CASE m = "llada" -> define_llada_block_graph(N, M, cl, cm)
    [] m = "dream" -> define_dream_block_graph(N, M, cl, cm)
    [] m = "llada-moe" -> define_llada_moe_block_graph(N, M, cl, cm)
=============================================================================
