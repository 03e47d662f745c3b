---------------------------- MODULE LayerForward ----------------------------
(***************************************************************************)
(* A forward pass of LLaDA, Dream or LLaDA-MoE in the memory that          *)
(* MemoryPlan laid out: the kernels the layers and the model launch, in    *)
(* their order, with the chunk loops of the MLP and of the logits          *)
(* (vllm_add_llada, vllm_add_dream, vllm_add_llada_moe).                   *)
(*                                                                         *)
(* The data is symbolic.  Row n of a tensor should hold the value          *)
(* <<tensor, layer, version, token>>, where the version counts in-place    *)
(* updates.  A row that was overwritten through another tensor, or was     *)
(* computed from such a row, holds Junk.                                   *)
(***************************************************************************)
EXTENDS MemoryPlan, BlockGraphs, SequencesExt

CONSTANT NumLayers

ASSUME LayersAssumption == NumLayers \in Nat \ {0}

VARIABLES task,    \* what is computed: model, P, O, mask_indices, chunks
          phase,   \* "plan", "run", "done" or "raised"
          next,    \* the next kernel
          mem      \* tensor -> row -> value

runVars == <<task, phase, next, mem>>
forwardVars == <<planVars, runVars>>

N == task.P + task.O
M == Len(task.mask_indices)

Router == 0    \* router_logits, a tensor outside the pool
X == 1
XNormed == 2
Q == 3
K == 4
V == 5
AttTmp == 6
AttOut == 7
XNormed2 == 8
Residual == 9
MlpX == 10        \* x_gate, moe_cache1
MlpUp == 11       \* x_up, moe_cache2
MlpGated == 12    \* x_mlp, moe_cache3
MlpOutput == 13   \* moe_output
FinalOut == Len(graph) - 1
Logits == Len(graph)
Index == Len(graph) + 1   \* x0_2d, the samples, outside the pool

Tensors == DOMAIN offset \cup {Router, Index}

Rows(t) ==
  CASE t \in {MlpX, MlpUp, MlpGated} -> CeilDiv(N, task.chunks_mlp)
    [] t = Logits -> CeilDiv(M, task.chunks_logits)
    [] t = Index -> M
    [] OTHER -> N

Junk == <<>>

(* x_output: the output part of x, for Dream moved by one.                 *)
TokenOf(i) ==
  task.P + task.mask_indices[i + 1] - (IF task.model = "dream" THEN 1 ELSE 0)
-----------------------------------------------------------------------------
(* Kernels.  A view is a tensor from a row on, in a version.               *)

View(t, lo, v) == [t |-> t, lo |-> lo, v |-> v]
All(t) == View(t, 0, 0)

(* Row j of `out` is computed from row j of each operand, for tokens i on; *)
(* local means element by element, or within one row.                      *)
Kernel(l, out, ins, i, n, local) ==
  [layer |-> l, out |-> out, ins |-> ins, i |-> i, n |-> n, local |-> local,
   kind |-> "rows"]

mm(l, out, ins, i, n) == Kernel(l, out, ins, i, n, FALSE)
elementwise(l, out, ins, i, n) == Kernel(l, out, ins, i, n, TRUE)
inplace(l, t, v) == elementwise(l, View(t, 0, v), {View(t, 0, v - 1)}, 0, N)

(* The token that row j of the output is about.                            *)
Token(c, j) ==
  IF c.kind \in {"gather", "sample"} THEN TokenOf(c.i + j) ELSE c.i + j

Cell(c, w, r, n) ==
  [t |-> w.t, row |-> r, value |-> <<w.t, c.layer, w.v, n>>]

(* What a kernel reads for row j, and the values it counts on.             *)
Reads(c, j) ==
  CASE c.kind = "attend" -> {Cell(c, w, n, n) : w \in c.ins, n \in 0 .. N - 1}
    [] c.kind = "gather" -> {Cell(c, w, Token(c, j), Token(c, j)) : w \in c.ins}
    [] OTHER -> {Cell(c, w, w.lo + j, Token(c, j)) : w \in c.ins}

Written(c) == c.out.lo .. c.out.lo + c.n - 1

(* Row r of tensor t in the buffer (get_tensor_view).                      *)
Width(t) == graph[t].size \div Rows(t)
Start(t, r) == offset[t] + r * Width(t)

Overlap(t, r, u, s) ==
  IF {t, u} \subseteq DOMAIN offset
  THEN Start(t, r) < Start(u, s + 1) /\ Start(u, s) < Start(t, r + 1)
  ELSE t = u /\ r = s

SamePlace(t, u) ==
  IF {t, u} \subseteq DOMAIN offset
  THEN offset[t] = offset[u] /\ Width(t) = Width(u)
  ELSE t = u

(* The threads of a kernel run in any order: it must not write what it     *)
(* reads, unless it works in place.                                        *)
Clash(c) ==
  \E r \in Written(c), j \in 0 .. c.n - 1 : \E w \in Reads(c, j) :
    /\ Overlap(c.out.t, r, w.t, w.row)
    /\ ~(c.local /\ SamePlace(c.out.t, w.t) /\ r = w.row)

(* final_output is the x of the next layer.                                *)
Value(c, j) ==
  IF c.out.t = FinalOut THEN <<X, c.layer + 1, 0, Token(c, j)>>
  ELSE <<c.out.t, c.layer, c.out.v, Token(c, j)>>

Result(c, j) ==
  IF /\ ~Clash(c)
     /\ \A w \in Reads(c, j) : w.row < Rows(w.t) /\ mem[w.t][w.row] = w.value
  THEN Value(c, j) ELSE Junk

Run(c) ==
  mem' = [t \in Tensors |-> [r \in 0 .. Rows(t) - 1 |->
            IF SamePlace(c.out.t, t) /\ r \in Written(c)
            THEN Result(c, r - c.out.lo)
            ELSE IF \E s \in Written(c) : Overlap(c.out.t, s, t, r)
                 THEN Junk ELSE mem[t][r]]]
-----------------------------------------------------------------------------
(* The program.                                                            *)

(* range(0, total, tile_size): the tiles i .. i + n - 1 of a chunk loop.   *)
Tiles(total, chunks) ==
  LET size == CeilDiv(total, chunks)
      Tile(i) == [i |-> i, n |-> IF i + size < total THEN size ELSE total - i]
  IN  IF total = 0 THEN <<>>
      ELSE [c \in 1 .. CeilDiv(total, size) |-> Tile((c - 1) * size)]

(* Projections, what the model does to them, RoPE in place, attention.  v  *)
(* and vv are the versions of q, k and of v that the attention reads.      *)
Attend(l, adjust, v, vv) ==
  LET attend == [mm(l, All(AttTmp),
                    {View(Q, 0, v), View(K, 0, v), View(V, 0, vv)}, 0, N)
                   EXCEPT !.kind = "attend"]
  IN  << mm(l, All(Q), {All(XNormed)}, 0, N),
         mm(l, All(K), {All(XNormed)}, 0, N),
         mm(l, All(V), {All(XNormed)}, 0, N) >> \o adjust \o
      << inplace(l, Q, v), inplace(l, K, v), attend,
         mm(l, All(AttOut), {All(AttTmp)}, 0, N) >>

LLaDAAttention(l) == Attend(l, <<>>, 1, 0)

(* Dream adds biases to all three.                                         *)
DreamAttention(l) ==
  Attend(l, <<inplace(l, Q, 1), inplace(l, K, 1), inplace(l, V, 1)>>, 2, 1)

(* LLaDA-MoE normalises queries and keys.                                  *)
LLaDAMoEAttention(l) ==
  Attend(l, <<inplace(l, Q, 1), inplace(l, K, 1)>>, 2, 0)

(* The gated MLP on tokens i .. i + n - 1: the inner tensors hold a tile.  *)
MlpTile(l, i, n) ==
  << mm(l, All(MlpX), {View(XNormed2, i, 0)}, i, n),
     mm(l, All(MlpUp), {View(XNormed2, i, 0)}, i, n),
     elementwise(l, View(MlpX, 0, 1), {All(MlpX)}, i, n),
     elementwise(l, All(MlpGated), {View(MlpX, 0, 1), All(MlpUp)}, i, n),
     mm(l, View(MlpOutput, i, 0), {All(MlpGated)}, i, n) >>

(* The experts on a tile (fused_experts_impl_minimal).                     *)
MoeTile(l, i, n) ==
  << mm(l, All(MlpX), {View(XNormed2, i, 0), View(Router, i, 0)}, i, n),
     mm(l, All(MlpUp), {All(MlpX)}, i, n),
     mm(l, All(MlpGated), {All(MlpUp), View(Router, i, 0)}, i, n),
     mm(l, View(MlpOutput, i, 0), {All(MlpGated)}, i, n) >>

LLaDAMLP(l) ==
  LET tiles == Tiles(N, task.chunks_mlp)
  IN  FlattenSeq([c \in DOMAIN tiles |-> MlpTile(l, tiles[c].i, tiles[c].n)])

DreamMLP(l) == LLaDAMLP(l)

(* The router looks at all tokens before the loop.                         *)
LLaDAMoESparseMoeBlock(l) ==
  LET tiles == Tiles(N, task.chunks_mlp)
  IN  <<mm(l, All(Router), {All(XNormed2)}, 0, N)>>
        \o FlattenSeq([c \in DOMAIN tiles |->
                         MoeTile(l, tiles[c].i, tiles[c].n)])

(* A layer.  fused_add_rms_norm_out writes two tensors in one kernel.      *)
LayerOf(l, attention, mlp) ==
  <<elementwise(l, All(XNormed), {All(X)}, 0, N)>>
    \o attention
    \o << mm(l, All(Residual), {All(X), All(AttOut)}, 0, N),
          mm(l, All(XNormed2), {All(X), All(AttOut), All(Residual)}, 0, N) >>
    \o mlp
    \o <<elementwise(l, All(FinalOut), {All(Residual), All(MlpOutput)}, 0, N)>>

LLaDALlamaBlock(l) == LayerOf(l, LLaDAAttention(l), LLaDAMLP(l))
DreamDecoderLayer(l) == LayerOf(l, DreamAttention(l), DreamMLP(l))
LLaDAMoEDecoderLayer(l) ==
  LayerOf(l, LLaDAMoEAttention(l), LLaDAMoESparseMoeBlock(l))

LayerCode(l) ==
  CASE task.model = "llada" -> LLaDALlamaBlock(l)
    [] task.model = "dream" -> DreamDecoderLayer(l)
    [] task.model = "llada-moe" -> LLaDAMoEDecoderLayer(l)

(* gather_gemm of a tile of masked tokens, and their samples.              *)
LogitsTile(i, n) ==
  LET l == NumLayers + 1
  IN  << [mm(l, All(Logits), {View(X, 0, 1)}, i, n) EXCEPT !.kind = "gather"],
         [mm(l, View(Index, i, 0), {All(Logits)}, i, n)
            EXCEPT !.kind = "sample"] >>

(* Embedding, the layers, the final norm in place.                         *)
HiddenCode ==
  <<mm(1, All(X), {}, 0, N)>>
    \o FlattenSeq([l \in 1 .. NumLayers |-> LayerCode(l)])
    \o <<inplace(NumLayers + 1, X, 1)>>

Code ==
  LET tiles == Tiles(M, task.chunks_logits)
  IN  HiddenCode
        \o FlattenSeq([c \in DOMAIN tiles |-> LogitsTile(tiles[c].i, tiles[c].n)])
-----------------------------------------------------------------------------
ForwardInit(t) ==
  /\ task = t
  /\ PlanInit(BlockGraph(t.model, t.P + t.O, Len(t.mask_indices),
                         t.chunks_logits, t.chunks_mlp))
  /\ phase = "plan"
  /\ next = 0
  /\ mem = <<>>

(* The plan is made and the tensors are views of one buffer.               *)
Begin ==
  /\ phase = "plan"
  /\ Planned /\ ~failed
  /\ phase' = "run"
  /\ next' = 1
  /\ mem' = [t \in Tensors |-> [r \in 0 .. Rows(t) - 1 |-> Junk]]
  /\ UNCHANGED <<planVars, task>>

(* tensors['logits'], after the layers.                                    *)
LogitsMissing == next > Len(HiddenCode) /\ Logits \notin DOMAIN offset

Launch ==
  /\ phase = "run"
  /\ ~LogitsMissing
  /\ next <= Len(Code)
  /\ Run(Code[next])
  /\ next' = next + 1
  /\ UNCHANGED <<planVars, task, phase>>

RaiseNoLogits ==
  /\ phase = "run"
  /\ LogitsMissing
  /\ phase' = "raised"
  /\ UNCHANGED <<planVars, task, next, mem>>

Return ==
  /\ phase = "run"
  /\ ~LogitsMissing
  /\ next > Len(Code)
  /\ phase' = "done"
  /\ UNCHANGED <<planVars, task, next, mem>>

ForwardStep == Begin \/ Launch \/ RaiseNoLogits \/ Return
-----------------------------------------------------------------------------
(* Properties.                                                             *)

(* Sharing memory between tensors, and running the MLP and the logits in   *)
(* chunks, does not change what a forward pass computes: every masked      *)
(* token's sample is, through all layers, computed from the values that    *)
(* separate tensors would have held.  Only a text without masked tokens    *)
(* makes the pass raise.                                                   *)
ForwardRight ==
  /\ phase = "done" =>
       \A i \in 0 .. M - 1 :
         mem[Index][i] = <<Index, NumLayers + 1, 0, TokenOf(i)>>
  /\ phase = "raised" => M = 0
=============================================================================
