----------------------------- MODULE MemoryPlan -----------------------------
(***************************************************************************)
(* MemoryAnalyzer (vllm/v1/worker/graph_builder.py): liveness, peak memory *)
(* and the reuse plan, a first-fit placement of the tensors of one layer   *)
(* in the activation buffer.                                               *)
(*                                                                         *)
(* A graph is the execution order, a sequence of nodes.  A tensor is named *)
(* by the position of the node that writes it; alias is the position of    *)
(* the tensor whose memory it must take over, 0 for none.                  *)
(***************************************************************************)
EXTENDS Integers, Sequences, FiniteSetsExt

CONSTANT Graphs   \* the graphs to be planned

(* The part of the layer a node belongs to, which its name tells.          *)
Part == {"fixed", "mlp", "logits"}

Node == [part : Part, size : Nat, inputs : SUBSET (Nat \ {0}), alias : Nat,
         width : {1, 2}]

(* add_op: inputs were computed before.  add_alias: both tensors exist and *)
(* the source is not larger.                                               *)
IsGraph(g) ==
  /\ g \in Seq(Node)
  /\ \A i \in 1 .. Len(g) :
       /\ \A j \in g[i].inputs : j < i
       /\ g[i].alias # 0 => /\ g[i].alias \in 1 .. Len(g)
                            /\ g[i].size <= g[g[i].alias].size

ASSUME GraphsAssumption == \A g \in Graphs : IsGraph(g)

VARIABLES graph,        \* the graph being planned
          k,            \* the node being placed
          offset,       \* reuse_plan: placed tensor -> offset
          max_offset,   \* size of the buffer so far
          scanned,      \* live blocks passed by the first-fit loop
          last_end,     \* end of the block it passed last
          failed        \* RuntimeError: alias of a tensor not yet placed

planVars == <<graph, k, offset, max_offset, scanned, last_end, failed>>

Consumers(i) == {j \in 1 .. Len(graph) : i \in graph[j].inputs}

(* deaths[i] >= n; a tensor without consumers has deaths[i] = -1.          *)
Usable(i, n) == \E j \in Consumers(i) : j >= n

(* Faulty variant: the memory of a dying input is given to the output.     *)
LiveBlocksStrict == {i \in DOMAIN offset : Usable(i, k + 1)}

(* Faulty variant: an aliased tensor is no block of its own.               *)
LiveBlocksUnaliased ==
  {i \in DOMAIN offset : graph[i].alias = 0 /\ Usable(i, k)}

(* live_blocks_at_birth                                                    *)
LiveBlocks == {i \in DOMAIN offset : Usable(i, k)}

End(i) == offset[i] + graph[i].size

(* The first block of S in the order of the sort by start, which is stable.*)
IsNext(i, S) ==
  /\ i \in S
  /\ \A j \in S : offset[i] < offset[j] \/ (offset[i] = offset[j] /\ i <= j)

(* Faulty variant: the buffer ends with the tensor placed last.            *)
PlaceLastEnd(o) ==
  /\ offset' = [i \in DOMAIN offset \cup {k} |-> IF i = k THEN o ELSE offset[i]]
  /\ max_offset' = o + graph[k].size
  /\ k' = k + 1
  /\ scanned' = {}
  /\ last_end' = 0
  /\ UNCHANGED <<graph, failed>>

Place(o) ==
  /\ offset' = [i \in DOMAIN offset \cup {k} |-> IF i = k THEN o ELSE offset[i]]
  /\ max_offset' = IF o + graph[k].size > max_offset
                   THEN o + graph[k].size ELSE max_offset
  /\ k' = k + 1
  /\ scanned' = {}
  /\ last_end' = 0
  /\ UNCHANGED <<graph, failed>>

(* _generate_optimized_reuse_plan on node k.                               *)
Placing == k <= Len(graph) /\ ~failed

(* An empty tensor gets no memory.                                         *)
SkipEmpty ==
  /\ Placing
  /\ graph[k].size = 0
  /\ k' = k + 1
  /\ UNCHANGED <<graph, offset, max_offset, scanned, last_end, failed>>

(* An aliased tensor takes the offset of its target.                       *)
PlaceAlias ==
  /\ Placing
  /\ graph[k].size > 0
  /\ graph[k].alias # 0
  /\ graph[k].alias \in DOMAIN offset
  /\ Place(offset[graph[k].alias])

AliasFails ==
  /\ Placing
  /\ graph[k].size > 0
  /\ graph[k].alias # 0
  /\ graph[k].alias \notin DOMAIN offset
  /\ failed' = TRUE
  /\ UNCHANGED <<graph, k, offset, max_offset, scanned, last_end>>

Searching == Placing /\ graph[k].size > 0 /\ graph[k].alias = 0

(* The gap before the next live block is large enough.                     *)
PlaceInGap ==
  /\ Searching
  /\ \E i \in LiveBlocks \ scanned :
       /\ IsNext(i, LiveBlocks \ scanned)
       /\ offset[i] - last_end >= graph[k].size
  /\ Place(last_end)

(* Faulty variant: one byte is left free behind a block.                   *)
PassBlockAndByte ==
  /\ Searching
  /\ \E i \in LiveBlocks \ scanned :
       /\ IsNext(i, LiveBlocks \ scanned)
       /\ offset[i] - last_end < graph[k].size
       /\ scanned' = scanned \cup {i}
       /\ last_end' = End(i) + 1
  /\ UNCHANGED <<graph, k, offset, max_offset, failed>>

(* It is not: the search moves on behind that block.                       *)
PassBlock ==
  /\ Searching
  /\ \E i \in LiveBlocks \ scanned :
       /\ IsNext(i, LiveBlocks \ scanned)
       /\ offset[i] - last_end < graph[k].size
       /\ scanned' = scanned \cup {i}
       /\ last_end' = End(i)
  /\ UNCHANGED <<graph, k, offset, max_offset, failed>>

(* Faulty variant: found_offset keeps its initial -1.                      *)
PlaceNowhere ==
  /\ Searching
  /\ LiveBlocks \subseteq scanned
  /\ Place(-1)

PlaceAtEnd ==
  /\ Searching
  /\ LiveBlocks \subseteq scanned
  /\ Place(last_end)

PlanStep == \/ SkipEmpty \/ PlaceAlias \/ AliasFails
            \/ PlaceInGap \/ PassBlock \/ PlaceAtEnd

Planned == k > Len(graph) \/ failed

PlanInit(g) ==
  /\ graph = g
  /\ k = 1
  /\ offset = <<>>
  /\ max_offset = 0
  /\ scanned = {}
  /\ last_end = 0
  /\ failed = FALSE

Init == \E g \in Graphs : PlanInit(g)
Next == PlanStep \/ (Planned /\ UNCHANGED planVars)
Spec == Init /\ [][Next]_planVars
-----------------------------------------------------------------------------
(* _analyze_liveness: the tensors live after node n, found by walking the  *)
(* execution order backwards.                                              *)
LiveAfter(n) ==
  {i \in 1 .. Len(graph) :
     \E j \in (n + 1) .. Len(graph) :
       i \in graph[j].inputs /\ i \notin (n + 1) .. (j - 1)}

(* total_memory of the timeline at node n.                                 *)
MemoryAt(n) ==
  LET Size(i) == graph[i].size
  IN  MapThenSumSet(Size, LiveAfter(n) \cup {n})

-----------------------------------------------------------------------------
(* Properties.                                                             *)

(* Types of the planner's state.                                           *)
PlanTypeOK ==
  /\ IsGraph(graph)
  /\ k \in 1 .. Len(graph) + 1
  /\ DOMAIN offset \subseteq 1 .. (k - 1)
  /\ offset \in [DOMAIN offset -> Nat]
  /\ max_offset \in Nat
  /\ scanned \subseteq DOMAIN offset
  /\ last_end \in Nat
  /\ failed \in BOOLEAN

Disjoint(i, j) == End(i) <= offset[j] \/ End(j) <= offset[i]

(* Tensors i < j that must not share memory: i is still read when or after *)
(* j is written.                                                           *)
Conflict(i, j) == i < j /\ \E n \in Consumers(i) : n >= j

(* In a graph without aliases, two tensors that are alive at the same time *)
(* never share memory.                                                     *)
LiveDisjoint ==
  (\A i \in 1 .. Len(graph) : graph[i].alias = 0) =>
    \A i, j \in DOMAIN offset : Conflict(i, j) => Disjoint(i, j)

(* The block graphs, with their alias of the layer's output to its input:  *)
(* the only sharing is an aliased output that takes exactly the memory of  *)
(* an operand it is computed from element by element.                      *)
SharesOnlyInPlace ==
  \A i, j \in DOMAIN offset : Conflict(i, j) =>
    \/ Disjoint(i, j)
    \/ /\ graph[j].alias # 0
       /\ i \in graph[j].inputs
       /\ \A n \in Consumers(i) : n <= j
       /\ offset[i] = offset[j] /\ graph[i].size = graph[j].size

(* Two-byte tensors lie at even offsets although one-byte barriers are     *)
(* placed among them, as long as nothing reads a barrier (get_tensor_view  *)
(* could not reinterpret the bytes of an odd offset).                      *)
ViewsAligned ==
  (\A i \in 1 .. Len(graph) :
     graph[i].size % 2 = 0 \/ (graph[i].width = 1 /\ Consumers(i) = {}))
    => \A i \in DOMAIN offset : offset[i] % graph[i].width = 0

(* The buffer is large enough for every moment of the memory timeline: the *)
(* tensors live after a node and the node's own output never need more     *)
(* than _total_buffer_size_bytes.                                          *)
PeakFits ==
  Planned /\ ~failed =>
    \A n \in 1 .. Len(graph) : MemoryAt(n) <= max_offset
=============================================================================
