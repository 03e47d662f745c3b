-------------------------- MODULE MemoryPlanProofs --------------------------
(***************************************************************************)
(* The reuse plan is safe: live tensors share memory only where an alias   *)
(* asks for an update in place (never, without aliases), two-byte tensors  *)
(* are always aligned, and the buffer holds the peak of the timeline.      *)
(***************************************************************************)
EXTENDS MemoryPlan, BlockGraphs, FiniteSetTheorems, TLAPS

(* What the first-fit loop knows: the live blocks it passed end before     *)
(* last_end, the others start behind it.                                   *)
ScanInv ==
  /\ \A i \in scanned : End(i) <= last_end
  /\ \A i \in LiveBlocks \ scanned : last_end <= offset[i]

(* The invariant of the plan: placed tensors are not empty, two that       *)
(* overlap are an update in place, and the scan is as far as ScanInv says. *)
SafeInv ==
  /\ \A i \in DOMAIN offset : graph[i].size > 0
  /\ SharesOnlyInPlace
  /\ ScanInv

(* The fields of a node.                                                   *)
LEMMA NodeFields ==
  ASSUME NEW g \in Seq(Node), NEW i \in 1 .. Len(g)
  PROVE  /\ g[i].size \in Nat /\ g[i].alias \in Nat /\ g[i].width \in {1, 2}
         /\ g[i].inputs \subseteq Nat \ {0}
<1>1. g[i] \in Node
  OBVIOUS
<1>. QED  BY <1>1 DEF Node

(* Placing a tensor keeps the types.                                       *)
LEMMA PlaceType ==
  ASSUME PlanTypeOK, Placing, NEW o \in Nat, Place(o)
  PROVE  PlanTypeOK'
<1>1. graph \in Seq(Node) /\ k \in 1 .. Len(graph) /\ Len(graph) \in Nat
  BY DEF PlanTypeOK, Placing, IsGraph
<1>2. graph[k].size \in Nat
  BY <1>1, NodeFields
<1>3. /\ IsGraph(graph)' /\ (last_end \in Nat)' /\ (failed \in BOOLEAN)'
      /\ (scanned \subseteq DOMAIN offset)'
  BY DEF PlanTypeOK, Place
<1>4. (k \in 1 .. Len(graph) + 1)'
  BY <1>1 DEF Place
<1>5. (max_offset \in Nat)'
  BY <1>2 DEF PlanTypeOK, Place
<1>6. (DOMAIN offset \subseteq 1 .. (k - 1))'
  <2>1. DOMAIN offset \subseteq 1 .. (k - 1)
    BY DEF PlanTypeOK
  <2>2. k' = k + 1 /\ DOMAIN offset' = DOMAIN offset \cup {k}
    BY DEF Place
  <2>. QED  BY <1>1, <2>1, <2>2
<1>7. (offset \in [DOMAIN offset -> Nat])'
  BY DEF PlanTypeOK, Place
<1>. QED  BY <1>3, <1>4, <1>5, <1>6, <1>7 DEF PlanTypeOK

(* Every step of the planner keeps the types.                              *)
LEMMA PlanTypeStep ==
  PlanTypeOK /\ [Next]_planVars => PlanTypeOK'
<1>. SUFFICES ASSUME PlanTypeOK, [Next]_planVars PROVE PlanTypeOK'
  OBVIOUS
<1>0. graph \in Seq(Node) /\ Len(graph) \in Nat
  BY DEF PlanTypeOK, IsGraph
<1>1. CASE SkipEmpty
  <2>1. (DOMAIN offset \subseteq 1 .. (k - 1))' /\ (k \in 1 .. Len(graph) + 1)'
    BY <1>0, <1>1 DEF SkipEmpty, PlanTypeOK, Placing
  <2>. QED  BY <1>1, <2>1 DEF SkipEmpty, PlanTypeOK
<1>2. CASE PlaceAlias
  <2>1. offset[graph[k].alias] \in Nat
    BY <1>2 DEF PlaceAlias, PlanTypeOK
  <2>. QED  BY <1>2, <2>1, PlaceType DEF PlaceAlias
<1>3. CASE AliasFails
  BY <1>3 DEF AliasFails, PlanTypeOK
<1>4. CASE PlaceInGap
  <2>1. Placing /\ Place(last_end)
    BY <1>4 DEF PlaceInGap, Searching
  <2>2. last_end \in Nat
    BY DEF PlanTypeOK
  <2>. QED  BY <2>1, <2>2, PlaceType
<1>5. CASE PassBlock
  <2>1. PICK i \in LiveBlocks \ scanned :
          scanned' = scanned \cup {i} /\ last_end' = End(i)
    BY <1>5 DEF PassBlock
  <2>2. i \in DOMAIN offset /\ offset[i] \in Nat /\ graph[i].size \in Nat
    <3>1. i \in DOMAIN offset /\ i \in 1 .. Len(graph)
      BY <1>0 DEF LiveBlocks, PlanTypeOK
    <3>. QED  BY <1>0, <3>1, NodeFields DEF PlanTypeOK
  <2>3. End(i) \in Nat
    BY <2>2 DEF End
  <2>4. /\ graph' = graph /\ k' = k /\ offset' = offset /\ max_offset' = max_offset
        /\ failed' = failed
    BY <1>5 DEF PassBlock
  <2>5. scanned' \subseteq DOMAIN offset
    BY <2>1, <2>2 DEF PlanTypeOK
  <2>. QED  BY <2>1, <2>3, <2>4, <2>5, Zenon DEF PlanTypeOK
<1>6. CASE PlaceAtEnd
  <2>1. Placing /\ Place(last_end)
    BY <1>6 DEF PlaceAtEnd, Searching
  <2>2. last_end \in Nat
    BY DEF PlanTypeOK
  <2>. QED  BY <2>1, <2>2, PlaceType
<1>7. CASE UNCHANGED planVars
  BY <1>7 DEF planVars, PlanTypeOK
<1>. QED  BY <1>1, <1>2, <1>3, <1>4, <1>5, <1>6, <1>7 DEF Next, PlanStep

(* The planner's state is well typed, for every set of graphs.             *)
THEOREM PlanTypeCorrect == Spec => []PlanTypeOK
<1>1. Init => PlanTypeOK
  <2>. SUFFICES ASSUME Init PROVE PlanTypeOK
    OBVIOUS
  <2>1. IsGraph(graph) /\ Len(graph) \in Nat
    BY GraphsAssumption DEF Init, PlanInit, IsGraph
  <2>2. DOMAIN offset = {} /\ offset \in [DOMAIN offset -> Nat]
    BY DEF Init, PlanInit
  <2>3. k = 1 /\ max_offset = 0 /\ scanned = {} /\ last_end = 0 /\ failed = FALSE
    BY DEF Init, PlanInit
  <2>4. k \in 1 .. Len(graph) + 1 /\ max_offset \in Nat /\ last_end \in Nat
    BY <2>1, <2>3
  <2>5. DOMAIN offset \subseteq 1 .. (k - 1) /\ scanned \subseteq DOMAIN offset
    BY <2>2, <2>3
  <2>. QED  BY <2>1, <2>2, <2>3, <2>4, <2>5, Zenon DEF PlanTypeOK
<1>. QED  BY <1>1, PlanTypeStep, PTL DEF Spec

-----------------------------------------------------------------------------
(* Two blocks that are both still read at node k do not share memory: the  *)
(* operand of an update in place is dead once the update is done.          *)
LEMMA LiveApart ==
  ASSUME PlanTypeOK, SafeInv, Placing, NEW i \in LiveBlocks, NEW j \in LiveBlocks, i # j
  PROVE  Disjoint(i, j)
<1>1. /\ i \in DOMAIN offset /\ j \in DOMAIN offset /\ i \in Nat /\ j \in Nat
      /\ i < k /\ j < k /\ k \in Nat /\ Len(graph) \in Nat
  BY DEF LiveBlocks, PlanTypeOK, Placing, IsGraph
<1>2. PICK m \in Consumers(i) : m >= k
  BY DEF LiveBlocks, Usable
<1>3. PICK n \in Consumers(j) : n >= k
  BY DEF LiveBlocks, Usable
<1>4. m \in Nat /\ n \in Nat
  BY <1>1 DEF Consumers
<1>5. CASE i < j
  <2>1. Conflict(i, j) /\ ~(m <= j)
    BY <1>1, <1>2, <1>4, <1>5 DEF Conflict
  <2>. QED  BY <1>1, <2>1 DEF SafeInv, SharesOnlyInPlace
<1>6. CASE j < i
  <2>1. Conflict(j, i) /\ ~(n <= i)
    BY <1>1, <1>3, <1>4, <1>6 DEF Conflict
  <2>2. Disjoint(j, i)
    BY <1>1, <2>1 DEF SafeInv, SharesOnlyInPlace
  <2>. QED  BY <2>2 DEF Disjoint
<1>. QED  BY <1>1, <1>5, <1>6

(* A tensor may be placed at o if every block still read at its node is    *)
(* disjoint from it or is the operand it updates in place; the loop        *)
(* restarts with the next node.                                            *)
InPlaceOf(i, o) ==
  /\ graph[k].alias # 0 /\ i \in graph[k].inputs /\ \A n \in Consumers(i) : n <= k
  /\ offset[i] = o /\ graph[i].size = graph[k].size

(* Placing a tensor where it overlaps no live one, or only one that it     *)
(* replaces, keeps the plan safe.                                          *)
LEMMA PlaceSafe ==
  ASSUME PlanTypeOK, SafeInv, Placing, graph[k].size > 0, NEW o \in Nat, Place(o),
         \A i \in LiveBlocks : \/ End(i) <= o \/ o + graph[k].size <= offset[i]
                               \/ InPlaceOf(i, o)
  PROVE  SafeInv'
<1>1. graph \in Seq(Node) /\ k \in 1 .. Len(graph) /\ Len(graph) \in Nat
  BY DEF PlanTypeOK, Placing, IsGraph
<1>2. DOMAIN offset \subseteq 1 .. (k - 1)
  BY DEF PlanTypeOK
<1>3. /\ DOMAIN offset' = DOMAIN offset \cup {k} /\ offset'[k] = o
      /\ \A i \in DOMAIN offset : offset'[i] = offset[i]
      /\ graph' = graph /\ k' = k + 1 /\ scanned' = {} /\ last_end' = 0
  BY <1>1, <1>2 DEF Place
<1>4. \A i \in DOMAIN offset : offset[i] \in Nat /\ graph[i].size \in Nat
  BY <1>1, <1>2, NodeFields DEF PlanTypeOK
<1>5. (\A i \in DOMAIN offset : graph[i].size > 0)'
  BY <1>3 DEF SafeInv
<1>6. ASSUME NEW i \in DOMAIN offset', NEW j \in DOMAIN offset', Conflict(i, j)'
      PROVE  \/ Disjoint(i, j)'
             \/ /\ graph[j].alias # 0 /\ i \in graph[j].inputs
                /\ \A n \in Consumers(i) : n <= j
                /\ offset'[i] = offset'[j] /\ graph[i].size = graph[j].size
  <2>1. Conflict(i, j)
    BY <1>3, <1>6 DEF Conflict, Consumers
  <2>2. i \in DOMAIN offset
    BY <1>1, <1>2, <1>3, <2>1 DEF Conflict
  <2>3. CASE j \in DOMAIN offset
    BY <1>3, <2>1, <2>2, <2>3 DEF SafeInv, SharesOnlyInPlace, Disjoint, End
  <2>4. CASE j = k
    <3>1. i \in LiveBlocks
      BY <2>1, <2>2, <2>4 DEF Conflict, LiveBlocks, Usable
    <3>2. CASE End(i) <= o \/ o + graph[k].size <= offset[i]
      BY <1>3, <2>2, <2>4, <3>2 DEF Disjoint, End
    <3>3. CASE InPlaceOf(i, o)
      BY <1>3, <2>2, <2>4, <3>3 DEF InPlaceOf
    <3>. QED  BY <3>1, <3>2, <3>3
  <2>. QED  BY <1>3, <2>3, <2>4
<1>7. SharesOnlyInPlace'
  <2>1. \A i : Consumers(i)' = Consumers(i)
    BY <1>3 DEF Consumers
  <2>. QED  BY <1>3, <1>6, <2>1 DEF SharesOnlyInPlace
<1>8. ScanInv'
  <2>1. o \in Nat
    OBVIOUS
  <2>. QED  BY <1>1, <1>3, <1>4, <2>1 DEF ScanInv, LiveBlocks
<1>. QED  BY <1>5, <1>7, <1>8 DEF SafeInv

(* The first-fit loop places at last_end once the blocks it has not passed *)
(* are far enough.                                                         *)
LEMMA FirstFitSafe ==
  ASSUME PlanTypeOK, SafeInv, Placing, graph[k].size > 0, Place(last_end),
         \A i \in LiveBlocks \ scanned : last_end + graph[k].size <= offset[i]
  PROVE  SafeInv'
<1>1. \A i \in LiveBlocks : End(i) <= last_end \/ last_end + graph[k].size <= offset[i]
  BY DEF SafeInv, ScanInv
<1>2. last_end \in Nat
  BY DEF PlanTypeOK
<1>. QED  BY <1>1, <1>2, PlaceSafe

(* Passing the next live block keeps the loop's knowledge: blocks are      *)
(* disjoint, so the ones that start later start behind its end.            *)
LEMMA PassSafe ==
  ASSUME PlanTypeOK, SafeInv, PassBlock
  PROVE  SafeInv'
<1>1. /\ graph \in Seq(Node) /\ k \in 1 .. Len(graph) /\ Len(graph) \in Nat
      /\ Placing
  BY DEF PlanTypeOK, PassBlock, Searching, Placing, IsGraph
<1>2. DOMAIN offset \subseteq 1 .. (k - 1)
  BY DEF PlanTypeOK
<1>3. PICK b \in LiveBlocks \ scanned :
        /\ IsNext(b, LiveBlocks \ scanned)
        /\ scanned' = scanned \cup {b} /\ last_end' = End(b)
  BY DEF PassBlock
<1>4. UNCHANGED <<graph, k, offset>>
  BY DEF PassBlock
<1>5. \A i \in DOMAIN offset : offset[i] \in Nat /\ graph[i].size \in Nat
  BY <1>1, <1>2, NodeFields DEF PlanTypeOK
<1>6. b \in DOMAIN offset /\ last_end \in Nat /\ scanned \subseteq DOMAIN offset
  BY <1>3 DEF LiveBlocks, PlanTypeOK
<1>7. ASSUME NEW i \in scanned'
      PROVE  End(i) <= End(b)
  BY <1>3, <1>5, <1>6 DEF SafeInv, ScanInv, End
<1>8. ASSUME NEW j \in LiveBlocks \ scanned, j # b
      PROVE  End(b) <= offset[j]
  <2>1. j \in DOMAIN offset /\ offset[b] <= offset[j]
    BY <1>3, <1>5, <1>6, <1>8 DEF LiveBlocks, IsNext
  <2>2. Disjoint(b, j)
    BY <1>1, <1>3, <1>8, LiveApart
  <2>3. graph[j].size > 0
    BY <2>1 DEF SafeInv
  <2>. QED  BY <1>5, <1>6, <2>1, <2>2, <2>3 DEF Disjoint, End
<1>9. ScanInv'
  <2>1. LiveBlocks' = LiveBlocks
    BY <1>4 DEF LiveBlocks, Usable, Consumers
  <2>. QED  BY <1>3, <1>4, <1>7, <1>8, <2>1 DEF ScanInv, End
<1>. QED  BY <1>4, <1>9 DEF SafeInv, SharesOnlyInPlace, Conflict, Consumers, Disjoint, End

(* The place of an alias is free, or held by an operand updated in place.  *)
AliasFits ==
  \A i \in LiveBlocks :
    \/ End(i) <= offset[graph[k].alias]
    \/ offset[graph[k].alias] + graph[k].size <= offset[i]
    \/ InPlaceOf(i, offset[graph[k].alias])

(* Every step of the planner is safe, the placement of an alias if it fits.*)
LEMMA SafeStep ==
  ASSUME PlanTypeOK, SafeInv, [Next]_planVars, PlaceAlias => AliasFits
  PROVE  SafeInv'
<1>1. CASE SkipEmpty
  <2>1. ASSUME NEW i \in LiveBlocks' PROVE i \in LiveBlocks
    <3>1. graph' = graph /\ offset' = offset /\ k' = k + 1
      BY <1>1 DEF SkipEmpty
    <3>2. k \in Nat /\ Len(graph) \in Nat
      BY DEF PlanTypeOK, IsGraph
    <3>3. PICK j \in 1 .. Len(graph) : i \in graph[j].inputs /\ j >= k + 1
      BY <3>1 DEF LiveBlocks, Usable, Consumers
    <3>4. j >= k
      BY <3>2, <3>3
    <3>. QED  BY <3>1, <3>3, <3>4 DEF LiveBlocks, Usable, Consumers
  <2>. QED  BY <1>1, <2>1 DEF SkipEmpty, SafeInv, SharesOnlyInPlace, ScanInv, End,
                              Conflict, Consumers, Disjoint
<1>2. CASE PlaceAlias
  <2>1. offset[graph[k].alias] \in Nat
    BY <1>2 DEF PlaceAlias, PlanTypeOK
  <2>. QED  BY <1>2, <2>1, PlaceSafe DEF PlaceAlias, AliasFits
<1>3. CASE PlaceInGap
  <2>1. PICK b \in LiveBlocks \ scanned :
          /\ IsNext(b, LiveBlocks \ scanned)
          /\ offset[b] - last_end >= graph[k].size
    BY <1>3 DEF PlaceInGap
  <2>2. graph[k].size \in Nat /\ last_end \in Nat
    BY <1>3, NodeFields DEF PlaceInGap, Searching, Placing, PlanTypeOK, IsGraph
  <2>3. \A i \in LiveBlocks \ scanned :
          offset[i] \in Nat /\ offset[b] \in Nat /\ offset[b] <= offset[i]
    BY <2>1 DEF IsNext, LiveBlocks, PlanTypeOK
  <2>4. \A i \in LiveBlocks \ scanned : last_end + graph[k].size <= offset[i]
    BY <2>1, <2>2, <2>3
  <2>. QED  BY <1>3, <2>4, FirstFitSafe DEF PlaceInGap, Searching
<1>4. CASE PassBlock
  BY <1>4, PassSafe
<1>5. CASE PlaceAtEnd
  BY <1>5, FirstFitSafe DEF PlaceAtEnd, Searching
<1>6. CASE AliasFails \/ UNCHANGED planVars
  BY <1>6 DEF AliasFails, planVars, SafeInv, SharesOnlyInPlace, ScanInv, LiveBlocks,
              Usable, Consumers, Conflict, Disjoint, End
<1>. QED  BY <1>1, <1>2, <1>3, <1>4, <1>5, <1>6 DEF Next, PlanStep

(* The empty plan is safe.                                                 *)
LEMMA SafeInit == Init => SafeInv
BY DEF Init, PlanInit, SafeInv, SharesOnlyInPlace, ScanInv, LiveBlocks

(* The planner leaves the graph alone.                                     *)
LEMMA SameGraph == [Next]_planVars => graph' = graph
BY DEF Next, PlanStep, SkipEmpty, PlaceAlias, AliasFails, PlaceInGap, PassBlock,
       PlaceAtEnd, Place, planVars

(* For every graph without aliases, tensors that are alive together never  *)
(* share memory (_generate_optimized_reuse_plan).                          *)
THEOREM PlanSafe == Spec => []LiveDisjoint
<1> DEFINE Unaliased == \A i \in 1 .. Len(graph) : graph[i].alias = 0
<1>1. Init => (Unaliased => SafeInv)
  BY SafeInit
<1>2. PlanTypeOK /\ (Unaliased => SafeInv) /\ [Next]_planVars => (Unaliased => SafeInv)'
  <2>. SUFFICES ASSUME PlanTypeOK, Unaliased => SafeInv, [Next]_planVars, Unaliased'
                PROVE  SafeInv'
    OBVIOUS
  <2>1. Unaliased /\ SafeInv
    BY SameGraph
  <2>2. ~PlaceAlias
    BY <2>1 DEF PlaceAlias, Placing, PlanTypeOK, IsGraph
  <2>. QED  BY <2>1, <2>2, SafeStep
<1>3. PlanTypeOK /\ (Unaliased => SafeInv) => LiveDisjoint
  <2>. SUFFICES ASSUME PlanTypeOK, SafeInv, Unaliased,
                       NEW i \in DOMAIN offset, NEW j \in DOMAIN offset, Conflict(i, j)
                PROVE  Disjoint(i, j)
    BY DEF LiveDisjoint
  <2>1. graph[j].alias = 0
    BY DEF PlanTypeOK, IsGraph
  <2>. QED  BY <2>1 DEF SafeInv, SharesOnlyInPlace
<1>. QED  BY <1>1, <1>2, <1>3, PlanTypeCorrect, PTL DEF Spec
-----------------------------------------------------------------------------
(* First fit: a tensor that is no alias lies at the lowest offset at which *)
(* it overlaps none of the blocks that are still read when it is written.  *)
Hits(o, size, i) == o < End(i) /\ offset[i] < o + size

LowestFit ==
  \A j \in DOMAIN offset : graph[j].alias = 0 =>
    \A o \in Nat : o < offset[j] =>
      \E i \in DOMAIN offset : Conflict(i, j) /\ Hits(o, graph[j].size, i)

FitInv ==
  /\ \A j \in 1 .. (k - 1) : graph[j].size > 0 => j \in DOMAIN offset
  /\ last_end # 0 => Searching
  /\ \A o \in Nat : o < last_end => \E i \in LiveBlocks : Hits(o, graph[k].size, i)
  /\ LowestFit

(* The empty plan has nothing that could lie lower.                        *)
LEMMA FitInit == Init => FitInv
BY DEF Init, PlanInit, FitInv, LowestFit

(* Placing a tensor at a lowest fit keeps all tensors at theirs.           *)
LEMMA PlaceFit ==
  ASSUME PlanTypeOK, FitInv, Placing, NEW o \in Nat, Place(o),
         o = last_end \/ graph[k].alias # 0
  PROVE  FitInv'
<1>1. graph \in Seq(Node) /\ k \in 1 .. Len(graph) /\ Len(graph) \in Nat
  BY DEF PlanTypeOK, Placing, IsGraph
<1>2. DOMAIN offset \subseteq 1 .. (k - 1)
  BY DEF PlanTypeOK
<1>3. /\ DOMAIN offset' = DOMAIN offset \cup {k} /\ offset'[k] = o
      /\ \A i \in DOMAIN offset : offset'[i] = offset[i]
      /\ graph' = graph /\ k' = k + 1 /\ last_end' = 0
  BY <1>1, <1>2 DEF Place
<1>4. (\A j \in 1 .. (k - 1) : graph[j].size > 0 => j \in DOMAIN offset)'
  BY <1>1, <1>3 DEF FitInv
<1>5. ASSUME NEW i \in DOMAIN offset, NEW j, Conflict(i, j), NEW p \in Nat, NEW z,
             Hits(p, z, i)
      PROVE  Conflict(i, j)' /\ p < offset'[i] + graph'[i].size /\ offset'[i] < p + z
  BY <1>3, <1>5 DEF Conflict, Consumers, Hits, End
<1>6. ASSUME NEW j \in DOMAIN offset', graph[j].alias = 0, NEW p \in Nat, p < offset'[j]
      PROVE  \E i \in DOMAIN offset : Conflict(i, j) /\ Hits(p, graph[j].size, i)
  <2>1. CASE j \in DOMAIN offset
    BY <1>3, <1>6, <2>1 DEF FitInv, LowestFit
  <2>2. CASE j = k
    <3>1. PICK i \in LiveBlocks : Hits(p, graph[k].size, i)
      BY <1>3, <1>6, <2>2 DEF FitInv
    <3>2. i \in DOMAIN offset /\ Usable(i, k)
      BY DEF LiveBlocks
    <3>3. Conflict(i, k)
      BY <1>1, <1>2, <3>2 DEF Conflict, Usable
    <3>. QED  BY <2>2, <3>1, <3>2, <3>3
  <2>. QED  BY <1>3, <2>1, <2>2
<1>7. LowestFit'
  <2>. SUFFICES ASSUME NEW j \in DOMAIN offset', graph'[j].alias = 0,
                       NEW p \in Nat, p < offset'[j]
                PROVE  \E i \in DOMAIN offset' : Conflict(i, j)'
                         /\ p < offset'[i] + graph'[i].size /\ offset'[i] < p + graph'[j].size
    BY DEF LowestFit, Hits, End
  <2>1. PICK i \in DOMAIN offset : Conflict(i, j) /\ Hits(p, graph[j].size, i)
    BY <1>3, <1>6
  <2>. QED  BY <1>3, <1>5, <2>1
<1>. QED  BY <1>3, <1>4, <1>7 DEF FitInv

(* Passing a live block rules out all offsets before its end.              *)
LEMMA PassFit ==
  ASSUME PlanTypeOK, FitInv, PassBlock
  PROVE  FitInv'
<1>1. /\ graph \in Seq(Node) /\ k \in 1 .. Len(graph) /\ Len(graph) \in Nat
      /\ Searching /\ graph[k].size \in Nat
  BY NodeFields DEF PlanTypeOK, PassBlock, Searching, Placing, IsGraph
<1>2. PICK b \in LiveBlocks \ scanned :
        /\ offset[b] - last_end < graph[k].size /\ last_end' = End(b)
  BY DEF PassBlock
<1>3. UNCHANGED <<graph, k, offset, failed>>
  BY DEF PassBlock
<1>4. b \in DOMAIN offset /\ offset[b] \in Nat /\ last_end \in Nat
  BY <1>2 DEF LiveBlocks, PlanTypeOK
<1>5. LiveBlocks' = LiveBlocks
  BY <1>3 DEF LiveBlocks, Usable, Consumers
<1>6. ASSUME NEW o \in Nat, o < End(b)
      PROVE  \E i \in LiveBlocks : Hits(o, graph[k].size, i)
  <2>1. CASE o < last_end
    BY <2>1 DEF FitInv
  <2>2. CASE ~(o < last_end)
    <3>1. offset[b] < o + graph[k].size
      BY <1>1, <1>2, <1>4, <2>2
    <3>. QED  BY <1>2, <1>6, <3>1 DEF Hits
  <2>. QED  BY <2>1, <2>2
<1>7. (last_end # 0 => Searching)'
  BY <1>1, <1>3 DEF Searching, Placing
<1>8. (\A o \in Nat : o < last_end => \E i \in LiveBlocks : Hits(o, graph[k].size, i))'
  BY <1>2, <1>3, <1>5, <1>6 DEF Hits, End
<1>9. LowestFit'
  BY <1>3 DEF FitInv, LowestFit, Conflict, Consumers, Hits, End
<1>. QED  BY <1>3, <1>7, <1>8, <1>9 DEF FitInv

(* Every step of the planner keeps the lowest fits.                        *)
LEMMA FitStep == PlanTypeOK /\ FitInv /\ [Next]_planVars => FitInv'
<1>. SUFFICES ASSUME PlanTypeOK, FitInv, [Next]_planVars PROVE FitInv'
  OBVIOUS
<1>1. CASE SkipEmpty
  <2>1. last_end = 0 /\ last_end' = 0
    BY <1>1 DEF SkipEmpty, FitInv, Searching
  <2>2. UNCHANGED <<graph, offset>> /\ k' = k + 1 /\ ~(graph[k].size > 0) /\ k \in Int
    BY <1>1 DEF SkipEmpty, PlanTypeOK, IsGraph
  <2>3. (\A j \in 1 .. (k - 1) : graph[j].size > 0 => j \in DOMAIN offset)'
    BY <2>2 DEF FitInv
  <2>4. LowestFit'
    BY <2>2 DEF FitInv, LowestFit, Conflict, Consumers, Hits, End
  <2>. QED  BY <2>1, <2>3, <2>4 DEF FitInv
<1>2. CASE PlaceAlias
  <2>1. offset[graph[k].alias] \in Nat
    BY <1>2 DEF PlaceAlias, PlanTypeOK
  <2>. QED  BY <1>2, <2>1, PlaceFit DEF PlaceAlias
<1>3. CASE PlaceInGap \/ PlaceAtEnd
  BY <1>3, PlaceFit DEF PlaceInGap, PlaceAtEnd, Searching, PlanTypeOK
<1>4. CASE PassBlock
  BY <1>4, PassFit
<1>5. CASE AliasFails
  <2>1. last_end = 0
    BY <1>5 DEF AliasFails, FitInv, Searching
  <2>. QED  BY <1>5, <2>1 DEF AliasFails, FitInv, LowestFit, Conflict, Consumers, Hits, End
<1>6. CASE UNCHANGED planVars
  BY <1>6 DEF planVars, FitInv, Searching, Placing, LiveBlocks, Usable, LowestFit, Conflict,
              Consumers, Hits, End
<1>. QED  BY <1>1, <1>2, <1>3, <1>4, <1>5, <1>6 DEF Next, PlanStep

(* The reuse plan wastes no gap: for every graph, no tensor but an alias   *)
(* could have been placed lower than it is, given the tensors that are     *)
(* still read when it is written.                                          *)
THEOREM PlanFirstFit == Spec => []LowestFit
<1>1. FitInv => LowestFit
  BY DEF FitInv
<1>. QED  BY <1>1, FitInit, FitStep, PlanTypeCorrect, PTL DEF Spec
-----------------------------------------------------------------------------
(* Nothing but unread barriers has an odd size.                            *)
EvenGraph ==
  \A i \in 1 .. Len(graph) :
    graph[i].size % 2 = 0 \/ (graph[i].width = 1 /\ Consumers(i) = {})

EvenInv == last_end % 2 = 0 /\ \A i \in DOMAIN offset : offset[i] % 2 = 0

(* Sums of even numbers are even.                                          *)
LEMMA EvenSum ==
  ASSUME NEW a \in Nat, NEW b \in Nat, a % 2 = 0, b % 2 = 0
  PROVE  (a + b) % 2 = 0
OBVIOUS

(* In such a graph every step keeps all offsets even: tensors are placed   *)
(* at 0, at the end of a block that is still read, or at an offset that is *)
(* already in the plan.                                                    *)
LEMMA EvenStep ==
  PlanTypeOK /\ (EvenGraph => EvenInv) /\ [Next]_planVars
    => (EvenGraph => EvenInv)'
<1>. SUFFICES ASSUME PlanTypeOK, EvenGraph => EvenInv, [Next]_planVars, EvenGraph'
              PROVE  EvenInv'
  OBVIOUS
<1>0. graph' = graph
  BY DEF Next, PlanStep, SkipEmpty, PlaceAlias, AliasFails,
         PlaceInGap, PassBlock, PlaceAtEnd, Place, planVars
<1>1. EvenGraph /\ EvenInv
  BY <1>0 DEF EvenGraph, Consumers
<1>2. CASE UNCHANGED <<offset, last_end>>
  BY <1>1, <1>2 DEF EvenInv
<1>3. ASSUME NEW o \in Nat, o % 2 = 0, Place(o)
      PROVE  EvenInv'
  BY <1>1, <1>3 DEF Place, EvenInv
<1>4. CASE PlaceAlias
  <2>1. /\ offset[graph[k].alias] \in Nat /\ offset[graph[k].alias] % 2 = 0
        /\ Place(offset[graph[k].alias])
    BY <1>1, <1>4 DEF PlaceAlias, EvenInv, PlanTypeOK
  <2>. QED  BY <2>1, <1>3
<1>5. CASE PlaceInGap \/ PlaceAtEnd
  <2>1. last_end \in Nat /\ last_end % 2 = 0 /\ Place(last_end)
    BY <1>1, <1>5 DEF PlaceInGap, PlaceAtEnd, EvenInv, PlanTypeOK
  <2>. QED  BY <2>1, <1>3
<1>6. CASE PassBlock
  <2>1. PICK b \in LiveBlocks : last_end' = End(b)
    BY <1>6 DEF PassBlock
  <2>2. b \in DOMAIN offset /\ Consumers(b) # {} /\ offset[b] \in Nat
    BY DEF LiveBlocks, Usable, PlanTypeOK
  <2>3. b \in 1 .. Len(graph) /\ graph[b].size \in Nat
    <3>1. graph \in Seq(Node) /\ Len(graph) \in Nat
      BY DEF PlanTypeOK, IsGraph
    <3>2. b \in 1 .. Len(graph)
      BY <2>2, <3>1 DEF PlanTypeOK
    <3>. QED  BY <3>1, <3>2, NodeFields
  <2>4. graph[b].size % 2 = 0 /\ offset[b] % 2 = 0
    BY <1>1, <2>2, <2>3 DEF EvenGraph, EvenInv
  <2>5. End(b) % 2 = 0
    BY <2>2, <2>3, <2>4, EvenSum, Zenon DEF End
  <2>6. offset' = offset
    BY <1>6 DEF PassBlock
  <2>. QED  BY <1>1, <2>1, <2>5, <2>6 DEF EvenInv
<1>. QED  BY <1>2, <1>4, <1>5, <1>6 DEF Next, PlanStep, SkipEmpty, AliasFails,
                                        planVars

(* For every graph, aliased or not, in which only unread barriers have an  *)
(* odd size, get_tensor_view can reinterpret the bytes of every tensor.    *)
THEOREM PlanAligned == Spec => []ViewsAligned
<1>1. Init => (EvenGraph => EvenInv)
  BY DEF Init, PlanInit, EvenInv
<1>2. PlanTypeOK /\ (EvenGraph => EvenInv) => ViewsAligned
  <2>. SUFFICES ASSUME PlanTypeOK, EvenGraph, EvenInv, NEW i \in DOMAIN offset
                PROVE  offset[i] % graph[i].width = 0
    BY DEF ViewsAligned, EvenGraph
  <2>1. graph \in Seq(Node) /\ Len(graph) \in Nat
    BY DEF PlanTypeOK, IsGraph
  <2>2. i \in 1 .. Len(graph) /\ offset[i] \in Nat
    BY <2>1 DEF PlanTypeOK
  <2>3. graph[i].width = 1 \/ graph[i].width = 2
    BY <2>1, <2>2, NodeFields
  <2>. QED  BY <2>2, <2>3 DEF EvenInv
<1>. QED  BY <1>1, <1>2, EvenStep, PlanTypeCorrect, PTL DEF Spec
-----------------------------------------------------------------------------
(* The block graphs of the models.  L is the layer's output, which takes   *)
(* over the memory of x; x and the other hidden-state tensors have one     *)
(* size.  Without the barriers of a chunked MLP the last tensor of the MLP *)
(* is no smaller.                                                          *)
LayerShape(g, L) ==
  LET H == g[1].size
  IN  /\ Len(g) = L + 1 /\ H > 0 /\ g[4].size > 0 /\ g[5].size > 0
      /\ \A i \in {2, 3, 6, 7, 8, 9, 13, L} : g[i].size = H
      /\ L = 14 => g[12].size >= H
      /\ g[1].inputs = {} /\ g[2].inputs = {1} /\ g[3].inputs = {2}
      /\ g[4].inputs = {2} /\ g[5].inputs = {2} /\ g[6].inputs = {3, 4, 5}
      /\ g[7].inputs = {6} /\ g[8].inputs = {1, 7} /\ g[9].inputs = {1, 7}
      /\ g[10].inputs = {8} /\ g[11].inputs \subseteq {8, 10}
      /\ g[12].inputs \subseteq {10, 11} /\ g[13].inputs = {12}
      /\ L = 16 => g[14].inputs = {10, 11, 12, 13} /\ g[15].inputs = {8}
      /\ g[L].inputs = {9, 13} /\ g[L + 1].inputs = {L}
      /\ g[L].alias = 1 /\ \A i \in 1 .. L + 1 : i # L => g[i].alias = 0

IsBlockGraph(g) ==
  \E m \in Models, N \in Nat \ {0}, M \in Nat, cl \in Nat \ {0}, cm \in Nat \ {0} :
    g = BlockGraph(m, N, M, cl, cm)

LEMMA Join ==
  ASSUME NEW S, NEW s \in Seq(S), NEW t \in Seq(S), NEW u, u = s \o t
  PROVE  /\ u \in Seq(S) /\ Len(u) = Len(s) + Len(t)
         /\ \A i \in 1 .. Len(s) : u[i] = s[i]
         /\ \A i \in 1 .. Len(t) : u[Len(s) + i] = t[i]
OBVIOUS

LEMMA Pair ==
  ASSUME NEW S, NEW a \in S, NEW b \in S
  PROVE  <<a, b>> \in Seq(S) /\ Len(<<a, b>>) = 2
OBVIOUS

LEMMA Quadruple ==
  ASSUME NEW S, NEW a \in S, NEW b \in S, NEW c \in S, NEW d \in S
  PROVE  <<a, b, c, d>> \in Seq(S) /\ Len(<<a, b, c, d>>) = 4
OBVIOUS

LEMMA Nonuple ==
  ASSUME NEW S, NEW a \in S, NEW b \in S, NEW c \in S, NEW d \in S, NEW e \in S,
         NEW f \in S, NEW g \in S, NEW h \in S, NEW i \in S
  PROVE  /\ <<a, b, c, d, e, f, g, h, i>> \in Seq(S)
         /\ Len(<<a, b, c, d, e, f, g, h, i>>) = 9
OBVIOUS

(* The nodes of a layer, part by part.                                     *)
Joined(g, A, B, C, D, X) ==
  /\ Len(X) = Len(B) + Len(C)
  /\ Len(g) = Len(A) + (Len(B) + Len(C)) + Len(D)
  /\ \A i \in 1 .. Len(A) : g[i] = A[i]
  /\ \A i \in 1 .. Len(B) : g[Len(A) + i] = B[i]
  /\ \A i \in 1 .. Len(C) : g[Len(A) + (Len(B) + i)] = C[i]
  /\ \A i \in 1 .. Len(D) : g[Len(A) + (Len(B) + Len(C)) + i] = D[i]

LEMMA Parts ==
  ASSUME NEW S, NEW A \in Seq(S), NEW B \in Seq(S), NEW C \in Seq(S), NEW D \in Seq(S),
         NEW X, X = B \o C
  PROVE  Joined((A \o X) \o D, A, B, C, D, X)
<1> DEFINE Y == A \o X
           g == Y \o D
<1>1. /\ X \in Seq(S) /\ Len(X) = Len(B) + Len(C)
      /\ \A i \in 1 .. Len(B) : X[i] = B[i]
      /\ \A i \in 1 .. Len(C) : X[Len(B) + i] = C[i]
  BY Join
<1>2. /\ Y \in Seq(S) /\ Len(Y) = Len(A) + Len(X)
      /\ \A i \in 1 .. Len(A) : Y[i] = A[i]
      /\ \A i \in 1 .. Len(X) : Y[Len(A) + i] = X[i]
  BY <1>1, Join
<1> HIDE DEF Y
<1>3. /\ Len(g) = Len(Y) + Len(D)
      /\ \A i \in 1 .. Len(Y) : g[i] = Y[i]
      /\ \A i \in 1 .. Len(D) : g[Len(Y) + i] = D[i]
  <2>1. Y \in Seq(S)
    BY <1>2
  <2>. QED  BY <2>1, Join
<1> HIDE DEF g
<1>4. Len(A) \in Nat /\ Len(B) \in Nat /\ Len(C) \in Nat
  OBVIOUS
<1>5. \A i \in 1 .. Len(A) : g[i] = A[i]
  BY <1>1, <1>2, <1>3, <1>4
<1>6. ASSUME NEW i \in 1 .. Len(X) PROVE g[Len(A) + i] = X[i]
  <2>1. Len(A) + i \in 1 .. Len(Y)
    BY <1>1, <1>2, <1>4
  <2>. QED  BY <1>2, <1>3, <2>1, Zenon
<1>7. \A i \in 1 .. Len(B) : g[Len(A) + i] = B[i]
  BY <1>1, <1>4, <1>6
<1>8. ASSUME NEW i \in 1 .. Len(C) PROVE g[Len(A) + (Len(B) + i)] = C[i]
  <2>1. Len(B) + i \in 1 .. Len(X)
    BY <1>1, <1>4
  <2>. QED  BY <1>1, <1>6, <2>1, Zenon
<1>9. Joined(g, A, B, C, D, X)
  BY <1>1, <1>2, <1>3, <1>5, <1>7, <1>8 DEF Joined
<1>. QED  BY <1>9 DEF g, Y

LEMMA Positive ==
  ASSUME NEW a \in Nat \ {0}, NEW b \in Nat \ {0}
  PROVE  2 * a * b \in Nat /\ 2 * a * b > 0
<1>1. 2 * a \in Nat /\ 2 * a > 0
  OBVIOUS
<1>2. ASSUME NEW c \in Nat, c > 0 PROVE c * b \in Nat /\ c * b > 0
  BY <1>2
<1>. QED  BY <1>1, <1>2

LEMMA Larger ==
  ASSUME NEW a \in Nat, NEW b \in Nat, NEW c \in Nat, b <= c
  PROVE  2 * a * b <= 2 * a * c
<1>1. c - b \in Nat /\ 2 * a * c = 2 * a * b + 2 * a * (c - b)
  OBVIOUS
<1>2. 2 * a * (c - b) \in Nat /\ 2 * a * b \in Nat
  BY <1>1
<1>. QED  BY <1>1, <1>2

(* The nodes of a layer, one by one.                                       *)
LayerNodes(g, L, d, N, M, cl, cm) ==
  /\ Len(g) = L + 1 /\ L = (IF cm > 1 THEN 16 ELSE 14)
  /\ g[1] = Op("fixed", N, d.hidden, {}) /\ g[2] = Op("fixed", N, d.hidden, {1})
  /\ g[3] = Op("fixed", N, d.hidden, {2}) /\ g[4] = Op("fixed", N, d.kv, {2})
  /\ g[5] = Op("fixed", N, d.kv, {2}) /\ g[6] = Op("fixed", N, d.hidden, {3, 4, 5})
  /\ g[7] = Op("fixed", N, d.hidden, {6}) /\ g[8] = Op("fixed", N, d.hidden, {1, 7})
  /\ g[9] = Op("fixed", N, d.hidden, {1, 7})
  /\ g[10] = Op("mlp", CeilDiv(N, cm), d.mlp[1], {8})
  /\ g[11] = Op("mlp", CeilDiv(N, cm), d.mlp[2], IF d.moe THEN {10} ELSE {8})
  /\ g[12] = Op("mlp", CeilDiv(N, cm), d.mlp[3], IF d.moe THEN {11} ELSE {10, 11})
  /\ g[13] = Op("mlp", N, d.hidden, {12})
  /\ cm > 1 => g[14] = Barrier({10, 11, 12, 13}) /\ g[15] = Barrier({8})
  /\ g[L] = FinalOutput(d, N)
  /\ g[L + 1] = Op("logits", CeilDiv(M, cl), d.vocab, {L})

(* Layer concatenates its parts to these nodes.                            *)
LEMMA NodesOfLayer ==
  ASSUME NEW d, NEW N, NEW M, NEW cl, NEW cm
  PROVE  \E S, L : /\ Layer(d, N, M, cl, cm) \in Seq(S)
                  /\ LayerNodes(Layer(d, N, M, cl, cm), L, d, N, M, cl, cm)
<1> DEFINE A == Attention(d, N)
           B == Mlp(d, N, CeilDiv(N, cm))
           C == IF cm > 1 THEN Barriers ELSE <<>>
           L == 10 + Len(B \o C)
           D == << FinalOutput(d, N), Op("logits", CeilDiv(M, cl), d.vocab, {L}) >>
           g == Layer(d, N, M, cl, cm)
           S == {A[i] : i \in 1 .. 9} \cup {B[i] : i \in 1 .. 4}
                  \cup {C[i] : i \in 1 .. 2} \cup {D[i] : i \in 1 .. 2}
<1>1. g = A \o (B \o C) \o D
  BY DEF Layer
<1>2. Len(A) = 9 /\ A \in Seq(S)
  <2>1. A = << A[1], A[2], A[3], A[4], A[5], A[6], A[7], A[8], A[9] >>
    BY DEF Attention
  <2>2. /\ A[1] \in S /\ A[2] \in S /\ A[3] \in S /\ A[4] \in S /\ A[5] \in S
        /\ A[6] \in S /\ A[7] \in S /\ A[8] \in S /\ A[9] \in S
    <3> HIDE DEF A, B, C, D
    <3>. QED  OBVIOUS
  <2> HIDE DEF A, S
  <2>3. /\ << A[1], A[2], A[3], A[4], A[5], A[6], A[7], A[8], A[9] >> \in Seq(S)
        /\ Len(<< A[1], A[2], A[3], A[4], A[5], A[6], A[7], A[8], A[9] >>) = 9
    BY <2>2, Nonuple, Zenon
  <2>. QED  BY <2>1, <2>3, ZenonT(30)
<1>3. Len(B) = 4 /\ B \in Seq(S)
  <2>1. B = << B[1], B[2], B[3], B[4] >>
    BY DEF Mlp
  <2>2. B[1] \in S /\ B[2] \in S /\ B[3] \in S /\ B[4] \in S
    <3> HIDE DEF A, B, C, D
    <3>. QED  OBVIOUS
  <2> HIDE DEF B, S
  <2>3. << B[1], B[2], B[3], B[4] >> \in Seq(S) /\ Len(<< B[1], B[2], B[3], B[4] >>) = 4
    BY <2>2, Quadruple, Zenon
  <2>. QED  BY <2>1, <2>3, ZenonT(30)
<1>4. Len(C) = (IF cm > 1 THEN 2 ELSE 0) /\ C \in Seq(S)
  <2>1. C = IF cm > 1 THEN << C[1], C[2] >> ELSE <<>>
    BY DEF Barriers
  <2>2. C[1] \in S /\ C[2] \in S
    <3> HIDE DEF A, B, C, D
    <3>. QED  OBVIOUS
  <2>3. <<>> \in Seq(S) /\ Len(<<>>) = 0
    OBVIOUS
  <2> HIDE DEF C, S
  <2>4. << C[1], C[2] >> \in Seq(S) /\ Len(<< C[1], C[2] >>) = 2
    BY <2>2, Pair, Zenon
  <2>. QED  BY <2>1, <2>3, <2>4, Zenon
<1>5. Len(D) = 2 /\ D \in Seq(S)
  <2>1. D = << D[1], D[2] >>
    OBVIOUS
  <2>2. D[1] \in S /\ D[2] \in S
    <3> HIDE DEF A, B, C, D
    <3>. QED  OBVIOUS
  <2> HIDE DEF D, S
  <2>3. << D[1], D[2] >> \in Seq(S) /\ Len(<< D[1], D[2] >>) = 2
    BY <2>2, Pair, ZenonT(30)
  <2>. QED  BY <2>1, <2>3, Zenon
<1> HIDE DEF S
<1>6. /\ Len(B \o C) = 4 + Len(C) /\ Len(g) = 15 + Len(C)
      /\ \A i \in 1 .. 9 : g[i] = A[i]
      /\ \A i \in 1 .. 4 : g[9 + i] = B[i]
      /\ \A i \in 1 .. Len(C) : g[13 + i] = C[i]
      /\ \A i \in 1 .. 2 : g[13 + Len(C) + i] = D[i]
  <2> HIDE DEF A, B, C, D, g
  <2>1. /\ Len(B \o C) = Len(B) + Len(C)
        /\ Len(g) = Len(A) + (Len(B) + Len(C)) + Len(D)
        /\ \A i \in 1 .. Len(A) : g[i] = A[i]
        /\ \A i \in 1 .. Len(B) : g[Len(A) + i] = B[i]
        /\ \A i \in 1 .. Len(C) : g[Len(A) + (Len(B) + i)] = C[i]
        /\ \A i \in 1 .. Len(D) : g[Len(A) + (Len(B) + Len(C)) + i] = D[i]
    <3>1. A \in Seq(S) /\ B \in Seq(S) /\ C \in Seq(S) /\ D \in Seq(S)
      BY <1>2, <1>3, <1>4, <1>5
    <3>2. PICK X : X = B \o C
      BY Zenon
    <3>3. g = (A \o X) \o D
      BY <1>1, <3>2
    <3>4. Joined((A \o X) \o D, A, B, C, D, X)
      BY <3>1, <3>2, Parts, Zenon
    <3>5. Joined(g, A, B, C, D, X)
      BY <3>3, <3>4
    <3>. QED  BY <3>2, <3>5 DEF Joined
  <2>2. Len(A) = 9 /\ Len(B) = 4 /\ Len(D) = 2 /\ Len(C) \in Nat
    BY <1>2, <1>3, <1>4, <1>5
  <2>3. ASSUME NEW i \in 1 .. Len(C) PROVE g[13 + i] = C[i]
    <3>1. Len(A) + (Len(B) + i) = 13 + i
      BY <2>2
    <3>. QED  BY <2>1, <3>1
  <2>4. Len(A) + (Len(B) + Len(C)) = 13 + Len(C)
    BY <2>2
  <2>. QED  BY <2>1, <2>2, <2>3, <2>4
<1>7. /\ g[1] = Op("fixed", N, d.hidden, {}) /\ g[2] = Op("fixed", N, d.hidden, {1})
      /\ g[3] = Op("fixed", N, d.hidden, {2}) /\ g[4] = Op("fixed", N, d.kv, {2})
      /\ g[5] = Op("fixed", N, d.kv, {2}) /\ g[6] = Op("fixed", N, d.hidden, {3, 4, 5})
      /\ g[7] = Op("fixed", N, d.hidden, {6}) /\ g[8] = Op("fixed", N, d.hidden, {1, 7})
      /\ g[9] = Op("fixed", N, d.hidden, {1, 7})
  <2>1. \A i \in 1 .. 9 : g[i] = Attention(d, N)[i]
    BY <1>6, Zenon
  <2> HIDE DEF g
  <2>. QED  BY <2>1 DEF Attention
<1>8. /\ g[10] = Op("mlp", CeilDiv(N, cm), d.mlp[1], {8})
      /\ g[11] = Op("mlp", CeilDiv(N, cm), d.mlp[2], IF d.moe THEN {10} ELSE {8})
      /\ g[12] = Op("mlp", CeilDiv(N, cm), d.mlp[3], IF d.moe THEN {11} ELSE {10, 11})
      /\ g[13] = Op("mlp", N, d.hidden, {12})
  <2>1. \A i \in 1 .. 4 : g[9 + i] = Mlp(d, N, CeilDiv(N, cm))[i]
    BY <1>6, ZenonT(30)
  <2> HIDE DEF g
  <2>2. /\ g[10] = Mlp(d, N, CeilDiv(N, cm))[1] /\ g[11] = Mlp(d, N, CeilDiv(N, cm))[2]
        /\ g[12] = Mlp(d, N, CeilDiv(N, cm))[3] /\ g[13] = Mlp(d, N, CeilDiv(N, cm))[4]
    BY <2>1
  <2>. QED  BY <2>2 DEF Mlp
<1>9. cm > 1 => g[14] = Barrier({10, 11, 12, 13}) /\ g[15] = Barrier({8})
  <2>. SUFFICES ASSUME cm > 1
                PROVE  g[14] = Barrier({10, 11, 12, 13}) /\ g[15] = Barrier({8})
    OBVIOUS
  <2>1. C = Barriers /\ Len(C) = 2
    BY <1>4
  <2>2. \A i \in 1 .. 2 : g[13 + i] = Barriers[i]
    BY <1>6, <2>1, Zenon
  <2> HIDE DEF g
  <2>3. g[14] = Barriers[1] /\ g[15] = Barriers[2]
    BY <2>2
  <2>. QED  BY <2>3 DEF Barriers
<1>10. Len(g) = L + 1 /\ L = (IF cm > 1 THEN 16 ELSE 14)
  <2> HIDE DEF A, B, C, D, g
  <2>. QED  BY <1>4, <1>6
<1>11. g[L] = FinalOutput(d, N) /\ g[L + 1] = Op("logits", CeilDiv(M, cl), d.vocab, {L})
  <2>1. Len(C) \in Nat /\ Len(B \o C) = 4 + Len(C)
    <3> HIDE DEF g, A, B, C, D
    <3>1. Len(C) \in Nat
      BY <1>4
    <3>. QED  BY <1>6, <3>1, Zenon
  <2>2. 1 \in 1 .. 2 /\ 2 \in 1 .. 2
    OBVIOUS
  <2>3. g[13 + Len(C) + 1] = D[1] /\ g[13 + Len(C) + 2] = D[2]
    BY <1>6, <2>2, Zenon
  <2> HIDE DEF g, C, B
  <2>4. L = 13 + Len(C) + 1 /\ L + 1 = 13 + Len(C) + 2
    BY <2>1
  <2> HIDE DEF L
  <2>5. D[1] = FinalOutput(d, N) /\ D[2] = Op("logits", CeilDiv(M, cl), d.vocab, {L})
    OBVIOUS
  <2>. QED  BY <2>3, <2>4, <2>5, Zenon
<1>12. g \in Seq(S)
  <2> HIDE DEF A, B, C, D, g
  <2>1. (A \o (B \o C)) \o D \in Seq(S)
    BY <1>2, <1>3, <1>4, <1>5
  <2>. QED  BY <1>1, <2>1, Zenon
<1> HIDE DEF g, L, S
<1>13. LayerNodes(g, L, d, N, M, cl, cm)
  BY <1>7, <1>8, <1>9, <1>10, <1>11, Zenon DEF LayerNodes
<1>. QED  BY <1>12, <1>13, Zenon DEF g

(* The shape of a layer, for all of its sizes.                             *)
LEMMA ShapeOfLayer ==
  ASSUME NEW d, d.hidden \in Nat \ {0}, d.kv \in Nat \ {0}, d.moe \in BOOLEAN,
         d.mlp[3] \in Nat, d.hidden <= d.mlp[3],
         NEW N \in Nat \ {0}, NEW M, NEW cl, NEW cm \in Nat \ {0}
  PROVE  \E L \in {14, 16} : LayerShape(Layer(d, N, M, cl, cm), L)
<1> DEFINE g == Layer(d, N, M, cl, cm)
           H == 2 * N * d.hidden
<1>1. PICK L : LayerNodes(g, L, d, N, M, cl, cm)
  BY NodesOfLayer, Zenon
<1> HIDE DEF g
<1>2. H \in Nat /\ H > 0 /\ 2 * N * d.kv > 0
  BY Positive
<1>3. /\ g[1].size = H /\ g[4].size > 0 /\ g[5].size > 0
      /\ \A i \in {2, 3, 6, 7, 8, 9, 13} : g[i].size = H
      /\ g[L].size = H /\ g[L].inputs = {9, 13} /\ g[L].alias = 1
      /\ g[L + 1].inputs = {L} /\ g[L + 1].alias = 0
  BY <1>1, <1>2 DEF LayerNodes, Op, FinalOutput
<1>4. L = 14 => g[12].size >= H
  <2>. SUFFICES ASSUME L = 14 PROVE g[12].size >= H
    OBVIOUS
  <2>1. cm = 1
    BY <1>1 DEF LayerNodes
  <2>2. CeilDiv(N, cm) = N
    BY <2>1 DEF CeilDiv
  <2>3. g[12].size = 2 * N * d.mlp[3]
    BY <1>1, <2>2 DEF LayerNodes, Op
  <2>. QED  BY <1>2, <2>3, Larger
<1>5. /\ g[1].inputs = {} /\ g[2].inputs = {1} /\ g[3].inputs = {2}
      /\ g[4].inputs = {2} /\ g[5].inputs = {2} /\ g[6].inputs = {3, 4, 5}
      /\ g[7].inputs = {6} /\ g[8].inputs = {1, 7} /\ g[9].inputs = {1, 7}
      /\ g[10].inputs = {8} /\ g[11].inputs \subseteq {8, 10}
      /\ g[12].inputs \subseteq {10, 11} /\ g[13].inputs = {12}
      /\ L = 16 => g[14].inputs = {10, 11, 12, 13} /\ g[15].inputs = {8}
  BY <1>1 DEF LayerNodes, Op, Barrier
<1>6. L \in {14, 16} /\ Len(g) = L + 1
  BY <1>1, Zenon DEF LayerNodes
<1>7. ASSUME NEW i \in 1 .. L + 1, i # L PROVE g[i].alias = 0
  <2>1. /\ \A j \in 1 .. 13 : g[j].alias = 0
        /\ L = 16 => g[14].alias = 0 /\ g[15].alias = 0
    BY <1>1 DEF LayerNodes, Op, Barrier
  <2>2. i \in 1 .. 13 \/ (L = 16 /\ i \in {14, 15}) \/ i = L + 1
    BY <1>6, <1>7
  <2>. QED  BY <1>3, <2>1, <2>2, Zenon
<1> HIDE DEF H
<1>8. LayerShape(g, L)
  <2>1. \A i \in {2, 3, 6, 7, 8, 9, 13, L} : g[i].size = g[1].size
    BY <1>3
  <2>2. g[1].size > 0 /\ (L = 14 => g[12].size >= g[1].size)
    BY <1>2, <1>3, <1>4
  <2>. QED  BY <1>3, <1>5, <1>6, <1>7, <2>1, <2>2, Zenon DEF LayerShape
<1>. QED  BY <1>6, <1>8 DEF g

LEMMA BlockGraphShape ==
  ASSUME NEW g, IsBlockGraph(g)
  PROVE  \E L \in {14, 16} : LayerShape(g, L)
<1>1. PICK m \in Models, N \in Nat \ {0}, M \in Nat, cl \in Nat \ {0}, cm \in Nat \ {0} :
        g = BlockGraph(m, N, M, cl, cm)
  BY DEF IsBlockGraph
<1>2. CASE m = "llada"
  <2>1. g = Layer(LLaDA, N, M, cl, cm)
    BY <1>1, <1>2 DEF BlockGraph, define_llada_block_graph
  <2>2. /\ LLaDA.hidden \in Nat \ {0} /\ LLaDA.kv \in Nat \ {0} /\ LLaDA.moe \in BOOLEAN
        /\ LLaDA.mlp[3] \in Nat /\ LLaDA.hidden <= LLaDA.mlp[3]
    BY DEF LLaDA
  <2>. QED  BY <2>1, <2>2, ShapeOfLayer
<1>3. CASE m = "dream"
  <2>1. g = Layer(Dream, N, M, cl, cm)
    BY <1>1, <1>3 DEF BlockGraph, define_dream_block_graph
  <2>2. /\ Dream.hidden \in Nat \ {0} /\ Dream.kv \in Nat \ {0} /\ Dream.moe \in BOOLEAN
        /\ Dream.mlp[3] \in Nat /\ Dream.hidden <= Dream.mlp[3]
    BY DEF Dream
  <2>. QED  BY <2>1, <2>2, ShapeOfLayer
<1>4. CASE m = "llada-moe"
  <2>1. g = Layer(LLaDAMoE, N, M, cl, cm)
    BY <1>1, <1>4 DEF BlockGraph, define_llada_moe_block_graph
  <2>2. /\ LLaDAMoE.hidden \in Nat \ {0} /\ LLaDAMoE.kv \in Nat \ {0} /\ LLaDAMoE.moe \in BOOLEAN
        /\ LLaDAMoE.mlp[3] \in Nat /\ LLaDAMoE.hidden <= LLaDAMoE.mlp[3]
    BY DEF LLaDAMoE
  <2>. QED  BY <2>1, <2>2, ShapeOfLayer
<1>. QED  BY <1>2, <1>3, <1>4 DEF Models

(* Until when the first tensors of a layer and the last one of the MLP are *)
(* read.                                                                   *)
LEMMA LastReads ==
  ASSUME NEW g, NEW L \in {14, 16}, LayerShape(g, L), NEW n \in 1 .. L + 1
  PROVE  /\ 2 \in g[n].inputs => n <= 5
         /\ 3 \in g[n].inputs \/ 4 \in g[n].inputs \/ 5 \in g[n].inputs => n <= 6
         /\ 6 \in g[n].inputs => n <= 7
         /\ 1 \in g[n].inputs \/ 7 \in g[n].inputs => n <= 9
         /\ 13 \in g[n].inputs => n <= L
         /\ L = 14 /\ n >= 13 => g[n].inputs \subseteq {12} \cup {9, 13} \cup {14}
         /\ L = 16 /\ n >= 15 => g[n].inputs \subseteq {8, 9, 13, 16}
         /\ n >= L => g[n].inputs \subseteq {9, 13, L}
<1>1. CASE n = 1
  <2>1. g[1].inputs \subseteq {}
    BY DEF LayerShape
  <2>. QED  BY <1>1, <2>1
<1>2. CASE n = 2
  <2>1. g[2].inputs \subseteq {1}
    BY DEF LayerShape
  <2>. QED  BY <1>2, <2>1
<1>3. CASE n = 3
  <2>1. g[3].inputs \subseteq {2}
    BY DEF LayerShape
  <2>. QED  BY <1>3, <2>1
<1>4. CASE n = 4
  <2>1. g[4].inputs \subseteq {2}
    BY DEF LayerShape
  <2>. QED  BY <1>4, <2>1
<1>5. CASE n = 5
  <2>1. g[5].inputs \subseteq {2}
    BY DEF LayerShape
  <2>. QED  BY <1>5, <2>1
<1>6. CASE n = 6
  <2>1. g[6].inputs \subseteq {3, 4, 5}
    BY DEF LayerShape
  <2>. QED  BY <1>6, <2>1
<1>7. CASE n = 7
  <2>1. g[7].inputs \subseteq {6}
    BY DEF LayerShape
  <2>. QED  BY <1>7, <2>1
<1>8. CASE n = 8
  <2>1. g[8].inputs \subseteq {1, 7}
    BY DEF LayerShape
  <2>. QED  BY <1>8, <2>1
<1>9. CASE n = 9
  <2>1. g[9].inputs \subseteq {1, 7}
    BY DEF LayerShape
  <2>. QED  BY <1>9, <2>1
<1>10. CASE n = 10
  <2>1. g[10].inputs \subseteq {8}
    BY DEF LayerShape
  <2>. QED  BY <1>10, <2>1
<1>11. CASE n = 11
  <2>1. g[11].inputs \subseteq {8, 10}
    BY DEF LayerShape
  <2>. QED  BY <1>11, <2>1
<1>12. CASE n = 12
  <2>1. g[12].inputs \subseteq {10, 11}
    BY DEF LayerShape
  <2>. QED  BY <1>12, <2>1
<1>13. CASE n = 13
  <2>1. g[13].inputs \subseteq {12}
    BY DEF LayerShape
  <2>. QED  BY <1>13, <2>1
<1>14. CASE L = 16 /\ n = 14
  <2>1. g[14].inputs = {10, 11, 12, 13}
    BY <1>14 DEF LayerShape
  <2>. QED  BY <1>14, <2>1
<1>15. CASE L = 16 /\ n = 15
  <2>1. g[15].inputs = {8}
    BY <1>15 DEF LayerShape
  <2>. QED  BY <1>15, <2>1
<1>16. CASE n = L
  <2>1. g[L].inputs = {9, 13}
    BY DEF LayerShape
  <2>. QED  BY <1>16, <2>1
<1>17. CASE n = L + 1
  <2>1. g[L + 1].inputs = {L}
    BY DEF LayerShape
  <2>. QED  BY <1>17, <2>1
<1>18. \/ n = 1 \/ n = 2 \/ n = 3 \/ n = 4 \/ n = 5 \/ n = 6 \/ n = 7 \/ n = 8
       \/ n = 9 \/ n = 10 \/ n = 11 \/ n = 12 \/ n = 13 \/ (L = 16 /\ n = 14)
       \/ (L = 16 /\ n = 15) \/ n = L \/ n = L + 1
  OBVIOUS
<1>. QED  BY <1>1, <1>2, <1>3, <1>4, <1>5, <1>6, <1>7, <1>8, <1>9, <1>10, <1>11,
             <1>12, <1>13, <1>14, <1>15, <1>16, <1>17, <1>18, Zenon

(* A placed tensor of a given size, disjointness and first fit as bounds   *)
(* on an offset.                                                           *)
Placed(i, z) ==
  /\ i \in DOMAIN offset /\ offset[i] \in Nat /\ graph[i].alias = 0
  /\ z \in Nat /\ z > 0 /\ graph[i].size = z

LEMMA Above ==
  ASSUME SafeInv, NEW i \in Nat, NEW j \in Nat, NEW z, NEW w, Placed(i, z), Placed(j, w),
         i < j, NEW n \in 1 .. Len(graph), i \in graph[n].inputs, n >= j,
         NEW o, o = offset[i], o <= offset[j]
  PROVE  o + z <= offset[j]
<1>1. Conflict(i, j)
  BY DEF Conflict, Consumers
<1>2. Disjoint(i, j)
  BY <1>1 DEF SafeInv, SharesOnlyInPlace, Placed
<1>. QED  BY <1>2 DEF Disjoint, End, Placed

LEMMA Below ==
  ASSUME PlanTypeOK, FitInv, NEW j, NEW z, Placed(j, z), NEW o \in Nat,
         \A i \in DOMAIN offset : Conflict(i, j) => End(i) <= o \/ o + z <= offset[i]
  PROVE  offset[j] <= o
<1>1. graph \in Seq(Node) /\ Len(graph) \in Nat
  BY DEF PlanTypeOK, IsGraph
<1>2. ASSUME NEW i \in DOMAIN offset PROVE offset[i] \in Nat /\ graph[i].size \in Nat
  <2>1. i \in 1 .. Len(graph)
    BY <1>1 DEF PlanTypeOK
  <2>. QED  BY <1>1, <2>1, NodeFields DEF PlanTypeOK
<1>3. SUFFICES ASSUME o < offset[j] PROVE FALSE
  BY DEF Placed
<1>4. PICK i \in DOMAIN offset : Conflict(i, j) /\ Hits(o, graph[j].size, i)
  BY <1>3 DEF FitInv, LowestFit, Placed
<1>. QED  BY <1>2, <1>4 DEF Hits, End, Placed

LEMMA LayerPlaced ==
  ASSUME PlanTypeOK, FitInv, NEW L \in {14, 16}, LayerShape(graph, L), k >= L
  PROVE  LET H == graph[1].size
         IN  /\ Placed(1, H) /\ Placed(2, H) /\ Placed(3, H) /\ Placed(6, H)
             /\ Placed(7, H) /\ Placed(8, H) /\ Placed(9, H) /\ Placed(13, H)
             /\ Placed(4, graph[4].size) /\ Placed(5, graph[5].size)
             /\ L = 14 => graph[12].size >= H /\ Placed(12, graph[12].size)
<1> DEFINE H == graph[1].size
<1>0. k \in Nat /\ k >= 14
  <2>1. Len(graph) \in Nat /\ k \in 1 .. Len(graph) + 1
    BY DEF PlanTypeOK, IsGraph
  <2>. QED  BY <2>1
<1>1. graph \in Seq(Node) /\ Len(graph) = L + 1
  BY DEF PlanTypeOK, IsGraph, LayerShape
<1>2. ASSUME NEW i \in 1 .. 13, graph[i].size > 0 PROVE Placed(i, graph[i].size)
  <2>1. i \in 1 .. Len(graph) /\ i # L /\ i \in 1 .. (k - 1)
    BY <1>0, <1>1
  <2>2. graph[i].size \in Nat
    BY <1>1, <2>1, NodeFields
  <2>3. i \in DOMAIN offset /\ offset[i] \in Nat
    BY <1>2, <2>1 DEF FitInv, PlanTypeOK
  <2>4. graph[i].alias = 0
    BY <2>1 DEF LayerShape
  <2>. QED  BY <1>2, <2>2, <2>3, <2>4 DEF Placed
<1>3. H \in Nat /\ H > 0 /\ graph[4].size > 0 /\ graph[5].size > 0
  BY <1>1, NodeFields DEF LayerShape
<1>4. /\ graph[2].size = H /\ graph[3].size = H /\ graph[6].size = H /\ graph[7].size = H
      /\ graph[8].size = H /\ graph[9].size = H /\ graph[13].size = H
  BY DEF LayerShape
<1>5. L = 14 => graph[12].size >= H /\ graph[12].size > 0
  <2>1. graph[12].size \in Nat
    BY <1>1, NodeFields
  <2>. QED  BY <1>3, <2>1 DEF LayerShape
<1> HIDE DEF H
<1>6. /\ Placed(2, H) /\ Placed(3, H) /\ Placed(6, H) /\ Placed(7, H) /\ Placed(8, H)
      /\ Placed(9, H) /\ Placed(13, H) /\ Placed(4, graph[4].size)
      /\ Placed(5, graph[5].size)
  BY <1>2, <1>3, <1>4
<1>7. Placed(1, H)
  BY <1>2, <1>3 DEF H
<1>. QED  BY <1>2, <1>5, <1>6, <1>7 DEF H

(* Where the first-fit search puts the tensors of a layer: x at 0, x_normed*)
(* behind it, and so on; x_normed_2 again right behind x and att_out behind*)
(* that; residual not on top of x; the output of the MLP exactly on top of *)
(* x, or behind it.                                                        *)
LEMMA LayerPlaces ==
  ASSUME PlanTypeOK, SafeInv, FitInv, NEW L \in {14, 16}, LayerShape(graph, L), k >= L
  PROVE  LET H == graph[1].size
         IN  /\ Placed(1, H) /\ Placed(9, H) /\ Placed(13, H) /\ offset[1] = 0
             /\ offset[9] >= H /\ (offset[13] = 0 \/ offset[13] >= H)
             /\ Placed(7, H) /\ offset[7] = 2 * H /\ Placed(8, H) /\ offset[8] = H
             /\ Placed(4, graph[4].size) /\ 3 * H <= offset[4]
             /\ Placed(5, graph[5].size) /\ 3 * H <= offset[5]
<1> DEFINE H == graph[1].size
<1>1. /\ Placed(1, H) /\ Placed(2, H) /\ Placed(3, H) /\ Placed(6, H)
      /\ Placed(7, H) /\ Placed(8, H) /\ Placed(9, H) /\ Placed(13, H)
      /\ Placed(4, graph[4].size) /\ Placed(5, graph[5].size)
      /\ L = 14 => graph[12].size >= H /\ Placed(12, graph[12].size)
  BY LayerPlaced
<1>2. /\ 1 \in graph[9].inputs /\ 2 \in graph[5].inputs /\ 3 \in graph[6].inputs
      /\ 6 \in graph[7].inputs /\ 12 \in graph[13].inputs /\ 1 \in graph[2].inputs
      /\ L = 16 => 8 \in graph[15].inputs
  BY DEF LayerShape
<1>3. Len(graph) = L + 1
  BY DEF LayerShape
<1> HIDE DEF H
<1>4. /\ H \in Nat /\ H > 0 /\ offset[1] \in Nat /\ offset[2] \in Nat
      /\ offset[3] \in Nat /\ offset[4] \in Nat /\ offset[5] \in Nat
      /\ offset[6] \in Nat /\ offset[7] \in Nat /\ offset[8] \in Nat
      /\ offset[9] \in Nat /\ offset[13] \in Nat
      /\ graph[4].size \in Nat /\ graph[5].size \in Nat
  BY <1>1 DEF Placed
<1>5. /\ End(1) = offset[1] + H /\ End(2) = offset[2] + H /\ End(3) = offset[3] + H
      /\ End(6) = offset[6] + H /\ End(7) = offset[7] + H
  BY <1>1 DEF Placed, End
(* What is still read when tensor j is written.                            *)
<1>6. ASSUME NEW j \in 1 .. 13, NEW i \in DOMAIN offset, Conflict(i, j)
      PROVE  /\ i \in 1 .. (j - 1)
             /\ j >= 6 => i # 2
             /\ j >= 7 => i \notin {3, 4, 5}
             /\ j >= 8 => i # 6
             /\ L = 14 /\ j = 13 => i \in {9, 12}
  <2>1. i \in Nat /\ i >= 1 /\ i < j
    BY <1>6 DEF PlanTypeOK, Conflict
  <2>2. PICK n \in 1 .. L + 1 : i \in graph[n].inputs /\ n >= j
    BY <1>3, <1>6 DEF Conflict, Consumers
  <2>3. /\ 2 \in graph[n].inputs => n <= 5
        /\ 3 \in graph[n].inputs \/ 4 \in graph[n].inputs \/ 5 \in graph[n].inputs => n <= 6
        /\ 6 \in graph[n].inputs => n <= 7
        /\ L = 14 /\ n >= 13 => graph[n].inputs \subseteq {12} \cup {9, 13} \cup {14}
    BY LastReads, ZenonT(30)
  <2>4. i = 2 => j <= 5
    BY <2>2, <2>3
  <2>5. i \in {3, 4, 5} => j <= 6
    BY <2>2, <2>3
  <2>6. i = 6 => j <= 7
    BY <2>2, <2>3
  <2>7. L = 14 /\ j = 13 => i \in {9, 12}
    BY <2>1, <2>2, <2>3
  <2>. QED  BY <2>1, <2>4, <2>5, <2>6, <2>7
<1>7. offset[1] = 0
  <2>1. \A i \in DOMAIN offset : ~Conflict(i, 1)
    BY <1>6
  <2>2. offset[1] <= 0
    BY <1>1, <2>1, Below
  <2>. QED  BY <1>4, <2>2
(* Nothing that is written before x dies is placed on top of x.            *)
<1>8. ASSUME NEW j \in 2 .. 9, NEW z, Placed(j, z) PROVE H <= offset[j]
  <2>1. 9 \in 1 .. Len(graph) /\ 9 >= j /\ 1 < j /\ 1 \in Nat /\ j \in Nat
    BY <1>3
  <2>2. 0 <= offset[j]
    BY <1>8 DEF Placed
  <2>3. 0 + H <= offset[j]
    BY <1>1, <1>2, <1>7, <1>8, <2>1, <2>2, Above, Zenon
  <2>. QED  BY <1>4, <2>3
<1>9. offset[2] = H
  <2>1. H <= offset[2]
    BY <1>1, <1>8
  <2>2. ASSUME NEW i \in DOMAIN offset, Conflict(i, 2)
        PROVE  End(i) <= H \/ H + H <= offset[i]
    <3>1. i = 1
      BY <1>6, <2>2
    <3>. QED  BY <1>4, <1>5, <1>7, <3>1
  <2>3. offset[2] <= H
    BY <1>1, <1>4, <2>2, Below
  <2>. QED  BY <1>4, <2>1, <2>3
<1>10. ASSUME NEW j \in 3 .. 5, NEW z, Placed(j, z) PROVE 2 * H <= offset[j]
  <2>1. 5 \in 1 .. Len(graph) /\ 5 >= j /\ 2 < j /\ 2 \in Nat /\ j \in Nat /\ j \in 2 .. 9
    BY <1>3
  <2>2. H <= offset[j]
    BY <1>8, <1>10, <2>1
  <2>3. H + H <= offset[j]
    BY <1>1, <1>2, <1>9, <1>10, <2>1, <2>2, Above, Zenon
  <2>. QED  BY <1>4, <2>3
<1>11. offset[3] = 2 * H
  <2>1. 2 * H <= offset[3]
    BY <1>1, <1>10
  <2>2. ASSUME NEW i \in DOMAIN offset, Conflict(i, 3)
        PROVE  End(i) <= 2 * H \/ 2 * H + H <= offset[i]
    <3>1. i = 1 \/ i = 2
      BY <1>6, <2>2
    <3>. QED  BY <1>4, <1>5, <1>7, <1>9, <3>1
  <2>3. 2 * H \in Nat
    BY <1>4
  <2>4. offset[3] <= 2 * H
    BY <1>1, <2>2, <2>3, Below
  <2>. QED  BY <1>4, <2>1, <2>4
<1>12. ASSUME NEW j \in {4, 5}, NEW z, Placed(j, z) PROVE 3 * H <= offset[j]
  <2>1. 6 \in 1 .. Len(graph) /\ 6 >= j /\ 3 < j /\ 3 \in Nat /\ j \in Nat /\ j \in 3 .. 5
    BY <1>3
  <2>2. 2 * H <= offset[j]
    BY <1>10, <1>12, <2>1
  <2>3. 2 * H + H <= offset[j]
    BY <1>1, <1>2, <1>11, <1>12, <2>1, <2>2, Above, Zenon
  <2>. QED  BY <1>4, <2>3
<1>13. offset[6] = H
  <2>1. H <= offset[6] /\ 3 * H <= offset[4] /\ 3 * H <= offset[5]
    BY <1>1, <1>8, <1>12
  <2>2. ASSUME NEW i \in DOMAIN offset, Conflict(i, 6)
        PROVE  End(i) <= H \/ H + H <= offset[i]
    <3>1. i = 1 \/ i = 3 \/ i = 4 \/ i = 5
      BY <1>6, <2>2
    <3>. QED  BY <1>4, <1>5, <1>7, <1>11, <2>1, <3>1
  <2>3. offset[6] <= H
    BY <1>1, <1>4, <2>2, Below
  <2>. QED  BY <1>4, <2>1, <2>3
<1>14. offset[7] = 2 * H
  <2>1. H <= offset[7]
    BY <1>1, <1>8
  <2>2. 7 \in 1 .. Len(graph) /\ 7 >= 7 /\ 6 < 7 /\ 6 \in Nat /\ 7 \in Nat
    BY <1>3
  <2>3. H + H <= offset[7]
    BY <1>1, <1>2, <1>13, <2>1, <2>2, Above, Zenon
  <2>4. ASSUME NEW i \in DOMAIN offset, Conflict(i, 7)
        PROVE  End(i) <= 2 * H \/ 2 * H + H <= offset[i]
    <3>1. i = 1 \/ i = 6
      BY <1>6, <2>4
    <3>. QED  BY <1>4, <1>5, <1>7, <1>13, <3>1
  <2>5. 2 * H \in Nat
    BY <1>4
  <2>6. offset[7] <= 2 * H
    BY <1>1, <2>4, <2>5, Below
  <2>. QED  BY <1>4, <2>3, <2>6
<1>15. offset[8] = H
  <2>1. H <= offset[8]
    BY <1>1, <1>8
  <2>2. ASSUME NEW i \in DOMAIN offset, Conflict(i, 8)
        PROVE  End(i) <= H \/ H + H <= offset[i]
    <3>1. i = 1 \/ i = 7
      BY <1>6, <2>2
    <3>. QED  BY <1>4, <1>5, <1>7, <1>14, <3>1
  <2>3. offset[8] <= H
    BY <1>1, <1>4, <2>2, Below
  <2>. QED  BY <1>4, <2>1, <2>3
<1>16. offset[9] >= H
  BY <1>1, <1>4, <1>8
<1>17. offset[13] = 0 \/ offset[13] >= H
  <2>1. CASE L = 16
    <3>1. 15 \in 1 .. Len(graph) /\ 8 \in graph[15].inputs
      BY <1>2, <1>3, <2>1
    <3>2. Conflict(8, 13)
      BY <3>1 DEF Conflict, Consumers
    <3>3. End(8) <= offset[13] \/ End(13) <= offset[8]
      BY <1>1, <3>2 DEF SafeInv, SharesOnlyInPlace, Disjoint, Placed
    <3>4. End(8) = offset[8] + H /\ End(13) = offset[13] + H
      BY <1>1 DEF Placed, End
    <3>. QED  BY <1>4, <1>15, <3>3, <3>4
  <2>2. CASE L = 14
    <3>1. /\ Placed(12, graph[12].size) /\ graph[12].size >= H
          /\ offset[12] \in Nat /\ graph[12].size \in Nat
      BY <1>1, <2>2 DEF Placed
    <3>2. 13 \in 1 .. Len(graph) /\ 12 \in graph[13].inputs
      BY <1>2, <1>3, <2>2
    <3>3. Conflict(12, 13)
      BY <3>2 DEF Conflict, Consumers
    <3>4. End(12) <= offset[13] \/ End(13) <= offset[12]
      BY <1>1, <3>1, <3>3, Zenon DEF SafeInv, SharesOnlyInPlace, Disjoint, Placed
    <3>5. End(12) = offset[12] + graph[12].size /\ End(13) = offset[13] + H
      BY <1>1 DEF Placed, End
    <3>6. CASE offset[13] < H
      <4>1. H <= offset[12]
        BY <1>4, <3>1, <3>4, <3>5, <3>6
      <4>2. ASSUME NEW i \in DOMAIN offset, Conflict(i, 13)
            PROVE  End(i) <= 0 \/ 0 + H <= offset[i]
        <5>1. i = 9 \/ i = 12
          BY <1>6, <2>2, <4>2
        <5>. QED  BY <1>4, <1>16, <4>1, <5>1
      <4>3. offset[13] <= 0
        BY <1>1, <4>2, Below
      <4>. QED  BY <1>4, <4>3
    <3>. QED  BY <1>4, <3>6
  <2>. QED  BY <2>1, <2>2
<1>18. 3 * H <= offset[4] /\ 3 * H <= offset[5]
  BY <1>1, <1>12
<1>. QED  BY <1>1, <1>7, <1>14, <1>15, <1>16, <1>17, <1>18, Zenon DEF H

(* So the place of the layer's output is free, or held by the output of    *)
(* the MLP, which it is computed from and which nothing reads afterwards.  *)
LEMMA LayerAliasFits ==
  ASSUME PlanTypeOK, SafeInv, FitInv, NEW L \in {14, 16}, LayerShape(graph, L), PlaceAlias
  PROVE  AliasFits
<1> DEFINE H == graph[1].size
<1>1. Len(graph) = L + 1 /\ k \in 1 .. Len(graph) /\ graph[k].alias # 0
  BY DEF PlanTypeOK, PlaceAlias, Placing, LayerShape
<1>2. k = L
  BY <1>1 DEF LayerShape
<1>3. /\ graph[k].alias = 1 /\ graph[k].size = H /\ 13 \in graph[k].inputs
  BY <1>2 DEF LayerShape
<1>4. /\ Placed(1, H) /\ Placed(9, H) /\ Placed(13, H) /\ offset[1] = 0
      /\ offset[9] >= H /\ (offset[13] = 0 \/ offset[13] >= H)
  BY <1>2, LayerPlaces
<1> HIDE DEF H
<1>5. ASSUME NEW i \in LiveBlocks
      PROVE  0 + H <= offset[i] \/ InPlaceOf(i, 0)
  <2>1. PICK n \in 1 .. L + 1 : i \in graph[n].inputs /\ n >= L
    BY <1>1, <1>2 DEF LiveBlocks, Usable, Consumers
  <2>2. i \in {9, 13, L}
    BY <2>1, LastReads, Zenon
  <2>3. i # L
    BY <1>2 DEF LiveBlocks, PlanTypeOK
  <2>4. CASE i = 9
    BY <1>4, <2>4 DEF Placed
  <2>5. CASE i = 13 /\ offset[13] >= H
    BY <1>4, <2>5 DEF Placed
  <2>6. CASE i = 13 /\ offset[13] = 0
    <3>1. \A m \in Consumers(13) : m <= k
      BY <1>1, <1>2, LastReads DEF Consumers
    <3>. QED  BY <1>3, <1>4, <2>6, <3>1 DEF InPlaceOf, Placed
  <2>. QED  BY <1>4, <2>2, <2>3, <2>4, <2>5, <2>6
<1>. QED  BY <1>3, <1>4, <1>5 DEF AliasFits

(* For the block graphs of all three models, for every number of tokens    *)
(* and of chunks, the reuse plan lets live tensors share memory in one way *)
(* only: the layer's output, aliased to x, may be written over the output  *)
(* of the MLP it is computed from element by element                       *)
(* (_generate_optimized_reuse_plan, add_alias).                            *)
THEOREM PlanInPlace ==
  ASSUME \A g \in Graphs : IsBlockGraph(g)
  PROVE  Spec => []SharesOnlyInPlace
<1>1. Init => graph \in Graphs
  BY DEF Init, PlanInit
<1>2. graph \in Graphs /\ [Next]_planVars => (graph \in Graphs)'
  BY SameGraph
<1>3. /\ PlanTypeOK /\ graph \in Graphs /\ FitInv /\ SafeInv /\ [Next]_planVars
      => SafeInv'
  <2>. SUFFICES ASSUME PlanTypeOK, graph \in Graphs, FitInv, SafeInv, [Next]_planVars
                PROVE  SafeInv'
    OBVIOUS
  <2>1. PICK L \in {14, 16} : LayerShape(graph, L)
    BY BlockGraphShape
  <2>2. PlaceAlias => AliasFits
    BY <2>1, LayerAliasFits
  <2>. QED  BY <2>2, SafeStep
<1>4. SafeInv => SharesOnlyInPlace
  BY DEF SafeInv
<1>. QED  BY <1>1, <1>2, <1>3, <1>4, SafeInit, FitInit, FitStep, PlanTypeCorrect, PTL DEF Spec
-----------------------------------------------------------------------------
(* The buffer holds every moment of the timeline.  MemoryAt adds up sizes  *)
(* by a fold; here the sum is shown to count bytes, and the bytes needed   *)
(* at one moment are mapped one to one into the buffer.                    *)
Needed(n) == LiveAfter(n) \cup {n}

(* The function the sum is folded with.                                    *)
FoldStep(f, S) ==
  [s \in SUBSET S |->
     IF s = {} THEN 0
     ELSE graph[CHOOSE x \in s : TRUE].size + f[s \ {CHOOSE x \in s : TRUE}]]

(* The sum of _analyze_liveness's timeline, unfolded once.                 *)
LEMMA MemoryIsFold ==
  ASSUME NEW n
  PROVE  MemoryAt(n) = (CHOOSE f : f = FoldStep(f, Needed(n)))[Needed(n)]
BY Zenon DEF MemoryAt, MapThenSumSet, MapThenFoldSet, Needed, FoldStep

(* The bytes of the tensors of s, each tensor's its own.                   *)
Bytes(s) ==
  {p \in (1 .. Len(graph)) \X Nat : p[1] \in s /\ p[2] < graph[p[1]].size}

(* A tensor has as many bytes as its size says.                            *)
LEMMA BytesOfOne ==
  ASSUME IsGraph(graph), NEW i \in 1 .. Len(graph)
  PROVE  IsFiniteSet(Bytes({i})) /\ Cardinality(Bytes({i})) = graph[i].size
<1> DEFINE z == graph[i].size
           f == [b \in 1 .. z |-> <<i, b - 1>>]
<1>1. z \in Nat
  BY NodeFields DEF IsGraph
<1>2. f \in [1 .. z -> Bytes({i})]
  BY <1>1 DEF Bytes
<1>3. f \in Injection(1 .. z, Bytes({i}))
  <2>1. ASSUME NEW a \in 1 .. z, NEW b \in 1 .. z, f[a] = f[b] PROVE a = b
    <3>1. <<i, a - 1>> = <<i, b - 1>>
      BY <2>1
    <3>2. a - 1 = b - 1 /\ a \in Nat /\ b \in Nat
      BY <1>1, <3>1
    <3>3. QED
      BY <3>2
  <2>2. QED
    BY <1>2, <2>1, Zenon DEF Injection, IsInjective
<1>4. f \in Surjection(1 .. z, Bytes({i}))
  <2>1. ASSUME NEW p \in Bytes({i}) PROVE \E b \in 1 .. z : f[b] = p
    <3>1. p = <<i, p[2]>> /\ p[2] \in Nat /\ p[2] < z
      BY DEF Bytes
    <3>2. p[2] + 1 \in 1 .. z /\ (p[2] + 1) - 1 = p[2]
      BY <1>1, <3>1
    <3>3. f[p[2] + 1] = p
      BY <3>1, <3>2
    <3>4. QED
      BY <3>2, <3>3
  <2>2. QED
    BY <1>2, <2>1, Zenon DEF Surjection
<1> HIDE DEF f, z
<1>5. ExistsBijection(1 .. z, Bytes({i}))
  BY <1>3, <1>4, Zenon DEF ExistsBijection, Bijection
<1>6. Cardinality(Bytes({i})) = z
  BY <1>1, <1>5, FS_CountingElements
<1>7. IsFiniteSet(Bytes({i}))
  BY <1>1, <1>5, FS_NatBijection
<1>8. QED
  BY <1>6, <1>7 DEF z

(* Taking one tensor away takes its size away.                             *)
LEMMA BytesTaken ==
  ASSUME IsGraph(graph), NEW s \in SUBSET (1 .. Len(graph)), NEW x \in s,
         IsFiniteSet(Bytes(s))
  PROVE  Cardinality(Bytes(s)) = graph[x].size + Cardinality(Bytes(s \ {x}))
<1>1. Bytes(s) = Bytes({x}) \cup Bytes(s \ {x})
  BY DEF Bytes
<1>2. Bytes({x}) \cap Bytes(s \ {x}) = {}
  BY DEF Bytes
<1>3. IsFiniteSet(Bytes({x})) /\ Cardinality(Bytes({x})) = graph[x].size
  BY BytesOfOne
<1>4. IsFiniteSet(Bytes(s \ {x})) /\ Cardinality(Bytes(s \ {x})) \in Nat
  BY <1>1, FS_Subset, FS_CardinalityType, Zenon
<1>5. graph[x].size \in Nat
  BY NodeFields DEF IsGraph
<1>6. Cardinality(Bytes(s)) = Cardinality(Bytes({x})) + Cardinality(Bytes(s \ {x})) - 0
  <2>1. Cardinality(Bytes({x}) \cup Bytes(s \ {x}))
          = Cardinality(Bytes({x})) + Cardinality(Bytes(s \ {x}))
              - Cardinality(Bytes({x}) \cap Bytes(s \ {x}))
    BY <1>3, <1>4, FS_Union, Zenon
  <2>2. QED
    BY <1>1, <1>2, <2>1, FS_EmptySet, Zenon
<1>7. QED
  BY <1>3, <1>4, <1>5, <1>6

(* The fold over a set of tensors counts their bytes: a smallest set for   *)
(* which it did not would have a smaller one.                              *)
LEMMA SumIsCount ==
  ASSUME IsGraph(graph), NEW S \in SUBSET (1 .. Len(graph)), IsFiniteSet(Bytes(S))
  PROVE  (CHOOSE f : f = FoldStep(f, S))[S] = Cardinality(Bytes(S))
<1> DEFINE count == [s \in SUBSET S |-> Cardinality(Bytes(s))]
           sum == CHOOSE f : f = FoldStep(f, S)
           Pick(s) == CHOOSE x \in s : TRUE
<1>1. ASSUME NEW s \in SUBSET S, s # {}
      PROVE  Cardinality(Bytes(s)) = graph[Pick(s)].size + Cardinality(Bytes(s \ {Pick(s)}))
  <2>1. Pick(s) \in s
    BY <1>1
  <2>2. Bytes(s) \subseteq Bytes(S) /\ s \in SUBSET (1 .. Len(graph))
    BY DEF Bytes
  <2>3. IsFiniteSet(Bytes(s))
    BY <2>2, FS_Subset
  <2>4. QED
    BY <2>1, <2>2, <2>3, BytesTaken, Zenon
<1>2. Cardinality(Bytes({})) = 0
  <2>1. Bytes({}) = {}
    BY DEF Bytes
  <2>2. QED
    BY <2>1, FS_EmptySet, Zenon
<1>3. count = FoldStep(count, S)
  <2>1. ASSUME NEW s \in SUBSET S PROVE count[s] = FoldStep(count, S)[s]
    <3>1. CASE s = {}
      BY <1>2, <3>1 DEF FoldStep
    <3>2. CASE s # {}
      <4>1. s \ {Pick(s)} \in SUBSET S
        OBVIOUS
      <4>2. count[s \ {Pick(s)}] = Cardinality(Bytes(s \ {Pick(s)}))
        BY <4>1
      <4>3. FoldStep(count, S)[s] = graph[Pick(s)].size + count[s \ {Pick(s)}]
        BY <3>2, Zenon DEF FoldStep
      <4>4. count[s] = Cardinality(Bytes(s))
        OBVIOUS
      <4>5. QED
        BY <1>1, <3>2, <4>2, <4>3, <4>4, Zenon
    <3>3. QED
      BY <3>1, <3>2
  <2>2. QED
    BY <2>1, Zenon DEF FoldStep
<1>4. sum = FoldStep(sum, S)
  BY <1>3, Zenon
<1> HIDE DEF sum, count
<1>5. \A s \in SUBSET S : s # {} => sum[s] = graph[Pick(s)].size + sum[s \ {Pick(s)}]
  BY <1>4, Zenon DEF FoldStep
<1>6. sum[{}] = 0
  BY <1>4, Zenon DEF FoldStep
<1> DEFINE Wrong == {s \in SUBSET S : sum[s] # Cardinality(Bytes(s))}
<1>7. Wrong = {}
  <2> SUFFICES ASSUME Wrong # {} PROVE FALSE
    OBVIOUS
  <2>1. IsFiniteSet(S)
    <3>1. 1 \in Int /\ Len(graph) \in Int
      BY DEF IsGraph
    <3>2. IsFiniteSet(1 .. Len(graph))
      BY <3>1, FS_Interval, Zenon
    <3>3. QED
      BY <3>2, FS_Subset, Zenon
  <2>2. IsWellFoundedOn(StrictSubsetOrdering(S), SUBSET S)
    BY <2>1, FS_StrictSubsetOrderingWellFounded, FS_FiniteSubsetsOfFinite, Zenon
  <2>3. PICK s \in Wrong : \A t \in Wrong : <<t, s>> \notin StrictSubsetOrdering(S)
    BY <2>2, WFMin, Zenon
  <2>4. s # {}
    BY <1>2, <1>6, Zenon
  <2>5. Pick(s) \in s
    BY <2>4
  <2>6. <<s \ {Pick(s)}, s>> \in StrictSubsetOrdering(S)
    <3> DEFINE t == s \ {Pick(s)}
    <3>1. t \in SUBSET S /\ s \in SUBSET S /\ t \subseteq s /\ t # s
      BY <2>5, Zenon
    <3> HIDE DEF t
    <3>2. <<t, s>> \in StrictSubsetOrdering(S)
      BY <3>1, Zenon DEF StrictSubsetOrdering
    <3>3. QED
      BY <3>2, Zenon DEF t
  <2>7. sum[s \ {Pick(s)}] = Cardinality(Bytes(s \ {Pick(s)}))
    BY <2>3, <2>6, Zenon
  <2>8. s \in SUBSET S /\ sum[s] # Cardinality(Bytes(s))
    BY Zenon
  <2>9. sum[s] = graph[Pick(s)].size + sum[s \ {Pick(s)}]
    BY <1>5, <2>4, <2>8, Zenon
  <2>10. Cardinality(Bytes(s)) = graph[Pick(s)].size + Cardinality(Bytes(s \ {Pick(s)}))
    BY <1>1, <2>4, <2>8, Zenon
  <2>11. QED
    BY <2>7, <2>8, <2>9, <2>10, Zenon
<1>8. QED
  BY <1>7 DEF sum
(* No tensor ends beyond the buffer.                                       *)
InBuffer == \A i \in DOMAIN offset : End(i) <= max_offset

(* max_offset covers a tensor as soon as it is placed.                     *)
LEMMA PlaceInBuffer ==
  ASSUME PlanTypeOK, InBuffer, Placing, NEW o \in Nat, Place(o)
  PROVE  InBuffer'
<1>1. graph \in Seq(Node) /\ k \in 1 .. Len(graph) /\ Len(graph) \in Nat
  BY DEF PlanTypeOK, Placing, IsGraph
<1>2. graph[k].size \in Nat /\ max_offset \in Nat
  BY <1>1, NodeFields DEF PlanTypeOK
<1>3. /\ DOMAIN offset' = DOMAIN offset \cup {k} /\ offset'[k] = o /\ graph' = graph
      /\ \A i \in DOMAIN offset : i # k => offset'[i] = offset[i]
  BY DEF Place
<1>4. o + graph[k].size <= max_offset' /\ max_offset <= max_offset' /\ max_offset' \in Nat
  BY <1>2 DEF Place
<1>5. ASSUME NEW i \in DOMAIN offset, i # k PROVE End(i)' <= max_offset'
  <2>1. i \in 1 .. Len(graph) /\ offset[i] \in Nat
    BY <1>1 DEF PlanTypeOK
  <2>2. graph[i].size \in Nat
    BY <1>1, <2>1, NodeFields
  <2>3. offset[i] + graph[i].size <= max_offset /\ End(i)' = offset[i] + graph[i].size
    BY <1>3, <1>5 DEF InBuffer, End
  <2>4. QED
    BY <1>2, <1>4, <2>1, <2>2, <2>3
<1>6. ASSUME NEW i, i = k PROVE End(i)' <= max_offset'
  BY <1>3, <1>4, <1>6 DEF End
<1>7. QED
  BY <1>3, <1>5, <1>6, Zenon DEF InBuffer

(* Every step keeps all tensors within max_offset.                         *)
LEMMA InBufferStep == PlanTypeOK /\ InBuffer /\ [Next]_planVars => InBuffer'
<1> SUFFICES ASSUME PlanTypeOK, InBuffer, [Next]_planVars PROVE InBuffer'
  OBVIOUS
<1>1. ASSUME UNCHANGED <<graph, offset, max_offset>> PROVE InBuffer'
  BY <1>1 DEF InBuffer, End
<1>2. ASSUME NEW o \in Nat, Placing, Place(o) PROVE InBuffer'
  BY <1>2, PlaceInBuffer
<1>3. last_end \in Nat /\ \A i \in DOMAIN offset : offset[i] \in Nat
  BY DEF PlanTypeOK
<1>4. CASE SkipEmpty \/ AliasFails \/ PassBlock
  BY <1>1, <1>4 DEF SkipEmpty, AliasFails, PassBlock
<1>5. CASE PlaceAlias
  BY <1>2, <1>3, <1>5 DEF PlaceAlias
<1>6. CASE PlaceInGap \/ PlaceAtEnd
  BY <1>2, <1>3, <1>6 DEF PlaceInGap, PlaceAtEnd, Searching
<1>7. CASE UNCHANGED planVars
  BY <1>1, <1>7 DEF planVars
<1>8. QED
  BY <1>4, <1>5, <1>6, <1>7 DEF Next, PlanStep

(* What node n needs was written by then, and is read later or is its own. *)
LEMMA NeededBefore ==
  ASSUME IsGraph(graph), NEW n \in 1 .. Len(graph), NEW i \in Needed(n)
  PROVE  /\ i \in 1 .. n
         /\ i # n => \E m \in Consumers(i) : m > n
<1>1. CASE i = n
  BY <1>1
<1>2. CASE i # n
  <2>1. PICK j \in (n + 1) .. Len(graph) :
          i \in graph[j].inputs /\ i \notin (n + 1) .. (j - 1)
    BY <1>2 DEF Needed, LiveAfter
  <2>2. i \in 1 .. Len(graph) /\ j \in 1 .. Len(graph) /\ j > n
    BY <1>2 DEF Needed, LiveAfter
  <2>3. i < j
    BY <2>1, <2>2 DEF IsGraph
  <2>4. j \in Consumers(i)
    BY <2>1, <2>2 DEF Consumers
  <2>5. i \in 1 .. n
    BY <2>1, <2>2, <2>3
  <2>6. QED
    BY <2>2, <2>4, <2>5
<1>3. QED
  BY <1>1, <1>2

(* Tensors needed at one moment do not overlap: an update in place is the  *)
(* last read of the tensor it replaces.                                    *)
LEMMA NeededApart ==
  ASSUME PlanTypeOK, SharesOnlyInPlace, NEW n \in 1 .. Len(graph),
         NEW i \in Needed(n), NEW j \in Needed(n), i < j,
         i \in DOMAIN offset, j \in DOMAIN offset
  PROVE  Disjoint(i, j)
<1>1. IsGraph(graph) /\ Len(graph) \in Nat
  <2>1. IsGraph(graph)
    BY DEF PlanTypeOK
  <2>2. QED
    BY <2>1 DEF IsGraph
<1>2. i \in 1 .. n /\ j \in 1 .. n
  BY <1>1, NeededBefore
<1>3. PICK m \in Consumers(i) : m > n
  BY <1>1, <1>2, NeededBefore
<1>4. m \in Nat /\ m > j
  BY <1>1, <1>2, <1>3 DEF Consumers
<1>5. Conflict(i, j)
  BY <1>2, <1>3, <1>4 DEF Conflict
<1>6. ~(m <= j)
  BY <1>2, <1>4
<1>7. QED
  BY <1>3, <1>5, <1>6 DEF SharesOnlyInPlace

(* A byte of a block lies in the buffer when the block does.               *)
LEMMA ByteInside ==
  ASSUME NEW o \in Nat, NEW z \in Nat, NEW b \in Nat, b < z, NEW top \in Nat, o + z <= top
  PROVE  o + b + 1 \in 1 .. top
OBVIOUS

(* Two blocks that share a byte are not apart.                             *)
LEMMA SharedByte ==
  ASSUME NEW o \in Nat, NEW z \in Nat, NEW b \in Nat, b < z,
         NEW q \in Nat, NEW y \in Nat, NEW c \in Nat, c < y, o + b = q + c
  PROVE  ~(o + z <= q) /\ ~(q + y <= o)
OBVIOUS

(* So the bytes needed at node n are so many bytes of the buffer.          *)
LEMMA NeededFits ==
  ASSUME PlanTypeOK, FitInv, SharesOnlyInPlace, InBuffer, Planned, ~failed,
         NEW n \in 1 .. Len(graph)
  PROVE  /\ MemoryAt(n) = Cardinality(Bytes(Needed(n))) /\ IsFiniteSet(Bytes(Needed(n)))
         /\ MemoryAt(n) <= max_offset
<1> DEFINE S == Needed(n)
           place == [p \in Bytes(S) |-> offset[p[1]] + p[2] + 1]
<1>1. /\ IsGraph(graph) /\ Len(graph) \in Nat /\ graph \in Seq(Node)
      /\ max_offset \in Nat /\ k = Len(graph) + 1
  BY DEF PlanTypeOK, IsGraph, Planned
<1>2. S \in SUBSET (1 .. Len(graph))
  BY <1>1, NeededBefore
<1>3. ASSUME NEW p \in Bytes(S)
      PROVE  /\ p[1] \in S /\ p[1] \in 1 .. Len(graph) /\ p[1] \in DOMAIN offset
             /\ offset[p[1]] \in Nat /\ graph[p[1]].size \in Nat
             /\ p[2] \in Nat /\ p[2] < graph[p[1]].size
             /\ p = <<p[1], p[2]>>
             /\ offset[p[1]] + graph[p[1]].size <= max_offset
  <2>1. /\ p[1] \in S /\ p[1] \in 1 .. Len(graph) /\ p[2] \in Nat
        /\ p[2] < graph[p[1]].size /\ p = <<p[1], p[2]>>
    BY DEF Bytes
  <2>2. graph[p[1]].size \in Nat
    BY <1>1, <2>1, NodeFields
  <2>3. p[1] \in DOMAIN offset
    BY <1>1, <2>1, <2>2 DEF FitInv
  <2>4. offset[p[1]] \in Nat /\ offset[p[1]] + graph[p[1]].size <= max_offset
    BY <2>3 DEF PlanTypeOK, InBuffer, End
  <2>5. QED
    BY <2>1, <2>2, <2>3, <2>4
<1> HIDE DEF S
<1>4. ASSUME NEW p \in Bytes(S) PROVE place[p] \in 1 .. max_offset
  <2>1. offset[p[1]] + p[2] + 1 \in 1 .. max_offset
    BY <1>1, <1>3, ByteInside, Zenon
  <2>2. QED
    BY <2>1, Zenon
<1>5. ASSUME NEW p \in Bytes(S), NEW q \in Bytes(S), place[p] = place[q] PROVE p = q
  <2>1. offset[p[1]] + p[2] = offset[q[1]] + q[2]
    BY <1>3, <1>5
  <2>2. ~Disjoint(p[1], q[1]) /\ ~Disjoint(q[1], p[1])
    <3>1. /\ ~(offset[p[1]] + graph[p[1]].size <= offset[q[1]])
          /\ ~(offset[q[1]] + graph[q[1]].size <= offset[p[1]])
      BY <1>3, <2>1, SharedByte, Zenon
    <3>2. QED
      BY <3>1, Zenon DEF Disjoint, End
  <2>3. ~(p[1] < q[1])
    <3>1. p[1] < q[1] => Disjoint(p[1], q[1])
      BY <1>3, NeededApart DEF S
    <3>2. QED
      BY <2>2, <3>1, Zenon
  <2>4. ~(q[1] < p[1])
    <3>1. q[1] < p[1] => Disjoint(q[1], p[1])
      BY <1>3, NeededApart DEF S
    <3>2. QED
      BY <2>2, <3>1, Zenon
  <2>5. p[1] = q[1]
    BY <1>1, <1>3, <2>3, <2>4
  <2>6. p[2] = q[2]
    BY <1>3, <2>1, <2>5
  <2>7. QED
    BY <1>3, <2>5, <2>6
<1>6. place \in Injection(Bytes(S), 1 .. max_offset)
  <2>1. place \in [Bytes(S) -> 1 .. max_offset]
    BY <1>4
  <2>2. \A p, q \in DOMAIN place : place[p] = place[q] => p = q
    BY <1>5, Zenon
  <2>3. QED
    BY <2>1, <2>2, Zenon DEF Injection, IsInjective
<1>7. IsFiniteSet(1 .. max_offset) /\ Cardinality(1 .. max_offset) = max_offset
  <2>1. 1 \in Int /\ max_offset \in Int
    BY <1>1
  <2>2. /\ IsFiniteSet(1 .. max_offset)
        /\ Cardinality(1 .. max_offset) = IF 1 > max_offset THEN 0 ELSE max_offset - 1 + 1
    BY <2>1, FS_Interval, Zenon
  <2>3. QED
    BY <1>1, <2>2
<1> HIDE DEF place
<1>8. IsFiniteSet(Bytes(S)) /\ Cardinality(Bytes(S)) <= max_offset
  BY <1>6, <1>7, FS_Injection
<1>9. (CHOOSE f : f = FoldStep(f, S))[S] = Cardinality(Bytes(S))
  BY <1>1, <1>2, <1>8, SumIsCount
<1>10. QED
  BY <1>8, <1>9, MemoryIsFold DEF S

(* For the block graphs of all three models and for every graph without    *)
(* aliases, the buffer _generate_optimized_reuse_plan asks for is at least *)
(* the peak of the memory timeline.                                        *)
THEOREM PlanPeak ==
  ASSUME \A g \in Graphs :
           IsBlockGraph(g) \/ (\A i \in 1 .. Len(g) : g[i].alias = 0)
  PROVE  Spec => []PeakFits
<1>1. Init => graph \in Graphs
  BY DEF Init, PlanInit
<1>2. graph \in Graphs /\ [Next]_planVars => (graph \in Graphs)'
  BY SameGraph
<1>3. /\ PlanTypeOK /\ graph \in Graphs /\ FitInv /\ SafeInv /\ [Next]_planVars
      => SafeInv'
  <2>. SUFFICES ASSUME PlanTypeOK, graph \in Graphs, FitInv, SafeInv, [Next]_planVars
                PROVE  SafeInv'
    OBVIOUS
  <2>1. CASE IsBlockGraph(graph)
    <3>1. PICK L \in {14, 16} : LayerShape(graph, L)
      BY <2>1, BlockGraphShape
    <3>2. PlaceAlias => AliasFits
      BY <3>1, LayerAliasFits
    <3>. QED  BY <3>2, SafeStep
  <2>2. CASE \A i \in 1 .. Len(graph) : graph[i].alias = 0
    <3>1. ~PlaceAlias
      BY <2>2 DEF PlaceAlias, Placing, PlanTypeOK, IsGraph
    <3>. QED  BY <3>1, SafeStep
  <2>. QED  BY <2>1, <2>2
<1>4. Init => InBuffer
  BY DEF Init, PlanInit, InBuffer
<1>5. PlanTypeOK /\ FitInv /\ SafeInv /\ InBuffer => PeakFits
  BY NeededFits DEF SafeInv, PeakFits
<1>. QED  BY <1>1, <1>2, <1>3, <1>4, <1>5, SafeInit, FitInit, FitStep, InBufferStep,
             PlanTypeCorrect, PTL DEF Spec
=============================================================================
