------------------------ MODULE OnlineSearcherProofs ------------------------
(***************************************************************************)
(* The search for a chunk configuration gives up only where no chunking    *)
(* helps, and every plan it makes is safe.  Most of this is the layout of  *)
(* a layer when neither the MLP nor the logits are the bottleneck.         *)
(***************************************************************************)
EXTENDS OnlineSearcher, MemoryPlanProofs

(* A positive number of rows is cut into chunks of a positive number.      *)
LEMMA CeilDivPositive ==
  ASSUME NEW a \in Nat, NEW b \in Nat \ {0}
  PROVE  CeilDiv(a, b) \in Nat /\ (a > 0 => CeilDiv(a, b) > 0)
<1>1. /\ (a + b - 1) \div b \in Int
      /\ b * ((a + b - 1) \div b) <= a + b - 1
      /\ a + b - 1 < b * ((a + b - 1) \div b) + b
  OBVIOUS
<1> DEFINE q == (a + b - 1) \div b
<1> HIDE DEF q
<1>2. ASSUME NEW c \in Int, c < 0, a + b - 1 < b * c + b PROVE FALSE
  BY <1>2
<1>3. ASSUME a + b - 1 < b * 0 + b, a > 0 PROVE FALSE
  BY <1>3
<1>4. q \in Int /\ a + b - 1 < b * q + b
  BY <1>1 DEF q
<1>5. q >= 0 /\ (a > 0 => q > 0)
  BY <1>2, <1>3, <1>4
<1>. QED  BY <1>4, <1>5 DEF CeilDiv, q

(* Bounds on widths are bounds on sizes.                                   *)
LEMMA Thrice ==
  ASSUME NEW a \in Nat \ {0}, NEW b \in Nat, NEW c \in Nat, 3 * b < c
  PROVE  3 * (2 * a * b) < 2 * a * c
<1>1. 2 * a * (3 * b + 1) <= 2 * a * c
  BY Larger
<1>2. 2 * a * (3 * b + 1) = 3 * (2 * a * b) + 2 * a
  OBVIOUS
<1>3. 2 * a * b \in Nat /\ 2 * a * c \in Nat /\ 2 * a > 0
  OBVIOUS
<1>. QED  BY <1>1, <1>2, <1>3

(* What the search compares: the parts of the nodes and their sizes.  V is *)
(* the size of the keys, no larger than the hidden state.  Unchunked, the  *)
(* MLP is more than three times as large as the hidden state.              *)
LayerSizes(g, L, V) ==
  /\ V \in Nat \ {0} /\ V <= g[1].size /\ g[4].size = V /\ g[5].size = V
  /\ \A i \in 1 .. 9 : g[i].part = "fixed"
  /\ g[L].part = "fixed" /\ g[L + 1].part = "logits"
  /\ \A i \in 10 .. (L - 1) : g[i].part = "mlp"
  /\ L = 14 => \/ g[10].size > 3 * g[1].size
               \/ /\ g[12].inputs = {10, 11}
                  /\ g[10].size + g[11].size > 3 * g[1].size
  /\ L = 16 => /\ g[10].size > 0 /\ g[11].size > 0 /\ g[12].size > 0
               /\ g[14].size = 1 /\ g[15].size = 1

(* The dimensions of a model, as far as they matter.                       *)
Dimensions(d) ==
  /\ d.hidden \in Nat \ {0} /\ d.kv \in Nat \ {0} /\ d.moe \in BOOLEAN
  /\ d.mlp[1] \in Nat \ {0} /\ d.mlp[2] \in Nat \ {0} /\ d.mlp[3] \in Nat \ {0}
  /\ d.vocab \in Nat /\ d.kv <= d.hidden /\ d.hidden <= d.mlp[3]
  /\ 3 * d.hidden < (IF d.moe THEN d.mlp[1] ELSE d.mlp[1] + d.mlp[2])

(* The sizes of a layer's tensors, from the model's dimensions.            *)
LEMMA SizesOfLayer ==
  ASSUME NEW d, Dimensions(d), NEW g, NEW L,
         NEW N \in Nat \ {0}, NEW M, NEW cl, NEW cm \in Nat \ {0},
         LayerNodes(g, L, d, N, M, cl, cm)
  PROVE  LayerSizes(g, L, 2 * N * d.kv) /\ g[1].size = 2 * N * d.hidden
<1> DEFINE H == 2 * N * d.hidden
           V == 2 * N * d.kv
           r == CeilDiv(N, cm)
<1>1. L = (IF cm > 1 THEN 16 ELSE 14)
  BY ZenonT(30) DEF LayerNodes
<1>2. /\ g[1].size = H /\ g[4].size = V /\ g[5].size = V
      /\ g[10].size = 2 * r * d.mlp[1] /\ g[11].size = 2 * r * d.mlp[2]
      /\ g[12].size = 2 * r * d.mlp[3]
  BY DEF LayerNodes, Op
<1>3. /\ \A i \in 1 .. 9 : g[i].part = "fixed"
      /\ g[10].part = "mlp" /\ g[11].part = "mlp" /\ g[12].part = "mlp"
      /\ g[13].part = "mlp" /\ g[L + 1].part = "logits"
  BY DEF LayerNodes, Op
<1>4. g[L].part = "fixed"
  BY DEF LayerNodes, FinalOutput, Op
<1>5. L = 16 => /\ g[14].part = "mlp" /\ g[15].part = "mlp"
                /\ g[14].size = 1 /\ g[15].size = 1
  BY <1>1 DEF LayerNodes, Barrier
<1>6. H \in Nat /\ V \in Nat /\ V > 0 /\ V <= H
  BY Positive, Larger, Zenon DEF Dimensions
<1>7. r \in Nat \ {0}
  BY CeilDivPositive
<1> HIDE DEF r
<1>8. g[10].size > 0 /\ g[11].size > 0 /\ g[12].size > 0
  BY <1>2, <1>7, Positive DEF Dimensions
<1>9. ASSUME L = 14
      PROVE  \/ g[10].size > 3 * H
             \/ g[12].inputs = {10, 11} /\ g[10].size + g[11].size > 3 * H
  <2>1. cm = 1
    BY <1>1, <1>9
  <2>2. r = N
    BY <2>1 DEF r, CeilDiv
  <2>3. CASE d.moe
    <3>1. 3 * H < 2 * N * d.mlp[1]
      BY <2>3, Thrice DEF Dimensions
    <3>. QED  BY <1>2, <1>6, <1>8, <2>2, <3>1 DEF Dimensions
  <2>4. CASE ~d.moe
    <3>1. 3 * H < 2 * N * (d.mlp[1] + d.mlp[2])
      BY <2>4, Thrice DEF Dimensions
    <3>2. 2 * N * (d.mlp[1] + d.mlp[2]) = g[10].size + g[11].size
      BY <1>2, <2>2 DEF Dimensions
    <3>3. g[12].inputs = {10, 11}
      BY <2>4 DEF LayerNodes, Op
    <3>4. g[10].size \in Nat /\ g[11].size \in Nat
      BY <1>2, <1>7, Positive DEF Dimensions
    <3>. QED  BY <1>6, <3>1, <3>2, <3>3, <3>4
  <2>. QED  BY <2>3, <2>4 DEF Dimensions
<1> HIDE DEF H, V
<1>10. \A i \in 10 .. (L - 1) : g[i].part = "mlp"
  <2>1. ASSUME NEW i \in 10 .. (L - 1)
        PROVE  i \in {10, 11, 12, 13} \/ (L = 16 /\ i \in {14, 15})
    BY <1>1
  <2>. QED  BY <1>3, <1>5, <2>1
<1>11. LayerSizes(g, L, V)
  <2>1. V \in Nat \ {0} /\ V <= g[1].size
    BY <1>2, <1>6
  <2>2. L = 14 => \/ g[10].size > 3 * g[1].size
                  \/ /\ g[12].inputs = {10, 11}
                     /\ g[10].size + g[11].size > 3 * g[1].size
    BY <1>2, <1>9, Zenon
  <2>. QED  BY <1>2, <1>3, <1>4, <1>5, <1>8, <1>10, <2>1, <2>2, ZenonT(30) DEF LayerSizes
<1>. QED  BY <1>2, <1>11 DEF H, V

(* The size of a two-byte matrix is a number.                              *)
LEMMA SizeNat ==
  ASSUME NEW a \in Nat, NEW b \in Nat
  PROVE  2 * a * b \in Nat
OBVIOUS

(* add_op makes a node of the graph.                                       *)
LEMMA OpNode ==
  ASSUME NEW p \in Part, NEW r \in Nat, NEW c \in Nat, NEW I \in SUBSET (Nat \ {0})
  PROVE  Op(p, r, c, I) \in Node
<1>1. 2 * r * c \in Nat
  BY SizeNat
<1>. QED  BY <1>1 DEF Op, Node

(* Every block graph is a graph the planner accepts (add_op, add_alias).   *)
LEMMA LayerIsGraph ==
  ASSUME NEW d, Dimensions(d), NEW N \in Nat \ {0}, NEW M \in Nat,
         NEW cl \in Nat \ {0}, NEW cm \in Nat \ {0}, NEW g, NEW L, NEW S,
         g \in Seq(S), LayerNodes(g, L, d, N, M, cl, cm), LayerShape(g, L)
  PROVE  IsGraph(g)
<1>1. L \in {14, 16} /\ Len(g) = L + 1 /\ (L = 16 => cm > 1)
  BY DEF LayerNodes
<1>2. CeilDiv(N, cm) \in Nat /\ CeilDiv(M, cl) \in Nat /\ N \in Nat
  BY CeilDivPositive
<1>3. /\ "fixed" \in Part /\ "mlp" \in Part /\ "logits" \in Part
  BY DEF Part
<1>4. /\ d.hidden \in Nat /\ d.kv \in Nat /\ d.mlp[1] \in Nat /\ d.mlp[2] \in Nat
      /\ d.mlp[3] \in Nat /\ d.vocab \in Nat
  BY Zenon DEF Dimensions
<1>5. ASSUME NEW I \in SUBSET (1 .. 16)
      PROVE  /\ Op("fixed", N, d.hidden, I) \in Node /\ Op("fixed", N, d.kv, I) \in Node
             /\ Op("mlp", CeilDiv(N, cm), d.mlp[1], I) \in Node
             /\ Op("mlp", CeilDiv(N, cm), d.mlp[2], I) \in Node
             /\ Op("mlp", CeilDiv(N, cm), d.mlp[3], I) \in Node
             /\ Op("mlp", N, d.hidden, I) \in Node
             /\ Op("logits", CeilDiv(M, cl), d.vocab, I) \in Node
             /\ Barrier(I) \in Node
  <2>1. I \in SUBSET (Nat \ {0})
    OBVIOUS
  <2>2. Barrier(I) \in Node
    BY <1>3, <2>1 DEF Barrier, Node
  <2>. QED  BY <1>2, <1>3, <1>4, <2>1, <2>2, OpNode, Zenon
<1>6. FinalOutput(d, N) \in Node
  <2>1. Op("fixed", N, d.hidden, {9, 13}) \in Node
    BY <1>5
  <2>. QED  BY <2>1 DEF FinalOutput, Node
<1>7. /\ g[1] \in Node /\ g[2] \in Node /\ g[3] \in Node /\ g[4] \in Node /\ g[5] \in Node
      /\ g[6] \in Node /\ g[7] \in Node /\ g[8] \in Node /\ g[9] \in Node
  <2>1. /\ {} \in SUBSET (1 .. 16) /\ {1} \in SUBSET (1 .. 16) /\ {2} \in SUBSET (1 .. 16)
        /\ {3, 4, 5} \in SUBSET (1 .. 16) /\ {6} \in SUBSET (1 .. 16)
        /\ {1, 7} \in SUBSET (1 .. 16)
    OBVIOUS
  <2>. QED  BY <1>5, <2>1, ZenonT(30) DEF LayerNodes
<1>8. /\ g[10] \in Node /\ g[11] \in Node /\ g[12] \in Node /\ g[13] \in Node
      /\ L = 16 => g[14] \in Node /\ g[15] \in Node
  <2>1. /\ {8} \in SUBSET (1 .. 16) /\ {12} \in SUBSET (1 .. 16)
        /\ {10, 11, 12, 13} \in SUBSET (1 .. 16)
        /\ (IF d.moe THEN {10} ELSE {8}) \in SUBSET (1 .. 16)
        /\ (IF d.moe THEN {11} ELSE {10, 11}) \in SUBSET (1 .. 16)
    OBVIOUS
  <2>. QED  BY <1>1, <1>5, <2>1, ZenonT(30) DEF LayerNodes
<1>9. g[L] \in Node /\ g[L + 1] \in Node
  <2>1. {L} \in SUBSET (1 .. 16)
    BY <1>1
  <2>. QED  BY <1>5, <1>6, <2>1, Zenon DEF LayerNodes
<1>10. ASSUME NEW i \in 1 .. Len(g) PROVE g[i] \in Node /\ \A j \in g[i].inputs : j < i
  <2>1. \/ i \in {1, 2, 3, 4, 5, 6, 7, 8, 9} \/ i \in {10, 11, 12, 13}
        \/ (L = 16 /\ i \in {14, 15}) \/ i = L \/ i = L + 1
    BY <1>1
  <2>2. g[i] \in Node
    BY <1>7, <1>8, <1>9, <2>1, Zenon
  <2>3. \A j \in g[i].inputs : j < i
    <3>1. CASE i \in {1, 2, 3, 4, 5, 6, 7, 8, 9}
      <4>1. /\ g[1].inputs = {} /\ g[2].inputs = {1} /\ g[3].inputs = {2}
            /\ g[4].inputs = {2} /\ g[5].inputs = {2} /\ g[6].inputs = {3, 4, 5}
            /\ g[7].inputs = {6} /\ g[8].inputs = {1, 7} /\ g[9].inputs = {1, 7}
        BY Zenon DEF LayerShape
      <4>. QED  BY <3>1, <4>1
    <3>2. CASE i \in {10, 11, 12, 13}
      <4>1. /\ g[10].inputs = {8} /\ g[11].inputs \subseteq {8, 10}
            /\ g[12].inputs \subseteq {10, 11} /\ g[13].inputs = {12}
        BY Zenon DEF LayerShape
      <4>. QED  BY <3>2, <4>1
    <3>3. CASE L = 16 /\ i \in {14, 15}
      <4>1. g[14].inputs = {10, 11, 12, 13} /\ g[15].inputs = {8}
        BY <3>3, Zenon DEF LayerShape
      <4>. QED  BY <3>3, <4>1
    <3>4. CASE i = L \/ i = L + 1
      <4>1. g[L].inputs = {9, 13} /\ g[L + 1].inputs = {L}
        BY Zenon DEF LayerShape
      <4>. QED  BY <1>1, <3>4, <4>1
    <3>. QED  BY <2>1, <3>1, <3>2, <3>3, <3>4, ZenonT(30)
  <2>. QED  BY <2>2, <2>3
<1>11. ASSUME NEW i \in 1 .. Len(g), g[i].alias # 0
       PROVE  g[i].alias \in 1 .. Len(g) /\ g[i].size <= g[g[i].alias].size
  <2>1. i = L /\ g[L].alias = 1 /\ g[L].size = g[1].size
    BY <1>1, <1>11, Zenon DEF LayerShape
  <2>2. g[1].size \in Nat
    BY <1>7, Zenon DEF Node
  <2>. QED  BY <1>1, <2>1, <2>2
<1>12. g \in Seq(Node)
  <2>1. g \in [1 .. Len(g) -> S] /\ Len(g) \in Nat
    OBVIOUS
  <2>2. g \in [1 .. Len(g) -> Node]
    BY <1>10, <2>1
  <2>. QED  BY <2>1, <2>2
<1>. QED  BY <1>10, <1>11, <1>12 DEF IsGraph

(* The graph of a search for model m.  Only Dream's keys are narrow.       *)
SearchGraph(g, m) ==
  \E L \in {14, 16}, V \in Nat :
    /\ LayerShape(g, L) /\ LayerSizes(g, L, V)
    /\ m # "dream" => V = g[1].size

(* A layer of a model is a graph the search may plan.                      *)
LEMMA LayerSearched ==
  ASSUME NEW d, Dimensions(d), NEW N \in Nat \ {0}, NEW M \in Nat,
         NEW cl \in Nat \ {0}, NEW cm \in Nat \ {0}, NEW g, g = Layer(d, N, M, cl, cm),
         NEW m, m # "dream" => d.kv = d.hidden
  PROVE  IsGraph(g) /\ SearchGraph(g, m)
<1>1. PICK S, L : g \in Seq(S) /\ LayerNodes(g, L, d, N, M, cl, cm)
  BY NodesOfLayer, Zenon
<1>2. PICK K \in {14, 16} : LayerShape(g, K)
  <2>1. /\ d.hidden \in Nat \ {0} /\ d.kv \in Nat \ {0} /\ d.moe \in BOOLEAN
        /\ d.mlp[3] \in Nat /\ d.hidden <= d.mlp[3]
    BY DEF Dimensions
  <2>. QED  BY <2>1, ShapeOfLayer
<1>3. K = L
  <2>1. Len(g) = L + 1 /\ L \in {14, 16}
    BY <1>1, Zenon DEF LayerNodes
  <2>2. Len(g) = K + 1
    BY <1>2, Zenon DEF LayerShape
  <2>. QED  BY <2>1, <2>2
<1>4. IsGraph(g)
  BY <1>1, <1>2, <1>3, LayerIsGraph
<1> DEFINE V == 2 * N * d.kv
<1>5. LayerSizes(g, L, V) /\ g[1].size = 2 * N * d.hidden
  BY <1>1, SizesOfLayer, Zenon
<1>6. V \in Nat
  BY SizeNat DEF Dimensions
<1>7. m # "dream" => V = g[1].size
  BY <1>5
<1> HIDE DEF V
<1>. QED  BY <1>2, <1>3, <1>4, <1>5, <1>6, <1>7, Zenon DEF SearchGraph

(* So is the graph of every call and every number of chunks.               *)
LEMMA GraphOfSearch ==
  ASSUME NEW s \in Search, NEW c, c.logits \in Nat \ {0}, c.mlp \in Nat \ {0}
  PROVE  IsGraph(GraphOf(s, c)) /\ SearchGraph(GraphOf(s, c), s.model)
<1>1. s.P \in Nat \ {0} /\ s.O \in Nat /\ s.model \in Models
  BY DEF Search
<1>2. ASSUME NEW d, Dimensions(d), GraphOf(s, c) = Layer(d, s.P, s.O, c.logits, c.mlp),
             s.model # "dream" => d.kv = d.hidden
      PROVE  IsGraph(GraphOf(s, c)) /\ SearchGraph(GraphOf(s, c), s.model)
  BY <1>1, <1>2, LayerSearched, Zenon
<1>3. CASE s.model = "llada"
  <2>1. Dimensions(LLaDA) /\ LLaDA.kv = LLaDA.hidden
    BY DEF Dimensions, LLaDA
  <2>2. GraphOf(s, c) = Layer(LLaDA, s.P, s.O, c.logits, c.mlp)
    BY <1>3 DEF GraphOf, BlockGraph, define_llada_block_graph
  <2>. QED  BY <1>2, <2>1, <2>2, Zenon
<1>4. CASE s.model = "dream"
  <2>1. Dimensions(Dream)
    BY DEF Dimensions, Dream
  <2>2. GraphOf(s, c) = Layer(Dream, s.P, s.O, c.logits, c.mlp)
    BY <1>4 DEF GraphOf, BlockGraph, define_dream_block_graph
  <2>. QED  BY <1>2, <1>4, <2>1, <2>2, Zenon
<1>5. CASE s.model = "llada-moe"
  <2>1. Dimensions(LLaDAMoE) /\ LLaDAMoE.kv = LLaDAMoE.hidden
    BY DEF Dimensions, LLaDAMoE
  <2>2. GraphOf(s, c) = Layer(LLaDAMoE, s.P, s.O, c.logits, c.mlp)
    BY <1>5 DEF GraphOf, BlockGraph, define_llada_moe_block_graph
  <2>. QED  BY <1>2, <2>1, <2>2, Zenon
<1>. QED  BY <1>1, <1>3, <1>4, <1>5 DEF Models
-----------------------------------------------------------------------------
(* max_offset is the end of a tensor, an alias lies where its target lies. *)
TightInv ==
  /\ max_offset = 0 \/ \E i \in DOMAIN offset : End(i) = max_offset
  /\ \A i \in DOMAIN offset : graph[i].alias # 0 =>
       graph[i].alias \in DOMAIN offset /\ offset[i] = offset[graph[i].alias]

(* Placing a tensor raises max_offset to the tensor's end or not at all.   *)
LEMMA PlaceTight ==
  ASSUME PlanTypeOK, TightInv, Placing, NEW o, Place(o),
         graph[k].alias # 0 => graph[k].alias \in DOMAIN offset /\ o = offset[graph[k].alias]
  PROVE  TightInv'
<1>1. k \in Nat /\ k \notin DOMAIN offset
  BY DEF PlanTypeOK, IsGraph
<1>2. /\ DOMAIN offset' = DOMAIN offset \cup {k} /\ offset'[k] = o /\ graph' = graph
      /\ \A i \in DOMAIN offset : i # k /\ offset'[i] = offset[i]
      /\ max_offset' = o + graph[k].size \/ max_offset' = max_offset
  BY <1>1 DEF Place
<1>3. max_offset' = 0 \/ \E i \in DOMAIN offset' : End(i)' = max_offset'
  <2>1. offset'[k] + graph'[k].size = o + graph[k].size
    BY <1>2, Zenon
  <2>2. ASSUME NEW i \in DOMAIN offset
        PROVE  offset'[i] + graph'[i].size = offset[i] + graph[i].size
    BY <1>2, Zenon
  <2>3. CASE max_offset' = o + graph[k].size
    BY <1>2, <2>1, <2>3, Zenon DEF End
  <2>4. CASE max_offset' = max_offset
    <3>1. max_offset = 0 \/ \E i \in DOMAIN offset : offset[i] + graph[i].size = max_offset
      BY Zenon DEF TightInv, End
    <3>2. DOMAIN offset \subseteq DOMAIN offset'
      BY <1>2, Zenon
    <3>. QED  BY <2>2, <2>4, <3>1, <3>2, Zenon DEF End
  <2>. QED  BY <1>2, <2>3, <2>4, Zenon
<1>4. ASSUME NEW i \in DOMAIN offset', graph'[i].alias # 0
      PROVE  graph'[i].alias \in DOMAIN offset' /\ offset'[i] = offset'[graph'[i].alias]
  <2>1. CASE i = k
    BY <1>2, <1>4, <2>1, Zenon
  <2>2. CASE i # k
    <3>1. i \in DOMAIN offset
      BY <1>2, <2>2
    <3>2. graph[i].alias \in DOMAIN offset /\ offset[i] = offset[graph[i].alias]
      BY <1>2, <1>4, <3>1, Zenon DEF TightInv
    <3>. QED  BY <1>2, <3>1, <3>2, Zenon
  <2>. QED  BY <2>1, <2>2
<1>. QED  BY <1>3, <1>4, Zenon DEF TightInv

(* Every step of the planner keeps TightInv.                               *)
LEMMA TightStep == PlanTypeOK /\ TightInv /\ PlanStep => TightInv'
<1> SUFFICES ASSUME PlanTypeOK, TightInv, PlanStep PROVE TightInv'
  OBVIOUS
<1>1. CASE SkipEmpty \/ AliasFails \/ PassBlock
  <2>1. UNCHANGED <<graph, offset, max_offset>>
    BY <1>1 DEF SkipEmpty, AliasFails, PassBlock
  <2>. QED  BY <2>1 DEF TightInv, End
<1>2. CASE PlaceAlias
  BY <1>2, PlaceTight DEF PlaceAlias
<1>3. CASE PlaceInGap \/ PlaceAtEnd
  BY <1>3, PlaceTight DEF PlaceInGap, PlaceAtEnd, Searching
<1>. QED  BY <1>1, <1>2, <1>3 DEF PlanStep

(* A bounded set of numbers has a largest element.                         *)
LEMMA Largest ==
  ASSUME NEW b \in Nat, NEW S \in SUBSET (0 .. b), S # {}
  PROVE  Max(S) \in S /\ \A y \in S : Max(S) >= y
<1> DEFINE Rest(x) == (x + 1) .. b
           T == {Rest(x) : x \in S}
<1>1. IsFiniteSet(1 .. b)
  <2>1. 1 \in Int /\ b \in Int
    OBVIOUS
  <2>. QED  BY <2>1, FS_Interval, Zenon
<1>2. IsWellFoundedOn(StrictSubsetOrdering(1 .. b), SUBSET (1 .. b))
  BY <1>1, FS_StrictSubsetOrderingWellFounded, FS_FiniteSubsetsOfFinite, Zenon
<1>3. T \subseteq SUBSET (1 .. b) /\ T # {}
  <2>1. ASSUME NEW x \in S PROVE Rest(x) \in SUBSET (1 .. b)
    <3>1. x \in Nat
      OBVIOUS
    <3>. QED  BY <3>1
  <2> HIDE DEF Rest
  <2>. QED  BY <2>1, Zenon
<1>4. PICK t \in T : \A u \in T : <<u, t>> \notin StrictSubsetOrdering(1 .. b)
  BY <1>2, <1>3, WFMin, Zenon
<1>5. PICK x \in S : t = Rest(x)
  BY <1>4
<1>6. ASSUME NEW y \in S, ~(x >= y) PROVE FALSE
  <2>1. /\ Rest(y) \in SUBSET (1 .. b) /\ t \in SUBSET (1 .. b)
        /\ Rest(y) \subseteq t /\ y \in t /\ y \notin Rest(y)
    BY <1>5, <1>6
  <2>2. Rest(y) \in T
    BY <1>6
  <2> DEFINE u == Rest(y)
  <2> HIDE DEF u
  <2>3. u \in SUBSET (1 .. b) /\ u \subseteq t /\ t # u /\ u \in T
    BY <2>1, <2>2, Zenon DEF u
  <2>4. <<u, t>> \in StrictSubsetOrdering(1 .. b)
    BY <2>1, <2>3, Zenon DEF StrictSubsetOrdering
  <2>. QED  BY <1>4, <2>3, <2>4, Zenon
<1>7. \E m \in S : \A y \in S : m >= y
  BY <1>6
<1>. QED  BY <1>7, Zenon DEF Max

(* One tensor more takes its size more.                                    *)
LEMMA BytesAdded ==
  ASSUME IsGraph(graph), NEW s \in SUBSET (1 .. Len(graph)), IsFiniteSet(Bytes(s)),
         NEW x \in 1 .. Len(graph), x \notin s
  PROVE  /\ IsFiniteSet(Bytes(s \cup {x}))
         /\ Cardinality(Bytes(s \cup {x})) = Cardinality(Bytes(s)) + graph[x].size
<1>1. Bytes(s \cup {x}) = Bytes(s) \cup Bytes({x})
  BY DEF Bytes
<1>2. IsFiniteSet(Bytes(s \cup {x}))
  <2>1. IsFiniteSet(Bytes({x}))
    BY BytesOfOne
  <2>2. IsFiniteSet(Bytes(s) \cup Bytes({x}))
    BY <2>1, FS_Union, Zenon
  <2>. QED  BY <1>1, <2>2, Zenon
<1>3. (s \cup {x}) \ {x} = s /\ x \in s \cup {x} /\ s \cup {x} \in SUBSET (1 .. Len(graph))
  OBVIOUS
<1>4. Cardinality(Bytes(s \cup {x})) = graph[x].size + Cardinality(Bytes(s))
  BY <1>2, <1>3, BytesTaken, Zenon
<1>5. graph[x].size \in Nat /\ Cardinality(Bytes(s)) \in Nat
  BY NodeFields, FS_CardinalityType DEF IsGraph
<1>. QED  BY <1>2, <1>4, <1>5

(* So a few tensors take the sum of their sizes.                           *)
Takes(s, z) ==
  s \in SUBSET (1 .. Len(graph)) /\ IsFiniteSet(Bytes(s)) /\ Cardinality(Bytes(s)) = z

(* One tensor takes its size.                                              *)
LEMMA TakesOne ==
  ASSUME IsGraph(graph), NEW x \in 1 .. Len(graph), NEW z, graph[x].size = z
  PROVE  Takes({x}, z)
BY BytesOfOne DEF Takes

(* A further tensor takes its size besides.                                *)
LEMMA TakesMore ==
  ASSUME IsGraph(graph), NEW s, NEW z, Takes(s, z), NEW x \in 1 .. Len(graph), x \notin s,
         NEW y, graph[x].size = y
  PROVE  Takes(s \cup {x}, z + y)
BY BytesAdded DEF Takes

(* What is needed at node n, from below and from above.                    *)
LEMMA TakesLess ==
  ASSUME NEW s, NEW t, NEW y, NEW z, Takes(s, y), Takes(t, z), s \subseteq t
  PROVE  y \in Nat /\ z \in Nat /\ y <= z
<1>1. Bytes(s) \subseteq Bytes(t)
  BY DEF Bytes
<1>. QED  BY <1>1, FS_Subset, FS_CardinalityType DEF Takes

(* What the nodes of the fixed part need.                                  *)
LEMMA FixedNeeds ==
  ASSUME IsGraph(graph), NEW L \in {14, 16}, LayerShape(graph, L), NEW n \in 1 .. 9 \cup {L}
  PROVE  \/ Needed(n) \subseteq {1, 2, 3, 4} \/ Needed(n) \subseteq {1, 3, 4, 5}
         \/ Needed(n) \subseteq {1, 6, 7} \/ Needed(n) \subseteq {1, 7, 8}
         \/ Needed(n) \subseteq {1, 8, 9} \/ Needed(n) \subseteq {1, 8, L}
<1>1. Len(graph) = L + 1 /\ n \in 1 .. Len(graph)
  BY DEF LayerShape
<1>2. ASSUME NEW i \in Needed(n)
      PROVE  /\ i \in 1 .. n
             /\ i # n => \E m \in 1 .. L + 1 : m > n /\ i \in graph[m].inputs
  BY <1>1, NeededBefore DEF Consumers
<1>3. ASSUME NEW i \in Needed(n), i # n
      PROVE  /\ n >= 5 => i # 2
             /\ n >= 6 => i \notin {3, 4, 5}
             /\ n >= 7 => i # 6
             /\ n >= 9 => i \notin {1, 7}
             /\ n # L
  <2>1. PICK m \in 1 .. L + 1 : m > n /\ i \in graph[m].inputs
    BY <1>2, <1>3
  <2>2. /\ 2 \in graph[m].inputs => m <= 5
        /\ 3 \in graph[m].inputs \/ 4 \in graph[m].inputs \/ 5 \in graph[m].inputs => m <= 6
        /\ 6 \in graph[m].inputs => m <= 7
        /\ 1 \in graph[m].inputs \/ 7 \in graph[m].inputs => m <= 9
    BY LastReads, ZenonT(30)
  <2>3. n # L
    <3>1. SUFFICES ASSUME n = L PROVE FALSE
      OBVIOUS
    <3>2. m = L + 1
      BY <2>1, <3>1
    <3>3. graph[L + 1].inputs = {L}
      BY Zenon DEF LayerShape
    <3>. QED  BY <1>3, <2>1, <3>1, <3>2, <3>3
  <2>. QED  BY <2>1, <2>2, <2>3
<1>4. CASE n \in 1 .. 4
  <2>1. \A i \in Needed(n) : i \in {1, 2, 3, 4}
    BY <1>2, <1>4
  <2>. QED  BY <2>1
<1>5. CASE n = 5
  <2>1. \A i \in Needed(n) : i \in {1, 3, 4, 5}
    BY <1>2, <1>3, <1>5
  <2>. QED  BY <2>1
<1>6. CASE n \in {6, 7}
  <2>1. \A i \in Needed(n) : i \in {1, 6, 7}
    BY <1>2, <1>3, <1>6
  <2>. QED  BY <2>1
<1>7. CASE n = 8
  <2>1. \A i \in Needed(n) : i \in {1, 7, 8}
    BY <1>2, <1>3, <1>7
  <2>. QED  BY <2>1
<1>8. CASE n = 9
  <2>1. \A i \in Needed(n) : i \in {1, 8, 9}
    BY <1>2, <1>3, <1>8
  <2>. QED  BY <2>1
<1>9. CASE n = L
  <2>1. \A i \in Needed(n) : i \in {1, 8, L}
    BY <1>3, <1>9
  <2>. QED  BY <2>1
<1>10. n \in 1 .. 4 \/ n = 5 \/ n \in {6, 7} \/ n = 8 \/ n = 9 \/ n = L
  OBVIOUS
<1>. QED  BY <1>4, <1>5, <1>6, <1>7, <1>8, <1>9, <1>10, Zenon

(* The sizes of three and of four tensors.                                 *)
LEMMA TakesThree ==
  ASSUME IsGraph(graph), NEW a \in 1 .. Len(graph), NEW b \in 1 .. Len(graph),
         NEW c \in 1 .. Len(graph), a # b, a # c, b # c, NEW x, NEW y, NEW z,
         graph[a].size = x, graph[b].size = y, graph[c].size = z
  PROVE  Takes({a, b, c}, x + y + z)
<1>1. Takes({a}, x)
  BY TakesOne, Zenon
<1>2. Takes({a} \cup {b}, x + y)
  BY <1>1, TakesMore, Zenon
<1>3. Takes(({a} \cup {b}) \cup {c}, x + y + z)
  BY <1>2, TakesMore, Zenon
<1>4. ({a} \cup {b}) \cup {c} = {a, b, c}
  BY Zenon
<1>. QED  BY <1>3, <1>4, Zenon

(* Four tensors take the sum of their sizes.                               *)
LEMMA TakesFour ==
  ASSUME IsGraph(graph), NEW a \in 1 .. Len(graph), NEW b \in 1 .. Len(graph),
         NEW c \in 1 .. Len(graph), NEW d \in 1 .. Len(graph),
         a # b, a # c, b # c, a # d, b # d, c # d, NEW x, NEW y, NEW z, NEW w,
         graph[a].size = x, graph[b].size = y, graph[c].size = z, graph[d].size = w
  PROVE  Takes({a, b, c, d}, x + y + z + w)
<1>1. Takes({a, b, c}, x + y + z)
  BY TakesThree, Zenon
<1>2. Takes({a, b, c} \cup {d}, x + y + z + w)
  BY <1>1, TakesMore, Zenon
<1>3. {a, b, c} \cup {d} = {a, b, c, d}
  BY Zenon
<1>. QED  BY <1>2, <1>3, Zenon

(* The fixed part needs at most three hidden states and the keys.          *)
LEMMA FixedPeak ==
  ASSUME IsGraph(graph), NEW L \in {14, 16}, LayerShape(graph, L), NEW V,
         LayerSizes(graph, L, V), NEW n \in 1 .. 9 \cup {L}, NEW z, Takes(Needed(n), z)
  PROVE  z <= 3 * graph[1].size + V
<1> DEFINE H == graph[1].size
           N == 1 .. Len(graph)
<1>1. /\ Len(graph) = L + 1 /\ graph[2].size = H /\ graph[3].size = H
      /\ graph[6].size = H /\ graph[7].size = H /\ graph[8].size = H /\ graph[9].size = H
      /\ graph[L].size = H
  BY DEF LayerShape
<1>2. V \in Nat /\ V <= H /\ graph[4].size = V /\ graph[5].size = V
  BY DEF LayerSizes
<1>3. H \in Nat
  BY <1>1, NodeFields DEF IsGraph
<1>4. graph[1].size = H
  OBVIOUS
<1> HIDE DEF H
<1>5. Takes({1, 2, 3, 4}, H + H + H + V)
  <2>1. 1 \in N /\ 2 \in N /\ 3 \in N /\ 4 \in N
    BY <1>1
  <2>2. 1 # 2 /\ 1 # 3 /\ 2 # 3 /\ 4 \notin {1, 2, 3}
    OBVIOUS
  <2>3. Takes({1, 2, 3}, H + H + H)
    BY <1>1, <1>4, <2>1, <2>2, TakesThree, Zenon
  <2>4. Takes({1, 2, 3} \cup {4}, H + H + H + V)
    BY <1>2, <2>1, <2>2, <2>3, TakesMore, Zenon
  <2>5. {1, 2, 3} \cup {4} = {1, 2, 3, 4}
    BY Zenon
  <2>. QED  BY <2>4, <2>5, Zenon
<1>6. Takes({1, 3, 4, 5}, H + H + V + V)
  <2>1. 1 \in N /\ 3 \in N /\ 4 \in N /\ 5 \in N
    BY <1>1
  <2>2. 1 # 3 /\ 1 # 4 /\ 1 # 5 /\ 3 # 4 /\ 3 # 5 /\ 4 # 5
    OBVIOUS
  <2>3. graph[1].size = H /\ graph[3].size = H /\ graph[4].size = V /\ graph[5].size = V
    BY <1>1, <1>2, <1>4, Zenon
  <2>. QED  BY <2>1, <2>2, <2>3, TakesFour, Zenon
<1>7. Takes({1, 6, 7}, H + H + H)
  <2>1. 1 \in N /\ 6 \in N /\ 7 \in N
    BY <1>1
  <2>2. 1 # 6 /\ 1 # 7 /\ 6 # 7
    OBVIOUS
  <2>3. graph[1].size = H /\ graph[6].size = H /\ graph[7].size = H
    BY <1>1, <1>2, <1>4, Zenon
  <2>. QED  BY <2>1, <2>2, <2>3, TakesThree, Zenon
<1>8. Takes({1, 7, 8}, H + H + H)
  <2>1. 1 \in N /\ 7 \in N /\ 8 \in N
    BY <1>1
  <2>2. 1 # 7 /\ 1 # 8 /\ 7 # 8
    OBVIOUS
  <2>3. graph[1].size = H /\ graph[7].size = H /\ graph[8].size = H
    BY <1>1, <1>2, <1>4, Zenon
  <2>. QED  BY <2>1, <2>2, <2>3, TakesThree, Zenon
<1>9. Takes({1, 8, 9}, H + H + H)
  <2>1. 1 \in N /\ 8 \in N /\ 9 \in N
    BY <1>1
  <2>2. 1 # 8 /\ 1 # 9 /\ 8 # 9
    OBVIOUS
  <2>3. graph[1].size = H /\ graph[8].size = H /\ graph[9].size = H
    BY <1>1, <1>2, <1>4, Zenon
  <2>. QED  BY <2>1, <2>2, <2>3, TakesThree, Zenon
<1>10. Takes({1, 8, L}, H + H + H)
  <2>1. 1 \in N /\ 8 \in N /\ L \in N
    BY <1>1
  <2>2. 1 # 8 /\ 1 # L /\ 8 # L
    OBVIOUS
  <2>3. graph[1].size = H /\ graph[8].size = H /\ graph[L].size = H
    BY <1>1, <1>2, <1>4, Zenon
  <2>. QED  BY <2>1, <2>2, <2>3, TakesThree, Zenon
<1>11. z <= H + H + H + V \/ z <= H + H + V + V \/ z <= H + H + H
  <2>1. ASSUME NEW t, NEW y, Needed(n) \subseteq t, Takes(t, y) PROVE z <= y
    BY <2>1, TakesLess, Zenon
  <2>. QED  BY <1>5, <1>6, <1>7, <1>8, <1>9, <1>10, <2>1, FixedNeeds, Zenon
<1>12. z \in Nat
  BY FS_CardinalityType DEF Takes
<1>13. z <= 3 * H + V
  BY <1>2, <1>3, <1>11, <1>12
<1>. QED  BY <1>13 DEF H

(* A tensor written before and read later is needed.                       *)
LEMMA NeededLater ==
  ASSUME NEW n \in Nat, NEW i \in 1 .. n, NEW j \in (n + 1) .. Len(graph), Len(graph) \in Nat,
         i \in graph[j].inputs
  PROVE  i \in Needed(n)
<1>1. i \in 1 .. Len(graph) /\ i \notin (n + 1) .. (j - 1)
  OBVIOUS
<1>. QED  BY <1>1 DEF Needed, LiveAfter

(* Unchunked, the MLP needs more than that.                                *)
LEMMA WholePeak ==
  ASSUME IsGraph(graph), NEW L, L = 14, LayerShape(graph, L), NEW V, LayerSizes(graph, L, V)
  PROVE  \E n \in 10 .. 13 : \A z : Takes(Needed(n), z) => z > 4 * graph[1].size
<1> DEFINE H == graph[1].size
           A == graph[10].size
           B == graph[11].size
           N == 1 .. Len(graph)
<1>1. Len(graph) = L + 1 /\ graph[9].size = H /\ 9 \in graph[L].inputs
  BY DEF LayerShape
<1>2. graph \in Seq(Node) /\ Len(graph) = 15
  <2>1. graph \in Seq(Node)
    BY Zenon DEF IsGraph
  <2>. QED  BY <1>1, <2>1
<1>3. H \in Nat /\ A \in Nat /\ B \in Nat
  <2>1. 1 \in N /\ 10 \in N /\ 11 \in N
    BY <1>2
  <2>. QED  BY <1>2, <2>1, NodeFields, Zenon
<1>4. 9 \in N /\ 10 \in N /\ 11 \in N /\ 9 # 10 /\ 9 # 11 /\ 10 # 11
  BY <1>2
<1>5. A > 3 * H \/ (graph[12].inputs = {10, 11} /\ A + B > 3 * H)
  BY DEF LayerSizes
<1>6. A = graph[10].size /\ B = graph[11].size
  OBVIOUS
<1> HIDE DEF H, A, B
<1>7. CASE A > 3 * H
  <2>1. Takes({9} \cup {10}, H + A)
    <3>1. Takes({9}, H)
      BY <1>1, <1>4, TakesOne, Zenon
    <3>2. 10 \notin {9}
      BY <1>4, Zenon
    <3>. QED  BY <1>4, <1>6, <3>1, <3>2, TakesMore, Zenon
  <2>2. 9 \in Needed(10) /\ 10 \in Needed(10)
    BY <1>1, <1>2, NeededLater DEF Needed
  <2>3. ASSUME NEW z, Takes(Needed(10), z) PROVE z > 4 * H
    <3>1. {9} \cup {10} \subseteq Needed(10)
      BY <2>2, Zenon
    <3>2. z \in Nat /\ H + A <= z
      BY <2>1, <2>3, <3>1, TakesLess, Zenon
    <3>. QED  BY <1>3, <1>7, <3>2
  <2>4. 10 \in 10 .. 13
    OBVIOUS
  <2>. QED  BY <2>3, <2>4, Zenon DEF H
<1>8. CASE graph[12].inputs = {10, 11} /\ A + B > 3 * H
  <2>1. Takes({9, 10, 11}, H + A + B)
    BY <1>1, <1>4, <1>6, TakesThree, Zenon
  <2>2. 9 \in Needed(11) /\ 10 \in Needed(11) /\ 11 \in Needed(11)
    <3>1. 9 \in Needed(11)
      BY <1>1, <1>2, NeededLater
    <3>2. 10 \in graph[12].inputs
      BY <1>8
    <3>3. 10 \in Needed(11)
      BY <1>2, <3>2, NeededLater
    <3>. QED  BY <3>1, <3>3 DEF Needed
  <2>3. ASSUME NEW z, Takes(Needed(11), z) PROVE z > 4 * H
    <3>1. {9, 10, 11} \subseteq Needed(11)
      BY <2>2, Zenon
    <3>2. z \in Nat /\ H + A + B <= z
      BY <2>1, <2>3, <3>1, TakesLess, Zenon
    <3>. QED  BY <1>3, <1>8, <3>2
  <2>4. 11 \in 10 .. 13
    OBVIOUS
  <2>. QED  BY <2>3, <2>4, Zenon DEF H
<1>. QED  BY <1>5, <1>7, <1>8, ZenonT(30)

(* Chunked, it needs three hidden states and a chunk of its three tensors. *)
LEMMA ChunkPeak ==
  ASSUME IsGraph(graph), NEW L, L = 16, LayerShape(graph, L), NEW z, Takes(Needed(13), z)
  PROVE  3 * graph[1].size + graph[10].size + graph[11].size + graph[12].size <= z
<1> DEFINE H == graph[1].size
           A == graph[10].size
           B == graph[11].size
           C == graph[12].size
           N == 1 .. Len(graph)
<1>1. /\ Len(graph) = L + 1 /\ graph[8].size = H /\ graph[9].size = H /\ graph[13].size = H
      /\ graph[14].inputs = {10, 11, 12, 13} /\ 8 \in graph[15].inputs
      /\ 9 \in graph[L].inputs
  BY DEF LayerShape
<1>2. graph \in Seq(Node) /\ Len(graph) = 17
  <2>1. graph \in Seq(Node)
    BY Zenon DEF IsGraph
  <2>. QED  BY <1>1, <2>1
<1>3. H \in Nat /\ A \in Nat /\ B \in Nat /\ C \in Nat
  <2>1. 1 \in N /\ 10 \in N /\ 11 \in N /\ 12 \in N
    BY <1>2
  <2>. QED  BY <1>2, <2>1, NodeFields, Zenon
<1>4. /\ 8 \in N /\ 9 \in N /\ 10 \in N /\ 11 \in N /\ 12 \in N /\ 13 \in N
      /\ 8 # 9 /\ 8 # 10 /\ 8 # 11 /\ 9 # 10 /\ 9 # 11 /\ 10 # 11
      /\ 12 \notin {8, 9, 10, 11} /\ 13 \notin {8, 9, 10, 11} \cup {12}
  BY <1>2
<1>5. A = graph[10].size /\ B = graph[11].size /\ C = graph[12].size
  OBVIOUS
<1> HIDE DEF H, A, B, C
<1>6. Takes({8, 9, 10, 11}, H + H + A + B)
  <2>1. Takes({8, 9, 10}, H + H + A)
    BY <1>1, <1>4, <1>5, TakesThree, Zenon
  <2>2. 11 \notin {8, 9, 10}
    OBVIOUS
  <2>3. Takes({8, 9, 10} \cup {11}, H + H + A + B)
    BY <1>4, <1>5, <2>1, <2>2, TakesMore, Zenon
  <2>4. {8, 9, 10} \cup {11} = {8, 9, 10, 11}
    BY Zenon
  <2>. QED  BY <2>3, <2>4, Zenon
<1>7. Takes({8, 9, 10, 11} \cup {12}, H + H + A + B + C)
  BY <1>4, <1>5, <1>6, TakesMore, Zenon
<1>8. Takes(({8, 9, 10, 11} \cup {12}) \cup {13}, H + H + A + B + C + H)
  BY <1>1, <1>4, <1>7, TakesMore, Zenon
<1>9. /\ 8 \in Needed(13) /\ 9 \in Needed(13) /\ 10 \in Needed(13) /\ 11 \in Needed(13)
      /\ 12 \in Needed(13) /\ 13 \in Needed(13)
  <2>1. ASSUME NEW i \in 1 .. 13, NEW j \in 14 .. 17, i \in graph[j].inputs
        PROVE  i \in Needed(13)
    BY <1>2, <2>1, NeededLater
  <2>2. /\ 10 \in graph[14].inputs /\ 11 \in graph[14].inputs /\ 12 \in graph[14].inputs
        /\ 13 \in graph[14].inputs /\ 9 \in graph[16].inputs
    BY <1>1
  <2>. QED  BY <1>1, <2>1, <2>2
<1>10. ({8, 9, 10, 11} \cup {12}) \cup {13} \subseteq Needed(13)
  BY <1>9, Zenon
<1>11. z \in Nat /\ H + H + A + B + C + H <= z
  BY <1>8, <1>10, TakesLess, Zenon
<1>12. 3 * H + A + B + C <= z
  BY <1>3, <1>11
<1>. QED  BY <1>12 DEF H, A, B, C

(* The peak of a part is the memory at one of its nodes, and the largest.  *)
LEMMA PeakOfPart ==
  ASSUME PlanTypeOK, FitInv, SharesOnlyInPlace, InBuffer, Planned, ~failed,
         NEW p, NEW n \in 1 .. Len(graph), graph[n].part = p
  PROVE  /\ PeakOf(p) \in Nat /\ PeakOf(p) >= MemoryAt(n) /\ Takes(Needed(n), MemoryAt(n))
         /\ \E m \in 1 .. Len(graph) :
              graph[m].part = p /\ Takes(Needed(m), PeakOf(p))
<1> DEFINE nodes == {m \in 1 .. Len(graph) : graph[m].part = p}
           S == {MemoryAt(m) : m \in nodes}
<1>1. IsGraph(graph) /\ max_offset \in Nat
  BY DEF PlanTypeOK
<1>2. ASSUME NEW m \in 1 .. Len(graph)
      PROVE  MemoryAt(m) \in 0 .. max_offset /\ Takes(Needed(m), MemoryAt(m))
  <2>1. /\ MemoryAt(m) = Cardinality(Bytes(Needed(m))) /\ IsFiniteSet(Bytes(Needed(m)))
        /\ MemoryAt(m) <= max_offset
    BY NeededFits, Zenon
  <2>2. Needed(m) \in SUBSET (1 .. Len(graph))
    <3>1. Len(graph) \in Nat
      BY <1>1 DEF IsGraph
    <3>2. \A i \in Needed(m) : i \in 1 .. m
      BY <1>1, NeededBefore, Zenon
    <3>. QED  BY <3>1, <3>2
  <2>3. MemoryAt(m) \in Nat
    BY <2>1, FS_CardinalityType, Zenon
  <2>4. Takes(Needed(m), MemoryAt(m))
    BY <2>1, <2>2, Zenon DEF Takes
  <2>. QED  BY <1>1, <2>1, <2>3, <2>4
<1>3. S \in SUBSET (0 .. max_offset) /\ MemoryAt(n) \in S
  BY <1>2, Zenon
<1>4. PeakOf(p) = Max(S)
  BY Zenon DEF PeakOf
<1> DEFINE P == Max(S)
<1>5. P \in S /\ \A y \in S : P >= y
  BY <1>1, <1>3, Largest, Zenon
<1>6. PICK m \in 1 .. Len(graph) : graph[m].part = p /\ P = MemoryAt(m)
  BY <1>5, Zenon
<1>7. P \in Nat
  BY <1>2, <1>6
<1> HIDE DEF P, S
<1>. QED  BY <1>2, <1>3, <1>4, <1>5, <1>6, <1>7, Zenon DEF P

(* Three chunks beside three tensors of size h, within a peak of 3h + v.   *)
LEMMA CutBound ==
  ASSUME NEW h \in Nat, NEW v \in Nat, NEW a \in Nat, NEW b \in Nat, NEW c \in Nat,
         NEW m \in Nat, NEW g \in Nat, NEW f \in Nat,
         3 * h + a + b + c <= m, g >= m, f >= g, f <= 3 * h + v
  PROVE  a + b + c <= v
OBVIOUS

(* When neither part is the bottleneck, both have been cut small.          *)
LEMMA NoBottleneck ==
  ASSUME PlanTypeOK, FitInv, SharesOnlyInPlace, InBuffer, Planned, ~failed,
         NEW L \in {14, 16}, LayerShape(graph, L), NEW V, LayerSizes(graph, L, V),
         ~LogitsIsBottleneck, ~MlpIsBottleneck
  PROVE  /\ L = 16 /\ graph[10].size + graph[11].size + graph[12].size <= V
         /\ graph[17].size <= 3 * graph[1].size + V
<1> DEFINE F == PeakOf("fixed")
           G == PeakOf("mlp")
           Q == PeakOf("logits")
           H == graph[1].size
<1>1. IsGraph(graph) /\ Len(graph) = L + 1
  BY Zenon DEF PlanTypeOK, LayerShape
<1>2. /\ graph[1].part = "fixed" /\ graph[13].part = "mlp" /\ graph[L + 1].part = "logits"
      /\ \A i \in 10 .. 13 : graph[i].part = "mlp"
      /\ V \in Nat /\ V <= H
  BY DEF LayerSizes
<1>3. 1 \in 1 .. Len(graph) /\ L + 1 \in 1 .. Len(graph) /\ 10 .. 13 \subseteq 1 .. Len(graph)
  BY <1>1
<1>4. F \in Nat /\ \E m \in 1 .. Len(graph) : graph[m].part = "fixed" /\ Takes(Needed(m), F)
  BY <1>2, <1>3, PeakOfPart, Zenon
<1>5. Q \in Nat /\ Q >= MemoryAt(L + 1) /\ Takes(Needed(L + 1), MemoryAt(L + 1))
  BY <1>2, <1>3, PeakOfPart, Zenon
<1>6. ASSUME NEW n \in 10 .. 13
      PROVE  G \in Nat /\ G >= MemoryAt(n) /\ Takes(Needed(n), MemoryAt(n))
  BY <1>2, <1>3, PeakOfPart, Zenon
<1>7. H \in Nat
  BY <1>1, <1>3, NodeFields DEF IsGraph
<1> HIDE DEF F, G, Q
<1>8. F <= 3 * H + V
  <2>1. PICK m \in 1 .. Len(graph) : graph[m].part = "fixed" /\ Takes(Needed(m), F)
    BY <1>4
  <2>2. m \in 1 .. 9 \cup {L}
    <3>1. m \in 1 .. 9 \/ m \in 10 .. (L - 1) \/ m = L \/ m = L + 1
      BY <1>1
    <3>2. /\ m \in 10 .. (L - 1) => graph[m].part = "mlp"
          /\ m = L + 1 => graph[m].part = "logits"
      BY Zenon DEF LayerSizes
    <3>. QED  BY <2>1, <3>1, <3>2
  <2>. QED  BY <1>1, <2>1, <2>2, FixedPeak, ZenonT(30)
<1>9. F >= G /\ F >= Q
  <2>1. ~(Q >= G /\ Q > F) /\ ~(G >= Q /\ G > F)
    BY Zenon DEF LogitsIsBottleneck, MlpIsBottleneck, F, G, Q
  <2>2. G \in Nat
    BY <1>6
  <2>. QED  BY <1>4, <1>5, <2>1, <2>2
<1>10. L = 16
  <2> SUFFICES ASSUME L = 14 PROVE FALSE
    OBVIOUS
  <2>1. PICK n \in 10 .. 13 : \A z : Takes(Needed(n), z) => z > 4 * H
    BY <1>1, WholePeak, Zenon
  <2>2. MemoryAt(n) > 4 * H /\ MemoryAt(n) \in Nat /\ G \in Nat /\ G >= MemoryAt(n)
    BY <1>6, <2>1, FS_CardinalityType, Zenon DEF Takes
  <2> HIDE DEF H
  <2>. QED  BY <1>2, <1>4, <1>7, <1>8, <1>9, <2>2
<1>11. graph[10].size + graph[11].size + graph[12].size <= V
  <2>1. G \in Nat /\ G >= MemoryAt(13) /\ Takes(Needed(13), MemoryAt(13))
    BY <1>6
  <2>2. 3 * H + graph[10].size + graph[11].size + graph[12].size <= MemoryAt(13)
    BY <1>1, <1>10, <2>1, ChunkPeak, Zenon
  <2>3. MemoryAt(13) \in Nat
    BY <2>1, FS_CardinalityType, Zenon DEF Takes
  <2>4. graph[10].size \in Nat /\ graph[11].size \in Nat /\ graph[12].size \in Nat
    <3>1. 10 \in 1 .. Len(graph) /\ 11 \in 1 .. Len(graph) /\ 12 \in 1 .. Len(graph)
      BY <1>1
    <3>. QED  BY <1>1, <3>1, NodeFields, Zenon DEF IsGraph
  <2> HIDE DEF H
  <2>5. F \in Nat /\ F <= 3 * H + V /\ V \in Nat /\ F >= G
    BY <1>2, <1>4, <1>8, <1>9, Zenon
  <2>. QED  BY <1>7, <2>1, <2>2, <2>3, <2>4, <2>5, CutBound
<1>12. graph[17].size <= 3 * H + V
  <2>1. 17 \in 1 .. Len(graph) /\ 17 = L + 1
    BY <1>1, <1>10
  <2> DEFINE Z == graph[17].size
  <2>2. Takes({17}, Z)
    BY <1>1, <2>1, TakesOne, Zenon
  <2> HIDE DEF H, Z
  <2>3. {17} \subseteq Needed(17)
    BY Zenon DEF Needed
  <2>4. Q >= MemoryAt(17) /\ Takes(Needed(17), MemoryAt(17))
    BY <1>5, <2>1, Zenon
  <2>5. MemoryAt(17) \in Nat /\ Z \in Nat /\ Z <= MemoryAt(17)
    <3> DEFINE m == MemoryAt(17)
               S == Needed(17)
    <3>1. Takes(S, m) /\ {17} \subseteq S
      BY <2>3, <2>4, Zenon
    <3> HIDE DEF m, S
    <3>2. Z \in Nat /\ m \in Nat /\ Z <= m
      BY <2>2, <3>1, TakesLess, Zenon
    <3>. QED  BY <3>2, Zenon DEF m
  <2>6. Z <= 3 * H + V
    BY <1>2, <1>4, <1>5, <1>7, <1>8, <1>9, <2>4, <2>5
  <2>. QED  BY <2>6 DEF Z
<1>. QED  BY <1>10, <1>11, <1>12, Zenon

(* What is still read when the tensors of a chunked layer are written.     *)
LEMMA ChunkConflicts ==
  ASSUME PlanTypeOK, NEW L \in {14, 16}, L = 16, LayerShape(graph, L),
         NEW j \in 9 .. 17, NEW i \in DOMAIN offset, Conflict(i, j)
  PROVE  /\ j = 9 => i \in {1, 7, 8}
         /\ j \in 10 .. 14 => i \in 8 .. (j - 1)
         /\ j = 15 => i \in {8, 9, 13}
         /\ j = 17 => i = 16
<1>1. i \in Nat /\ i >= 1 /\ i < j
  BY DEF PlanTypeOK, Conflict
<1>2. PICK n \in 1 .. L + 1 : i \in graph[n].inputs /\ n >= j
  <2>1. Len(graph) = L + 1
    BY Zenon DEF LayerShape
  <2>. QED  BY <2>1 DEF Conflict, Consumers
<1>3. /\ 2 \in graph[n].inputs => n <= 5
      /\ 3 \in graph[n].inputs \/ 4 \in graph[n].inputs \/ 5 \in graph[n].inputs => n <= 6
      /\ 6 \in graph[n].inputs => n <= 7
      /\ 1 \in graph[n].inputs \/ 7 \in graph[n].inputs => n <= 9
      /\ n >= 15 => graph[n].inputs \subseteq {8, 9, 13, 16}
  BY LastReads, ZenonT(30)
<1>4. i \notin {2, 3, 4, 5, 6} /\ (j >= 10 => i # 1 /\ i # 7)
  BY <1>2, <1>3
<1>5. j = 15 => i \in {8, 9, 13}
  BY <1>1, <1>2, <1>3
<1>6. j = 17 => i = 16
  <2>1. graph[L + 1].inputs = {L}
    BY Zenon DEF LayerShape
  <2>2. j = 17 => n = L + 1
    BY <1>2
  <2>. QED  BY <1>2, <2>1, <2>2
<1>. QED  BY <1>1, <1>4, <1>5, <1>6

(* The tensors of a chunked MLP are placed, and so are its barriers.       *)
LEMMA ChunkPlaced ==
  ASSUME PlanTypeOK, FitInv, NEW L \in {14, 16}, L = 16, LayerShape(graph, L),
         NEW V, LayerSizes(graph, L, V), k > L
  PROVE  /\ Placed(10, graph[10].size) /\ Placed(11, graph[11].size)
         /\ Placed(12, graph[12].size) /\ Placed(14, 1) /\ Placed(15, 1)
<1>1. graph \in Seq(Node) /\ Len(graph) = 17 /\ k \in Nat
  <2>1. IsGraph(graph) /\ Len(graph) = L + 1
    BY Zenon DEF PlanTypeOK, LayerShape
  <2>2. graph \in Seq(Node)
    BY <2>1, Zenon DEF IsGraph
  <2>. QED  BY <2>1, <2>2 DEF PlanTypeOK
<1>2. /\ graph[10].size > 0 /\ graph[11].size > 0 /\ graph[12].size > 0
      /\ graph[14].size = 1 /\ graph[15].size = 1
  BY Zenon DEF LayerSizes
<1>3. ASSUME NEW i \in 10 .. 15, graph[i].size > 0 PROVE Placed(i, graph[i].size)
  <2>1. i \in 1 .. Len(graph) /\ i # L /\ i \in 1 .. L + 1 /\ i \in 1 .. (k - 1)
    BY <1>1
  <2>2. graph[i].size \in Nat
    BY <1>1, <2>1, NodeFields, Zenon
  <2>3. i \in DOMAIN offset /\ offset[i] \in Nat
    BY <1>3, <2>1, Zenon DEF FitInv, PlanTypeOK
  <2>4. graph[i].alias = 0
    BY <2>1, Zenon DEF LayerShape
  <2>. QED  BY <1>3, <2>2, <2>3, <2>4, Zenon DEF Placed
<1>4. /\ 1 > 0 /\ 10 \in 10 .. 15 /\ 11 \in 10 .. 15 /\ 12 \in 10 .. 15
      /\ 14 \in 10 .. 15 /\ 15 \in 10 .. 15
  OBVIOUS
<1>. QED  BY <1>2, <1>3, <1>4, Zenon

(* Where a chunked layer whose chunks are no larger than the keys lies:    *)
(* all of it but the logits ends before residual or the values do.         *)
LEMMA ChunkLayout ==
  ASSUME PlanTypeOK, SafeInv, FitInv, NEW L \in {14, 16}, L = 16, LayerShape(graph, L),
         NEW V, LayerSizes(graph, L, V), k > L,
         graph[10].size + graph[11].size + graph[12].size <= V
  PROVE  LET H == graph[1].size
         IN  /\ End(9) = 4 * H
             /\ End(10) <= H /\ End(11) <= H /\ End(12) <= H /\ End(13) <= 3 * H
             /\ End(14) <= H \/ (V = H /\ End(14) <= 4 * H + 1)
             /\ End(15) <= H
<1> DEFINE H == graph[1].size
           A == graph[10].size
           B == graph[11].size
           C == graph[12].size
<1>1. /\ Placed(9, H) /\ Placed(13, H) /\ Placed(7, H) /\ Placed(8, H) /\ Placed(1, H)
      /\ offset[1] = 0 /\ offset[7] = 2 * H /\ offset[8] = H /\ offset[9] >= H
      /\ offset[13] = 0 \/ offset[13] >= H
  <2>1. k >= L
    BY DEF PlanTypeOK, IsGraph
  <2>. QED  BY <2>1, LayerPlaces, Zenon
<1>2. Placed(10, A) /\ Placed(11, B) /\ Placed(12, C) /\ Placed(14, 1) /\ Placed(15, 1)
  BY ChunkPlaced
<1>3. /\ 7 \in graph[9].inputs /\ 8 \in graph[15].inputs /\ 10 \in graph[14].inputs
      /\ Len(graph) = L + 1
  BY DEF LayerShape
<1>4. V \in Nat /\ V <= H /\ A + B + C <= V
  BY DEF LayerSizes
<1> HIDE DEF H, A, B, C
<1>5. /\ H \in Nat /\ H > 0 /\ A \in Nat /\ A > 0 /\ B \in Nat /\ B > 0 /\ C \in Nat /\ C > 0
      /\ offset[7] \in Nat /\ offset[8] \in Nat /\ offset[9] \in Nat
      /\ offset[10] \in Nat /\ offset[11] \in Nat /\ offset[12] \in Nat
      /\ offset[13] \in Nat /\ offset[14] \in Nat /\ offset[15] \in Nat
  BY <1>1, <1>2, Zenon DEF Placed
<1>6. /\ End(1) = offset[1] + H /\ End(7) = offset[7] + H /\ End(8) = offset[8] + H
      /\ End(9) = offset[9] + H /\ End(10) = offset[10] + A /\ End(11) = offset[11] + B
      /\ End(12) = offset[12] + C /\ End(13) = offset[13] + H
      /\ End(14) = offset[14] + 1 /\ End(15) = offset[15] + 1
  BY <1>1, <1>2, Zenon DEF Placed, End
<1>7. ASSUME NEW j \in 9 .. 17, NEW i \in DOMAIN offset, Conflict(i, j)
      PROVE  /\ j = 9 => i \in {1, 7, 8}
             /\ j \in 10 .. 14 => i \in 8 .. (j - 1)
             /\ j = 15 => i \in {8, 9, 13}
  BY <1>7, ChunkConflicts, Zenon
<1>8. offset[9] = 3 * H
  <2>1. 9 \in 1 .. Len(graph) /\ 15 \in 1 .. Len(graph) /\ 9 >= 9 /\ 15 >= 9 /\ 7 < 9 /\ 8 < 9
        /\ 7 \in Nat /\ 8 \in Nat /\ 9 \in Nat
    BY <1>3
  <2>2. H + H <= offset[9]
    BY <1>1, <1>3, <2>1, Above, ZenonT(30)
  <2>3. 2 * H <= offset[9]
    BY <1>5, <2>2
  <2>4. 2 * H + H <= offset[9]
    BY <1>1, <1>3, <2>1, <2>3, Above, ZenonT(30)
  <2>5. ASSUME NEW i \in DOMAIN offset, Conflict(i, 9)
        PROVE  End(i) <= 3 * H \/ 3 * H + H <= offset[i]
    <3>1. i \in {1, 7, 8}
      BY <1>7, <2>5
    <3>. QED  BY <1>1, <1>5, <1>6, <3>1
  <2>6. 3 * H \in Nat
    BY <1>5
  <2>7. offset[9] <= 3 * H
    BY <1>1, <2>5, <2>6, Below, ZenonT(30)
  <2>. QED  BY <1>5, <2>4, <2>7
<1>9. offset[10] = 0
  <2>1. ASSUME NEW i \in DOMAIN offset, Conflict(i, 10)
        PROVE  End(i) <= 0 \/ 0 + A <= offset[i]
    <3>1. i = 8 \/ i = 9
      BY <1>7, <2>1
    <3>. QED  BY <1>1, <1>4, <1>5, <1>8, <3>1
  <2>2. 0 \in Nat
    OBVIOUS
  <2>3. offset[10] <= 0
    BY <1>2, <2>1, <2>2, Below, Zenon
  <2>. QED  BY <1>5, <2>3
<1>10. offset[11] <= A
  <2>1. ASSUME NEW i \in DOMAIN offset, Conflict(i, 11)
        PROVE  End(i) <= A \/ A + B <= offset[i]
    <3>1. i = 8 \/ i = 9 \/ i = 10
      BY <1>7, <2>1
    <3>. QED  BY <1>1, <1>4, <1>5, <1>6, <1>8, <1>9, <3>1
  <2>. QED  BY <1>2, <1>5, <2>1, Below, ZenonT(30)
<1>11. offset[12] <= A + B
  <2>1. ASSUME NEW i \in DOMAIN offset, Conflict(i, 12)
        PROVE  End(i) <= A + B \/ A + B + C <= offset[i]
    <3>1. i = 8 \/ i = 9 \/ i = 10 \/ i = 11
      BY <1>7, <2>1
    <3>. QED  BY <1>1, <1>4, <1>5, <1>6, <1>8, <1>9, <1>10, <3>1
  <2>2. A + B \in Nat
    BY <1>5
  <2>. QED  BY <1>2, <2>1, <2>2, Below, ZenonT(30)
<1>12. offset[13] <= 2 * H
  <2>1. ASSUME NEW i \in DOMAIN offset, Conflict(i, 13)
        PROVE  End(i) <= 2 * H \/ 2 * H + H <= offset[i]
    <3>1. i = 8 \/ i = 9 \/ i = 10 \/ i = 11 \/ i = 12
      BY <1>7, <2>1
    <3>. QED  BY <1>1, <1>4, <1>5, <1>6, <1>8, <1>9, <1>10, <1>11, <3>1
  <2>2. 2 * H \in Nat
    BY <1>5
  <2>. QED  BY <1>1, <2>1, <2>2, Below, ZenonT(30)
<1>13. offset[13] >= H
  <2> SUFFICES ASSUME offset[13] = 0 PROVE FALSE
    BY <1>1
  <2>1. 14 \in 1 .. Len(graph) /\ 14 >= 13 /\ 10 < 13 /\ 10 \in Nat /\ 13 \in Nat /\ 0 <= offset[13]
    BY <1>3, <1>5
  <2>2. 0 + A <= offset[13]
    BY <1>1, <1>2, <1>3, <1>9, <2>1, Above, Zenon
  <2>. QED  BY <1>5, <2>2
<1>14. End(14) <= H \/ (V = H /\ End(14) <= 4 * H + 1)
  <2>1. ASSUME NEW i \in DOMAIN offset, Conflict(i, 14)
        PROVE  i = 8 \/ i = 9 \/ i = 10 \/ i = 11 \/ i = 12 \/ i = 13
    BY <1>7, <2>1
  <2>2. CASE V < H
    <3>1. ASSUME NEW i \in DOMAIN offset, Conflict(i, 14)
          PROVE  End(i) <= A + B + C \/ A + B + C + 1 <= offset[i]
      <4>1. i = 8 \/ i = 9 \/ i = 10 \/ i = 11 \/ i = 12 \/ i = 13
        BY <2>1, <3>1
      <4>. QED  BY <1>1, <1>4, <1>5, <1>6, <1>8, <1>9, <1>10, <1>11, <1>13, <2>2, <4>1
    <3>2. A + B + C \in Nat
      BY <1>5
    <3>3. offset[14] <= A + B + C
      BY <1>2, <3>1, <3>2, Below, ZenonT(30)
    <3>4. A + B + C + 1 <= H
      BY <1>4, <1>5, <2>2
    <3>5. offset[14] \in Nat /\ H \in Nat /\ End(14) = offset[14] + 1
      BY <1>5, <1>6, Zenon
    <3>6. End(14) <= H
      BY <3>2, <3>3, <3>4, <3>5
    <3>. QED  BY <3>6, Zenon
  <2>3. CASE V = H
    <3>1. ASSUME NEW i \in DOMAIN offset, Conflict(i, 14)
          PROVE  End(i) <= 4 * H \/ 4 * H + 1 <= offset[i]
      <4>1. i = 8 \/ i = 9 \/ i = 10 \/ i = 11 \/ i = 12 \/ i = 13
        BY <2>1, <3>1
      <4>. QED  BY <1>1, <1>4, <1>5, <1>6, <1>8, <1>9, <1>10, <1>11, <1>12, <4>1
    <3>2. 4 * H \in Nat
      BY <1>5
    <3>3. offset[14] <= 4 * H
      BY <1>2, <3>1, <3>2, Below, ZenonT(30)
    <3>. QED  BY <1>5, <1>6, <2>3, <3>3
  <2>. QED  BY <1>4, <1>5, <2>2, <2>3
<1>15. offset[15] = 0
  <2>1. ASSUME NEW i \in DOMAIN offset, Conflict(i, 15)
        PROVE  End(i) <= 0 \/ 0 + 1 <= offset[i]
    <3>1. i = 8 \/ i = 9 \/ i = 13
      BY <1>7, <2>1
    <3>. QED  BY <1>1, <1>5, <1>8, <1>13, <3>1
  <2>2. 0 \in Nat
    OBVIOUS
  <2>3. offset[15] <= 0
    BY <1>2, <2>1, <2>2, Below, ZenonT(30)
  <2>. QED  BY <1>5, <2>3
<1>16. /\ End(9) = 4 * H /\ End(10) <= H /\ End(11) <= H /\ End(12) <= H
       /\ End(13) <= 3 * H /\ End(15) <= H
  BY <1>4, <1>5, <1>6, <1>8, <1>9, <1>10, <1>11, <1>12, <1>15
<1>. QED  BY <1>14, <1>16, Zenon DEF H

(* Where the output of a chunked layer and the logits lie.                 *)
LEMMA TailLayout ==
  ASSUME PlanTypeOK, SafeInv, FitInv, TightInv, NEW L \in {14, 16}, L = 16,
         LayerShape(graph, L), k > L, NEW V \in Nat,
         graph[17].size <= 3 * graph[1].size + V
  PROVE  /\ 16 \in DOMAIN offset => End(16) <= graph[1].size
         /\ 17 \in DOMAIN offset => End(17) <= 4 * graph[1].size + V
<1> DEFINE H == graph[1].size
           Z == graph[17].size
<1>1. /\ Len(graph) = L + 1 /\ graph[L].alias = 1 /\ graph[L].size = H
      /\ graph[L + 1].alias = 0
  BY DEF LayerShape
<1>2. offset[1] = 0 /\ Placed(1, H)
  <2>1. k >= L
    BY DEF PlanTypeOK, IsGraph
  <2>. QED  BY <2>1, LayerPlaces, Zenon
<1>3. H \in Nat
  BY <1>2, Zenon DEF Placed
<1>4. graph \in Seq(Node) /\ 17 \in 1 .. Len(graph) /\ L + 1 = 17
  <2>1. graph \in Seq(Node)
    BY Zenon DEF PlanTypeOK, IsGraph
  <2>. QED  BY <1>1, <2>1
<1>5. Z \in Nat
  BY <1>4, NodeFields, Zenon
<1>6. Z <= 3 * H + V
  OBVIOUS
<1> HIDE DEF H, Z
<1>7. ASSUME 16 \in DOMAIN offset PROVE End(16) <= H
  <2>1. offset[16] = offset[1]
    BY <1>1, <1>7 DEF TightInv
  <2>. QED  BY <1>1, <1>2, <1>3, <2>1 DEF End
<1>8. ASSUME 17 \in DOMAIN offset PROVE End(17) <= 4 * H + V
  <2>1. graph[17].size > 0 /\ offset[17] \in Nat
    BY <1>8, Zenon DEF SafeInv, PlanTypeOK
  <2>2. Placed(17, Z)
    BY <1>1, <1>4, <1>5, <1>8, <2>1, Zenon DEF Placed, Z
  <2>3. ASSUME NEW i \in DOMAIN offset, Conflict(i, 17)
        PROVE  End(i) <= H \/ H + Z <= offset[i]
    <3>1. 17 \in 9 .. 17 /\ 17 = 17
      OBVIOUS
    <3>2. i = 16
      BY <2>3, <3>1, ChunkConflicts, Zenon
    <3>. QED  BY <1>7, <2>3, <3>2, Zenon
  <2>4. offset[17] <= H
    BY <1>3, <2>2, <2>3, Below, Zenon
  <2>5. End(17) = offset[17] + Z
    BY Zenon DEF End, Z
  <2>. QED  BY <1>3, <1>5, <1>6, <2>1, <2>4, <2>5
<1>. QED  BY <1>7, <1>8, ZenonT(30) DEF H

(* Keys and values lie side by side behind three hidden states.            *)
LEMMA KeysLayout ==
  ASSUME PlanTypeOK, SafeInv, FitInv, NEW L \in {14, 16}, LayerShape(graph, L), k > L,
         NEW V, LayerSizes(graph, L, V), V = graph[1].size
  PROVE  End(4) >= 5 * graph[1].size \/ End(5) >= 5 * graph[1].size
<1> DEFINE H == graph[1].size
<1>1. /\ Placed(4, graph[4].size) /\ 3 * H <= offset[4] /\ Placed(1, H)
      /\ Placed(5, graph[5].size) /\ 3 * H <= offset[5]
  <2>1. k >= L
    BY DEF PlanTypeOK, IsGraph
  <2>. QED  BY <2>1, LayerPlaces, Zenon
<1>2. graph[4].size = H /\ graph[5].size = H
  BY Zenon DEF LayerSizes
<1>3. H \in Nat /\ offset[4] \in Nat /\ offset[5] \in Nat
  BY <1>1, Zenon DEF Placed
<1> HIDE DEF H
<1>4. End(4) = offset[4] + H /\ End(5) = offset[5] + H
  BY <1>2, Zenon DEF End
<1>5. Conflict(4, 5)
  <2>1. 4 \in graph[6].inputs /\ 6 \in 1 .. Len(graph)
    BY DEF LayerShape
  <2>. QED  BY <2>1 DEF Conflict, Consumers
<1>6. End(4) <= offset[5] \/ End(5) <= offset[4]
  BY <1>1, <1>5, ZenonT(30) DEF SafeInv, SharesOnlyInPlace, Disjoint, Placed
<1>7. End(4) >= 5 * H \/ End(5) >= 5 * H
  BY <1>1, <1>3, <1>4, <1>6
<1>. QED  BY <1>7, Zenon DEF H

(* So the fixed part reaches as far as the whole plan, but for the logits  *)
(* of Dream.                                                               *)
LEMMA FixedReaches ==
  ASSUME PlanTypeOK, SafeInv, FitInv, TightInv, NEW L \in {14, 16}, L = 16,
         LayerShape(graph, L), k > L, NEW V, LayerSizes(graph, L, V),
         graph[10].size + graph[11].size + graph[12].size <= V,
         graph[17].size <= 3 * graph[1].size + V, NEW i \in DOMAIN offset
  PROVE  (i = 17 /\ V # graph[1].size) \/ \E j \in 1 .. 9 : End(i) <= End(j)
<1> DEFINE H == graph[1].size
<1>1. /\ End(9) = 4 * H /\ End(10) <= H /\ End(11) <= H /\ End(12) <= H
      /\ End(13) <= 3 * H /\ (End(14) <= H \/ (V = H /\ End(14) <= 4 * H + 1))
      /\ End(15) <= H
  BY ChunkLayout, Zenon
<1>2. V \in Nat
  BY Zenon DEF LayerSizes
<1>3. /\ 16 \in DOMAIN offset => End(16) <= H
      /\ 17 \in DOMAIN offset => End(17) <= 4 * H + V
  BY <1>2, TailLayout, Zenon
<1>4. V = H => End(4) >= 5 * H \/ End(5) >= 5 * H
  BY KeysLayout, Zenon
<1>5. IsGraph(graph) /\ Len(graph) = L + 1 /\ H > 0
  BY Zenon DEF PlanTypeOK, LayerShape
<1>6. H \in Nat
  <2>1. 1 \in 1 .. Len(graph)
    BY <1>5
  <2>. QED  BY <1>5, <2>1, NodeFields, Zenon DEF IsGraph
<1>7. ASSUME NEW j \in DOMAIN offset PROVE j \in 1 .. 17 /\ End(j) \in Nat
  <2>1. j \in 1 .. Len(graph) /\ offset[j] \in Nat /\ Len(graph) = 17
    BY <1>5 DEF PlanTypeOK
  <2>2. graph[j].size \in Nat
    BY <1>5, <2>1, NodeFields, Zenon DEF IsGraph
  <2>. QED  BY <2>1, <2>2 DEF End
<1> HIDE DEF H
<1>8. CASE i \in 1 .. 9
  <2>1. End(i) <= End(i)
    BY <1>7
  <2>. QED  BY <1>8, <2>1, ZenonT(30)
<1>9. ASSUME End(i) <= 4 * H PROVE \E j \in 1 .. 9 : End(i) <= End(j)
  <2>1. End(i) <= End(9) /\ 9 \in 1 .. 9
    BY <1>1, <1>9
  <2>. QED  BY <2>1, Zenon
<1>10. ASSUME End(i) <= 5 * H, V = H PROVE \E j \in 1 .. 9 : End(i) <= End(j)
  <2>1. 4 \in DOMAIN offset /\ 5 \in DOMAIN offset
    <3>1. k >= L
      BY DEF PlanTypeOK, IsGraph
    <3>. QED  BY <3>1, LayerPlaces, Zenon DEF Placed
  <2>2. End(4) \in Nat /\ End(5) \in Nat /\ End(i) \in Nat
    BY <1>7, <2>1, Zenon
  <2>3. (End(i) <= End(4) \/ End(i) <= End(5)) /\ 4 \in 1 .. 9 /\ 5 \in 1 .. 9
    BY <1>4, <1>6, <1>10, <2>2
  <2>. QED  BY <2>3, Zenon
<1>11. CASE i \in {10, 11, 12, 13, 15, 16}
  <2>1. End(i) <= 3 * H \/ End(i) <= H
    BY <1>1, <1>3, <1>11, Zenon
  <2>2. End(i) \in Nat
    BY <1>7
  <2>3. End(i) <= 4 * H
    BY <1>6, <2>1, <2>2
  <2>. QED  BY <1>9, <2>3, Zenon
<1>12. CASE i = 14
  <2>1. End(i) \in Nat /\ (End(i) <= H \/ (V = H /\ End(i) <= 4 * H + 1))
    BY <1>1, <1>7, <1>12, Zenon
  <2>2. H >= 1
    BY <1>5, <1>6 DEF H
  <2>3. End(i) <= 4 * H \/ (V = H /\ End(i) <= 5 * H)
    BY <1>6, <2>1, <2>2
  <2>. QED  BY <1>9, <1>10, <2>3, Zenon
<1>13. CASE i = 17
  <2>1. End(i) \in Nat /\ End(i) <= 4 * H + V
    BY <1>3, <1>7, <1>13, Zenon
  <2>2. V = H => End(i) <= 5 * H
    BY <1>6, <2>1
  <2>. QED  BY <1>10, <1>13, <2>2, Zenon DEF H
<1>14. \/ i \in 1 .. 9 \/ i \in {10, 11, 12, 13, 15, 16} \/ i = 14 \/ i = 17
  BY <1>7
<1>. QED  BY <1>8, <1>9, <1>11, <1>12, <1>13, <1>14, Zenon

(* All that is known of a plan in the making.                              *)
PlanInv ==
  /\ PlanTypeOK /\ FitInv /\ SafeInv /\ InBuffer /\ TightInv
  /\ failed = FALSE

(* When the search raises, a tensor ends beyond what the plan may use: one *)
(* of the attention part or, of Dream, the logits.                         *)
RaiseInv ==
  outcome = "raised" =>
    \E i \in 1 .. 9 \cup (IF call.model = "dream" THEN {Len(graph)} ELSE {}) :
      End(i) > Limit

(* The search: every plan it makes is one of a graph of its model, from    *)
(* the first node on, and it decides about a finished plan.                *)
SearchInv ==
  /\ PlanInv
  /\ call \in Search
  /\ chunks.logits \in Nat \ {0} /\ chunks.mlp \in Nat \ {0}
  /\ SearchGraph(graph, call.model)
  /\ outcome # "searching" => k > Len(graph)
  /\ RaiseInv

(* The invariant holds of a plan that has just begun.                      *)
LEMMA FreshPlan ==
  ASSUME NEW g, IsGraph(g), PlanInit(g)
  PROVE  PlanInv
<1>1. /\ graph = g /\ k = 1 /\ DOMAIN offset = {} /\ offset = <<>> /\ max_offset = 0
      /\ scanned = {} /\ last_end = 0 /\ failed = FALSE
  BY DEF PlanInit
<1>2. Len(g) \in Nat
  BY DEF IsGraph
<1>3. PlanTypeOK
  <2>1. offset \in [DOMAIN offset -> Nat] /\ DOMAIN offset \subseteq 1 .. (k - 1)
    BY <1>1
  <2>2. k \in 1 .. Len(graph) + 1 /\ max_offset \in Nat /\ last_end \in Nat
    BY <1>1, <1>2
  <2>. QED  BY <1>1, <2>1, <2>2, Zenon DEF PlanTypeOK
<1>4. FitInv
  BY <1>1 DEF FitInv, LowestFit
<1>5. SafeInv
  BY <1>1, Zenon DEF SafeInv, SharesOnlyInPlace, ScanInv, LiveBlocks
<1>6. InBuffer /\ TightInv
  BY <1>1, Zenon DEF InBuffer, TightInv
<1>. QED  BY <1>1, <1>3, <1>4, <1>5, <1>6, Zenon DEF PlanInv

(* Every iteration of the planner keeps it.                                *)
LEMMA PlanInvStep ==
  ASSUME PlanInv, NEW m, SearchGraph(graph, m), PlanStep
  PROVE  PlanInv' /\ SearchGraph(graph, m)'
<1>1. PICK L \in {14, 16} : LayerShape(graph, L)
  BY Zenon DEF SearchGraph
<1>2. PlanTypeOK /\ FitInv /\ SafeInv /\ InBuffer /\ TightInv /\ failed = FALSE
  BY Zenon DEF PlanInv
<1>3. [Next]_planVars
  BY DEF Next
<1>4. graph' = graph
  BY <1>3, SameGraph
<1>5. PlanTypeOK' /\ FitInv' /\ InBuffer' /\ TightInv'
  BY <1>2, <1>3, PlanTypeStep, FitStep, InBufferStep, TightStep, Zenon
<1>6. SafeInv'
  BY <1>1, <1>2, <1>3, LayerAliasFits, SafeStep, Zenon
<1>7. ~AliasFails
  <2> SUFFICES ASSUME AliasFails PROVE FALSE
    OBVIOUS
  <2>1. Len(graph) = L + 1 /\ k \in 1 .. Len(graph) /\ graph[k].alias # 0
    BY <1>1, <1>2 DEF PlanTypeOK, AliasFails, Placing, LayerShape
  <2>2. k = L /\ graph[L].alias = 1 /\ graph[1].size > 0
    BY <1>1, <2>1, Zenon DEF LayerShape
  <2>3. 1 \in 1 .. (k - 1)
    BY <2>2
  <2>4. 1 \in DOMAIN offset
    BY <1>2, <2>2, <2>3, ZenonT(30) DEF FitInv
  <2>. QED  BY <2>2, <2>4, Zenon DEF AliasFails
<1>8. failed' = FALSE
  BY <1>2, <1>7 DEF PlanStep, SkipEmpty, PlaceAlias, PlaceInGap, PassBlock, PlaceAtEnd, Place
<1>. QED  BY <1>4, <1>5, <1>6, <1>8, Zenon DEF PlanInv, SearchGraph

(* So does planning again with other numbers of chunks.                    *)
LEMMA ReplanInv ==
  ASSUME SearchInv, outcome = "searching", NEW c, c.logits \in Nat \ {0},
         c.mlp \in Nat \ {0}, Replan(c)
  PROVE  SearchInv'
<1>1. IsGraph(GraphOf(call, c)) /\ SearchGraph(GraphOf(call, c), call.model)
  BY GraphOfSearch, Zenon DEF SearchInv
<1>2. /\ graph' = GraphOf(call, c) /\ k' = 1 /\ offset' = <<>> /\ max_offset' = 0
      /\ scanned' = {} /\ last_end' = 0 /\ failed' = FALSE /\ chunks' = c
      /\ call' = call /\ outcome' = outcome /\ DOMAIN offset' = {}
  BY DEF Replan
<1>3. IsGraph(graph') /\ SearchGraph(graph', call'.model)
  BY <1>1, <1>2, Zenon
<1>4. PlanTypeOK'
  <2>1. Len(graph') \in Nat
    BY <1>3 DEF IsGraph
  <2>2. offset' \in [DOMAIN offset' -> Nat] /\ DOMAIN offset' \subseteq 1 .. (k' - 1)
    BY <1>2
  <2>3. k' \in 1 .. Len(graph') + 1 /\ max_offset' \in Nat /\ last_end' \in Nat
    BY <1>2, <2>1
  <2>. QED  BY <1>2, <1>3, <2>2, <2>3, ZenonT(30) DEF PlanTypeOK
<1>5. FitInv'
  BY <1>2 DEF FitInv, LowestFit
<1>6. SafeInv'
  BY <1>2, Zenon DEF SafeInv, SharesOnlyInPlace, ScanInv, LiveBlocks
<1>7. InBuffer' /\ TightInv'
  BY <1>2, Zenon DEF InBuffer, TightInv
<1>8. PlanInv'
  BY <1>2, <1>4, <1>5, <1>6, <1>7, Zenon DEF PlanInv
<1>9. call' \in Search /\ chunks'.logits \in Nat \ {0} /\ chunks'.mlp \in Nat \ {0}
  BY <1>2, Zenon DEF SearchInv
<1>10. ~(outcome' # "searching") /\ outcome' # "raised"
  BY <1>2
<1>. QED  BY <1>3, <1>8, <1>9, <1>10, Zenon DEF SearchInv, RaiseInv

(* A plan is not acceptable exactly when it does not fit the limit.        *)
LEMMA OverLimit ==
  ASSUME call \in Search, max_offset \in Nat, ~Acceptable
  PROVE  Limit \in Int /\ max_offset > Limit
<1>1. call.pool_size \in Nat /\ SafetyMargin \in Nat /\ MoeMargin \in Nat
  BY MarginAssumption DEF Search
<1>2. Pool \in Int
  BY <1>1 DEF Pool
<1>. QED  BY <1>1, <1>2 DEF Acceptable, Limit

(* The search raises only when a tensor it cannot cut ends beyond the      *)
(* limit: max_offset is the end of a tensor (TightInv), and the fixed      *)
(* part, or Dream's logits, reach as far as any (FixedReaches).            *)
LEMMA RaiseJustified ==
  ASSUME SearchInv, Raise
  PROVE  \E i \in 1 .. 9 \cup (IF call.model = "dream" THEN {Len(graph)} ELSE {}) :
           End(i) > Limit
<1>1. /\ PlanTypeOK /\ FitInv /\ SafeInv /\ InBuffer /\ TightInv /\ failed = FALSE
      /\ call \in Search /\ Planned /\ ~Acceptable /\ ~LogitsIsBottleneck
      /\ ~MlpIsBottleneck
  BY Zenon DEF SearchInv, PlanInv, Raise, Deciding
<1>2. PICK L \in {14, 16}, V \in Nat :
        /\ LayerShape(graph, L) /\ LayerSizes(graph, L, V)
        /\ call.model # "dream" => V = graph[1].size
  BY Zenon DEF SearchInv, SearchGraph
<1>3. SharesOnlyInPlace
  BY <1>1, Zenon DEF SafeInv
<1>4. /\ L = 16 /\ graph[10].size + graph[11].size + graph[12].size <= V
      /\ graph[17].size <= 3 * graph[1].size + V
  BY <1>1, <1>2, <1>3, NoBottleneck, Zenon
<1>5. Len(graph) = 17 /\ k > L /\ k >= L
  <2>1. Len(graph) = L + 1
    BY <1>2, Zenon DEF LayerShape
  <2>. QED  BY <1>1, <1>4, <2>1 DEF Planned, PlanTypeOK
<1>6. Limit \in Int /\ max_offset > Limit /\ max_offset \in Nat
  BY <1>1, OverLimit, Zenon DEF PlanTypeOK
<1>7. ASSUME NEW j \in DOMAIN offset PROVE End(j) \in Nat
  <2>1. j \in 1 .. Len(graph) /\ offset[j] \in Nat
    BY <1>1, <1>5 DEF PlanTypeOK
  <2>2. graph[j].size \in Nat
    BY <1>1, <2>1, NodeFields, Zenon DEF PlanTypeOK, IsGraph
  <2>. QED  BY <2>1, <2>2 DEF End
<1>8. ASSUME NEW j \in 1 .. 9 PROVE j \in DOMAIN offset
  <2>1. /\ 1 \in DOMAIN offset /\ 2 \in DOMAIN offset /\ 3 \in DOMAIN offset
        /\ 4 \in DOMAIN offset /\ 5 \in DOMAIN offset /\ 6 \in DOMAIN offset
        /\ 7 \in DOMAIN offset /\ 8 \in DOMAIN offset /\ 9 \in DOMAIN offset
    BY <1>1, <1>2, <1>5, LayerPlaced, Zenon DEF Placed
  <2>. QED  BY <2>1
<1>9. CASE max_offset = 0
  <2>1. 1 \in 1 .. 9
    OBVIOUS
  <2>2. End(1) > Limit
    BY <2>1, <1>6, <1>7, <1>8, <1>9
  <2>. QED  BY <2>1, <2>2, Zenon
<1>10. CASE max_offset # 0
  <2>1. PICK i \in DOMAIN offset : End(i) = max_offset
    BY <1>1, <1>10, Zenon DEF TightInv
  <2>2. CASE i = 17 /\ V # graph[1].size
    BY <1>2, <1>5, <1>6, <2>1, <2>2, Zenon
  <2>3. CASE \E j \in 1 .. 9 : End(i) <= End(j)
    <3>1. PICK j \in 1 .. 9 : End(i) <= End(j)
      BY <2>3
    <3>2. End(j) \in Nat
      BY <1>7, <1>8, Zenon
    <3>3. End(j) > Limit
      BY <1>6, <2>1, <3>1, <3>2
    <3>. QED  BY <3>3, Zenon
  <2>. QED  BY <1>1, <1>2, <1>4, <1>5, <2>2, <2>3, FixedReaches, Zenon
<1>. QED  BY <1>9, <1>10

(* One chunk more is at least one chunk.                                   *)
LEMMA OneMorePositive ==
  ASSUME NEW n \in Nat \ {0}, NEW rows
  PROVE  OneMore(n, rows) \in Nat \ {0}
BY DEF OneMore

(* The search begins with a fresh plan.                                    *)
LEMMA SearchInvInit == SearchInit => SearchInv
<1> SUFFICES ASSUME SearchInit PROVE SearchInv
  OBVIOUS
<1>1. call \in Search
  BY SearchesAssumption, Zenon DEF SearchInit
<1>2. chunks.logits \in Nat \ {0} /\ chunks.mlp \in Nat \ {0} /\ outcome = "searching"
  BY DEF SearchInit
<1>3. IsGraph(GraphOf(call, chunks)) /\ SearchGraph(GraphOf(call, chunks), call.model)
  BY <1>1, <1>2, GraphOfSearch, Zenon
<1>4. PlanInit(GraphOf(call, chunks)) /\ graph = GraphOf(call, chunks)
  BY Zenon DEF SearchInit, PlanInit
<1>5. PlanInv
  BY <1>3, <1>4, FreshPlan, Zenon
<1>6. outcome # "raised"
  BY <1>2
<1>. QED  BY <1>1, <1>2, <1>3, <1>4, <1>5, <1>6, Zenon DEF SearchInv, RaiseInv

(* A step that leaves the plan as it is, such as a decision about it.      *)
LEMMA SamePlan ==
  ASSUME SearchInv, UNCHANGED <<planVars, call, chunks>>, RaiseInv',
         outcome' = outcome \/ Planned
  PROVE  SearchInv'
<1>1. /\ graph' = graph /\ k' = k /\ offset' = offset /\ max_offset' = max_offset
      /\ scanned' = scanned /\ last_end' = last_end /\ failed' = failed
      /\ call' = call /\ chunks' = chunks
  BY DEF planVars
<1>2. PlanTypeOK' /\ FitInv'
  BY <1>1, Zenon DEF SearchInv, PlanInv, PlanTypeOK, FitInv, Searching, Placing, LiveBlocks,
              Usable, Consumers, Hits, End, LowestFit, Conflict
<1>3. SafeInv' /\ InBuffer' /\ TightInv'
  <2>1. SafeInv /\ InBuffer /\ TightInv
    BY Zenon DEF SearchInv, PlanInv
  <2>2. SharesOnlyInPlace => SharesOnlyInPlace'
    BY <1>1, SMT DEF SharesOnlyInPlace, Consumers, Conflict, Disjoint, End
  <2>3. ScanInv <=> ScanInv'
    BY <1>1, Zenon DEF ScanInv, LiveBlocks, Usable, Consumers, End
  <2>4. SafeInv'
    BY <1>1, <2>1, <2>2, <2>3, Zenon DEF SafeInv
  <2>5. InBuffer <=> InBuffer'
    BY <1>1, Zenon DEF InBuffer, End
  <2>6. TightInv <=> TightInv'
    BY <1>1, Zenon DEF TightInv, Usable, Consumers, End
  <2>. QED  BY <2>1, <2>4, <2>5, <2>6, Zenon
<1>4. PlanInv'
  BY <1>1, <1>2, <1>3, Zenon DEF SearchInv, PlanInv
<1>5. outcome' # "searching" => k' > Len(graph')
  BY <1>1, Zenon DEF Planned, SearchInv, PlanInv
<1>. QED  BY <1>1, <1>4, <1>5, Zenon DEF SearchInv

(* Every step of the search keeps the invariant.                           *)
LEMMA SearchInvStep == SearchInv /\ [SearchNext]_vars => SearchInv'
<1> SUFFICES ASSUME SearchInv, [SearchNext]_vars PROVE SearchInv'
  OBVIOUS
<1>1. CASE Analyze
  <2>1. PlanStep /\ call' = call /\ chunks' = chunks /\ outcome' = outcome
    BY <1>1 DEF Analyze, searchVars
  <2>2. outcome = "searching"
    <3>1. k <= Len(graph) /\ k \in Nat /\ Len(graph) \in Nat
      <4>1. Placing
        BY <2>1, Zenon DEF PlanStep, SkipEmpty, PlaceAlias, AliasFails, PlaceInGap, PassBlock,
                    PlaceAtEnd, Searching
      <4>2. k \in 1 .. Len(graph) + 1 /\ graph \in Seq(Node)
        BY Zenon DEF SearchInv, PlanInv, PlanTypeOK, IsGraph
      <4>. QED  BY <4>1, <4>2 DEF Placing
    <3>. QED  BY <3>1 DEF SearchInv
  <2>3. PlanInv' /\ SearchGraph(graph, call.model)'
    <3>1. PlanInv /\ SearchGraph(graph, call.model)
      BY Zenon DEF SearchInv
    <3>. QED  BY <2>1, <3>1, PlanInvStep
  <2>4. outcome' # "raised" /\ ~(outcome' # "searching")
    BY <2>1, <2>2
  <2>. QED  BY <2>1, <2>3, <2>4, Zenon DEF SearchInv, RaiseInv
<1>2. CASE Accept
  <2>1. Planned /\ UNCHANGED <<planVars, call, chunks>> /\ outcome' # "raised"
    BY <1>2 DEF Accept, Deciding
  <2>. QED  BY <2>1, SamePlan, Zenon DEF RaiseInv
<1>3. CASE CutLogits
  <2> DEFINE c == [chunks EXCEPT !.logits = OneMore(@, call.O)]
  <2>1. Replan(c) /\ outcome = "searching"
    BY <1>3 DEF CutLogits, Deciding
  <2>2. c.logits \in Nat \ {0} /\ c.mlp \in Nat \ {0}
    BY OneMorePositive DEF SearchInv
  <2> HIDE DEF c
  <2>. QED  BY <2>1, <2>2, ReplanInv, Zenon
<1>4. CASE CutMlp
  <2> DEFINE c == [chunks EXCEPT !.mlp = OneMore(@, call.P)]
  <2>1. Replan(c) /\ outcome = "searching"
    BY <1>4 DEF CutMlp, Deciding
  <2>2. c.logits \in Nat \ {0} /\ c.mlp \in Nat \ {0}
    BY OneMorePositive DEF SearchInv
  <2> HIDE DEF c
  <2>. QED  BY <2>1, <2>2, ReplanInv, Zenon
<1>5. CASE Raise
  <2>1. Planned /\ UNCHANGED <<planVars, call, chunks>>
    BY <1>5 DEF Raise, Deciding
  <2>2. \E i \in 1 .. 9 \cup (IF call.model = "dream" THEN {Len(graph)} ELSE {}) :
          End(i) > Limit
    BY <1>5, RaiseJustified, Zenon
  <2>3. graph' = graph /\ offset' = offset /\ call' = call
    BY <2>1 DEF planVars
  <2>4. RaiseInv'
    BY <2>2, <2>3, Zenon DEF RaiseInv, End, Limit, Pool
  <2>. QED  BY <2>1, <2>4, SamePlan, Zenon
<1>6. CASE UNCHANGED vars
  <2>1. UNCHANGED <<planVars, call, chunks>> /\ outcome' = outcome
    BY <1>6 DEF vars, searchVars
  <2>2. graph' = graph /\ offset' = offset /\ call' = call
    BY <2>1 DEF planVars
  <2>3. RaiseInv'
    BY <2>1, <2>2, Zenon DEF SearchInv, RaiseInv, End, Limit, Pool
  <2>. QED  BY <2>1, <2>3, SamePlan, Zenon
<1>. QED  BY <1>1, <1>2, <1>3, <1>4, <1>5, <1>6, Zenon DEF SearchNext, SearchStep

(* For LLaDA and LLaDA-MoE, every number of tokens and output tokens,      *)
(* every pool size and all margins: search_optimal_config_online raises    *)
(* its RuntimeError only when a tensor of the attention part, which no     *)
(* chunking changes, ends beyond what the plan may use.  Of Dream this is  *)
(* false, and RaiseInv says by how much: its logits may be that tensor.    *)
THEOREM SearchRaises ==
  ASSUME \A s \in Searches : s.model # "dream"
  PROVE  SearchSpec => []RaiseIsJustified
<1>1. SearchInit => call \in Searches
  BY DEF SearchInit
<1>2. call \in Searches /\ [SearchNext]_vars => (call \in Searches)'
  BY DEF SearchNext, SearchStep, Analyze, Accept, CutLogits, CutMlp, Raise, Replan,
         searchVars, vars
<1>3. SearchInv /\ call \in Searches => RaiseIsJustified
  <2> SUFFICES ASSUME SearchInv, call \in Searches, outcome = "raised"
               PROVE  \E i \in 1 .. 9 : End(i) > Limit
    BY DEF RaiseIsJustified
  <2>1. call.model # "dream"
    OBVIOUS
  <2>2. 1 .. 9 \cup (IF call.model = "dream" THEN {Len(graph)} ELSE {}) = 1 .. 9
    BY <2>1
  <2>. QED  BY <2>2, Zenon DEF SearchInv, RaiseInv
<1>. QED  BY <1>1, <1>2, <1>3, SearchInvInit, SearchInvStep, PTL DEF SearchSpec

(* Every plan the search makes, the one it returns included, is as safe as *)
(* the planner's theorems say of a single graph: tensors share memory only *)
(* in place, the buffer holds the peak of the timeline, and no alias is    *)
(* refused.                                                                *)
THEOREM SearchPlans == SearchSpec => [](SharesOnlyInPlace /\ PeakFits /\ ~failed)
<1>1. SearchInv => PlanTypeOK /\ FitInv /\ SafeInv /\ InBuffer /\ ~failed
  BY Zenon DEF SearchInv, PlanInv
<1>2. PlanTypeOK /\ FitInv /\ SafeInv /\ InBuffer => SharesOnlyInPlace /\ PeakFits
  BY NeededFits DEF SafeInv, PeakFits
<1>. QED  BY <1>1, <1>2, SearchInvInit, SearchInvStep, PTL DEF SearchSpec
=============================================================================
