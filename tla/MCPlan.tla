------------------------------- MODULE MCPlan -------------------------------
(* Model-checking instances of MemoryPlan, LayerForward and OnlineSearcher: *)
(* the plan of every small graph and of the block graphs of the three       *)
(* models, forward passes on some of these, and searches.                   *)
EXTENDS LayerForward, MCSearch

SmallNode(size, inputs, alias) ==
  [part |-> "fixed", size |-> size, inputs |-> inputs, alias |-> alias,
   width |-> 1]

(* All graphs of five nodes with sizes up to 2; the fourth tensor may be    *)
(* an alias of one that is not placed yet.                                  *)
SmallGraphs ==
  { << SmallNode(z[1], {}, 0), SmallNode(z[2], in2, 0),
       SmallNode(z[3], in3, 0), SmallNode(1, in4, a), SmallNode(z[4], in5, 0) >> :
      z \in (1 .. 2) \X (1 .. 2) \X (0 .. 2) \X (1 .. 2),
      in2 \in SUBSET {1}, in3 \in SUBSET {1, 2}, in4 \in SUBSET {1, 2, 3},
      in5 \in SUBSET {2, 3, 4}, a \in {0, 5} }

LayerGraphs ==
  { BlockGraph(m, n, c, cl, cm) :
      m \in Models, n \in {8, 20, 33}, c \in {1, 4}, cl \in {1, 2},
      cm \in 1 .. 8 }

(* mask_indices: the masked positions of the output, in order.              *)
Masks(O) == {SetToSortSeq(S, <) : S \in SUBSET (0 .. O - 1)}

Tasks ==
  UNION { [model : Models, P : {n}, O : {2 * n - 1}, mask_indices : Masks(2 * n - 1),
           chunks_logits : {1, 2}, chunks_mlp : {1, 2, 3}] : n \in {1, 2} }

NoTask == [model |-> "none"]

PlannedGraphs == SmallGraphs \cup LayerGraphs

PlanOnly ==
  /\ task = NoTask
  /\ phase = "plan"
  /\ next = 0
  /\ mem = <<>>

NoSearch ==
  /\ call = [model |-> "none"]
  /\ chunks = [logits |-> 1, mlp |-> 1]
  /\ outcome = "none"

MCInit ==
  \/ Init /\ PlanOnly /\ NoSearch
  \/ \E t \in Tasks : ForwardInit(t) /\ NoSearch
  \/ SearchInit /\ PlanOnly

MCVars == <<planVars, runVars, searchVars>>

Done ==
  /\ Planned /\ outcome # "searching"
  /\ task = NoTask \/ phase \in {"done", "raised"}
  /\ UNCHANGED MCVars

(* Analyze, a step of SearchStep, makes the plan in all three cases.        *)
MCNext ==
  \/ SearchStep /\ UNCHANGED runVars
  \/ task # NoTask /\ ForwardStep /\ UNCHANGED searchVars
  \/ Done

MCSpec ==
  /\ MCInit
  /\ [][MCNext]_MCVars
  /\ WF_MCVars(outcome = "searching" /\ SearchStep /\ UNCHANGED runVars)
=============================================================================
