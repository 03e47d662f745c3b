--------------------------- MODULE OnlineSearcher ---------------------------
(***************************************************************************)
(* search_optimal_config_online (diffusion_tools/online_searcher.py): plan *)
(* the layer, and while the plan does not fit the pool cut the bottleneck  *)
(* into more chunks and plan again.                                        *)
(***************************************************************************)
EXTENDS MemoryPlan, BlockGraphs

CONSTANTS SafetyMargin,   \* safety_margin_mb, in bytes
          MoeMargin,      \* min_margin_mb, in bytes
          Searches        \* the calls: model, P, O and pool_size

Search == [model : Models, P : Nat \ {0}, O : Nat \ {0}, pool_size : Nat]

ASSUME MarginAssumption == SafetyMargin \in Nat /\ MoeMargin \in Nat
ASSUME SearchesAssumption == \A s \in Searches : s \in Search

VARIABLES call,       \* the arguments of this search
          chunks,     \* num_chunks_logits and num_chunks_mlp
          outcome     \* "searching", "found" or "raised"

searchVars == <<call, chunks, outcome>>
vars == <<planVars, searchVars>>

Pool == call.pool_size - SafetyMargin

GraphOf(s, c) == BlockGraph(s.model, s.P, s.O, c.logits, c.mlp)

SearchInit ==
  /\ call \in Searches
  /\ chunks = [logits |-> 1, mlp |-> 1]
  /\ outcome = "searching"
  /\ PlanInit(GraphOf(call, chunks))

(* analyze_components_from_timeline                                        *)
PeakOf(part) ==
  LET nodes == {n \in 1 .. Len(graph) : graph[n].part = part}
  IN  Max({MemoryAt(n) : n \in nodes})

Acceptable ==
  /\ max_offset <= Pool
  /\ call.model = "llada-moe" => Pool - max_offset >= MoeMargin

LogitsIsBottleneck ==
  /\ PeakOf("logits") >= PeakOf("mlp")
  /\ PeakOf("logits") > PeakOf("fixed")

(* Faulty variant: the MLP is cut in two and no further.                   *)
MlpIsBottleneckOnce ==
  /\ chunks.mlp = 1
  /\ PeakOf("mlp") >= PeakOf("logits")
  /\ PeakOf("mlp") > PeakOf("fixed")

MlpIsBottleneck ==
  /\ PeakOf("mlp") >= PeakOf("logits")
  /\ PeakOf("mlp") > PeakOf("fixed")

(* Faulty variant: chunking is switched on but the count never grows.      *)
OneMoreStuck(n, rows) == 2

(* One chunk more.  With more chunks than rows every chunk has one row, so *)
(* the count, which the code lets grow without bound, is capped there.     *)
OneMore(n, rows) == IF n < 2 \/ n < rows THEN n + 1 ELSE n

Replan(c) ==
  /\ chunks' = c
  /\ graph' = GraphOf(call, c)
  /\ k' = 1
  /\ offset' = <<>>
  /\ max_offset' = 0
  /\ scanned' = {}
  /\ last_end' = 0
  /\ failed' = FALSE
  /\ UNCHANGED <<call, outcome>>

Deciding == outcome = "searching" /\ Planned

Accept ==
  /\ Deciding
  /\ Acceptable
  /\ outcome' = "found"
  /\ UNCHANGED <<planVars, call, chunks>>

CutLogits ==
  /\ Deciding
  /\ ~Acceptable
  /\ LogitsIsBottleneck
  /\ Replan([chunks EXCEPT !.logits = OneMore(@, call.O)])

CutMlp ==
  /\ Deciding
  /\ ~Acceptable
  /\ ~LogitsIsBottleneck
  /\ MlpIsBottleneck
  /\ Replan([chunks EXCEPT !.mlp = OneMore(@, call.P)])

(* The fixed part is the bottleneck: RuntimeError.                         *)
Raise ==
  /\ Deciding
  /\ ~Acceptable
  /\ ~LogitsIsBottleneck
  /\ ~MlpIsBottleneck
  /\ outcome' = "raised"
  /\ UNCHANGED <<planVars, call, chunks>>

Analyze == PlanStep /\ UNCHANGED searchVars

SearchStep == Analyze \/ Accept \/ CutLogits \/ CutMlp \/ Raise

SearchNext == SearchStep \/ (outcome # "searching" /\ UNCHANGED vars)

(* The search is a plain loop: it goes on until it returns or raises.      *)
SearchSpec == SearchInit /\ [][SearchNext]_vars /\ WF_vars(SearchStep)
-----------------------------------------------------------------------------
(* Properties.                                                             *)

(* What the plan may use: LLaDA-MoE keeps a further margin free.           *)
Limit == Pool - (IF call.model = "llada-moe" THEN MoeMargin ELSE 0)

(* search_optimal_config_online raises only when no chunking can help:     *)
(* some tensor of the attention part, which is the same in every           *)
(* configuration, already ends beyond the pool (or, for LLaDA-MoE, within  *)
(* the margin it must keep).                                               *)
RaiseIsJustified ==
  outcome = "raised" => \E i \in 1 .. 9 : End(i) > Limit

(* The search ends, by a configuration that fits or by the error.          *)
SearchEnds == <>(outcome # "searching")
=============================================================================
