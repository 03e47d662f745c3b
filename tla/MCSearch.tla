------------------------------ MODULE MCSearch ------------------------------
(* Model-checking instances of OnlineSearcher.  Pool sizes are given beyond *)
(* the margins, so that they are comparable with the sizes of the plans.    *)
EXTENDS OnlineSearcher

Calls(m, P, O, spare) ==
  { [model |-> m, P |-> P, O |-> o,
     pool_size |-> SafetyMargin
                     + (IF m = "llada-moe" THEN MoeMargin ELSE 0) + z] :
      o \in O, z \in spare }

(* Long enough texts: the fixed part becomes the bottleneck in the end.     *)
LongCalls ==
  Calls("llada", 20, {1, 20}, {0, 600000, 819200, 1200000})
    \cup Calls("dream", 120, {9}, {0, 4000000, 8000000})
    \cup Calls("dream", 112, {8}, {3211263, 3235840})
    \cup Calls("llada-moe", 24, {1, 24}, {0, 400000, 491520, 800000, 3000000})

ShortCalls == Calls("llada", 4, {2}, {0, 285696})

(* Dream in a pool into which its attention part just fits.                *)
TightCalls == Calls("dream", 112, {8}, {3211264})

NoGraphs == {}
=============================================================================
