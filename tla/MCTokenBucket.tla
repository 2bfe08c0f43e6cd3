--------------------------- MODULE MCTokenBucket ---------------------------
(* Instances of TokenBucket for TLC: two callers, the second one's clock   *)
(* ahead or in step, its rate the lower one or the same.                   *)
EXTENDS TokenBucket, TLC

CONSTANTS c1, c2, PauseBudget, ResetBudget

MCOffset   == (c1 :> 0) @@ (c2 :> Ahead)
MCNoOffset == [c \in Callers |-> 0]
MCRate     == (c1 :> 2) @@ (c2 :> 1)
MCOneRate  == [c \in Callers |-> 1]
MCBudget   == [f \in Faults |-> IF f = "pause" THEN PauseBudget ELSE ResetBudget]
============================================================================
