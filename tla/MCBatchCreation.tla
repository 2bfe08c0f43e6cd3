-------------------------- MODULE MCBatchCreation --------------------------
(* Instances of BatchCreation for TLC: two requests with one key, the      *)
(* first naming an object to copy, and one with an empty key.              *)
EXTENDS BatchCreation, TLC

CONSTANTS r1, r2, r3, k, Crashes, Overwrites

MCKeyOf  == (r1 :> k) @@ (r2 :> k) @@ (r3 :> EmptyKey)
MCBudget == [f \in Faults |-> IF f = "crash" THEN Crashes ELSE Overwrites]
============================================================================
