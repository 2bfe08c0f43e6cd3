-------------------------- MODULE MCBatchPipeline --------------------------
(* Instances of BatchPipeline for TLC: how often each fault may occur, and *)
(* how many there may be in one behaviour.                                 *)
EXTENDS DocumentedClaims, FiniteSetsExt, TLC

CONSTANTS Crashes, Drops, Raises, Redis, Replays, Cancels, Slow, MaxFaults

MCBudget == [f \in Faults |->
    CASE f = "crash"  -> Crashes
      [] f = "drop"   -> Drops
      [] f = "raise"  -> Raises
      [] f = "redis"  -> Redis
      [] f = "replay" -> Replays
      [] f = "cancel" -> Cancels
      [] f = "slow"   -> Slow]

FewFaults == MapThenSumSet(LAMBDA f : Budget[f] - left[f], Faults) <= MaxFaults

Symmetry == Permutations(Chunks) \cup Permutations(Slots)
============================================================================
