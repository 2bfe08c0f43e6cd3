---------------------------- MODULE MCItemRunner ----------------------------
(* Instances of ItemRunner for TLC: how often each fault may occur.        *)
EXTENDS ItemRunner, TLC

CONSTANTS Cancels, Raises, Timeouts, MaxFaults

MCBudget == [f \in Faults |-> CASE f = "cancel"  -> Cancels
                                [] f = "raise"   -> Raises
                                [] f = "timeout" -> Timeouts]

(* Bound: not every combination of faults.  The budgets only shrink and    *)
(* faults are not fair, so nothing that must happen is cut off.            *)
FewFaults ==
    (Cancels - left["cancel"]) + (Raises - left["raise"])
        + (Timeouts - left["timeout"]) <= MaxFaults

Symmetry == Permutations(Runs) \cup Permutations(Items)
=============================================================================
