CONSTANTS
    Runs = {r1, r2}
    Items = {i1, i2}
    MaxConcurrency = 2
    MaxCalls = 2
    Cancels = 1
    Raises = 1
    Timeouts = 1
    MaxFaults = 1
    Budget <- MCBudget
SPECIFICATION FairSpec
CONSTRAINT FewFaults
INVARIANTS ConcurrencyCapped OutcomesEarned PauseHolds ItemInv
PROPERTIES RunsEnd PermitsFree
CHECK_DEADLOCK FALSE
