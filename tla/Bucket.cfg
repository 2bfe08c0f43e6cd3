CONSTANTS
    c1 = c1
    c2 = c2
    Callers = {c1, c2}
    Offset <- MCOffset
    Ahead = 1
    Rate <- MCRate
    MaxRate = 2
    Second = 3
    Cost = 2
    MaxWait = 4
    Nap = 1
    Pauses = {1, 3}
    MaxDelay = 1
    MaxTime = 5
    PauseBudget = 1
    ResetBudget = 1
    Budget <- MCBudget
SPECIFICATION Spec
INVARIANTS TypeOK IssueBound TimeoutIsContention LedgerInv
CHECK_DEADLOCK FALSE
