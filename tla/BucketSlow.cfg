CONSTANTS
    c1 = c1
    c2 = c2
    Callers = {c1, c2}
    Offset <- MCNoOffset
    Ahead = 0
    Rate <- MCOneRate
    MaxRate = 1
    Second = 1
    Cost = 2
    MaxWait = 4
    Nap = 1
    Pauses = {1}
    MaxDelay = 2
    MaxTime = 6
    PauseBudget = 0
    ResetBudget = 0
    Budget <- MCBudget
SPECIFICATION Spec
INVARIANT SlowRateServed
CHECK_DEADLOCK FALSE
