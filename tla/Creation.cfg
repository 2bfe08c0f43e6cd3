CONSTANTS
    r1 = r1
    r2 = r2
    r3 = r3
    k = k
    NoKey = NoKey
    EmptyKey = EmptyKey
    Requests = {r1, r2, r3}
    KeyOf <- MCKeyOf
    Copies = {r1}
    Lines = {0, 2}
    MaxIds = 3
    Crashes = 1
    Overwrites = 1
    Budget <- MCBudget
SPECIFICATION FairSpec
INVARIANTS JobsHaveRows TotalsMatchPrompts AcceptedIsStarted CreationInv
PROPERTIES KeepsPromise KeyedBatchStarts
CHECK_DEADLOCK FALSE
