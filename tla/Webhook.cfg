CONSTANTS
    Slots = {w1, w2}
    Events = {completed, failed}
    WebhookMaxAttempts = 3
    PostBound = 4
    Notifies = 3
    Crashes = 2
    Drops = 1
    Redis = 1
    Budget <- MCBudget
SPECIFICATION FairSpec
INVARIANTS NoEventAbandoned StatusIsHonest WebhookInv
PROPERTIES Settles RetriesStop
CHECK_DEADLOCK FALSE
