CONSTANTS
    Chunks = {c1}
    Slots = {w1, w2}
    ChunkItems = 1
    ChunkMaxAttempts = 2
    FailCounts = {1}
    NoObject = NoObject
    MaxCopies = 1
    Crashes = 1
    Drops = 1
    Raises = 2
    Redis = 1
    Replays = 1
    Cancels = 0
    Slow = 1
    MaxFaults = 2
    Budget <- MCBudget
SPECIFICATION FairSpec
CONSTRAINT FewFaults
PROPERTIES Terminates
CHECK_DEADLOCK FALSE
