CONSTANTS
    Chunks = {c1}
    Slots = {w1, w2}
    ChunkItems = 1
    ChunkMaxAttempts = 1
    FailCounts = {1}
    NoObject = NoObject
    MaxCopies = 1
    Crashes = 0
    Drops = 0
    Raises = 0
    Redis = 0
    Replays = 0
    Cancels = 1
    Slow = 0
    MaxFaults = 3
    Budget <- MCBudget
SPECIFICATION Spec
SYMMETRY Symmetry
PROPERTIES TerminalIsFinal
CHECK_DEADLOCK FALSE
