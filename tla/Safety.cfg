CONSTANTS
    Chunks = {c1, c2}
    Slots = {w1, w2}
    ChunkItems = 1
    ChunkMaxAttempts = 2
    FailCounts = {1}
    NoObject = NoObject
    MaxCopies = 1
    Crashes = 1
    Drops = 1
    Raises = 2
    Redis = 1
    Replays = 1
    Cancels = 1
    Slow = 1
    MaxFaults = 2
    Budget <- MCBudget
SPECIFICATION Spec
SYMMETRY Symmetry
CONSTRAINT FewFaults
INVARIANTS TypeOK CheckpointBeforeSuccess ProgressEarned ResultsWhole RecoveryArmed CheckpointInv
PROPERTIES FailsWithAChunk KeepsBatchPromise
CHECK_DEADLOCK FALSE
