CONSTANTS
    BlockSize = 2
    MaxBytes = 6
    Sizes <- MCSizes
    Indices = {0, 2}
    NoIndex = NoIndex
    NoObject = NoObject
    Unknown = Unknown
SPECIFICATION Spec
INVARIANTS TypeOK RangeExact TotalIsCount PlanCovers OneResultPerLine NumberedInOrder
CHECK_DEADLOCK FALSE
