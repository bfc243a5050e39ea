CONSTANTS
    FreeCounts = {1, 2, 3, 4}
    BlockSizes = {1, 2, 3, 4}
    HashIds = {1, 2}
    FlagByteValues = {1, 128}
    MaxHashes = 2
    MaxFlagBytes = 2
SPECIFICATION Spec
CHECK_DEADLOCK FALSE
INVARIANT ParseNeverPanics
