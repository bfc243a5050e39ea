CONSTANTS
    FreeCounts = {1, 2, 3, 4, 300}
    BlockSizes = {1, 2, 3, 4, 5, 9, 17, 33}
    HashIds = {1, 2}
    FlagByteValues = {1, 128}
    MaxHashes = 2
    MaxFlagBytes = 2
SPECIFICATION Spec
CHECK_DEADLOCK FALSE
INVARIANT TypeOK
INVARIANT ParseRoundTrip
INVARIANT ParsedHonestProofVerifies
