CONSTANTS
    BlockSizes = {5}
    CountSkew = {0}
    MaxHashes = 5
    FlagBytes = 1
    ForgeValues = FALSE
SPECIFICATION Spec
\* verify_proof is called once; the state after it has no successor.
CHECK_DEADLOCK FALSE
INVARIANT NeverPanics
