CONSTANTS
    BlockSizes = {1, 2, 3, 4}
    CountSkew = {0}
    MaxHashes = 3
    FlagBytes = 1
    ForgeValues = TRUE
SPECIFICATION Spec
\* verify_proof is called once; the state after it has no successor.
CHECK_DEADLOCK FALSE
INVARIANT UniqueLeafProven
