CONSTANTS
    BlockSizes = {4}
    CountSkew <- MCCountSkew
    MaxHashes = 2
    FlagBytes = 1
    ForgeValues = TRUE
SPECIFICATION Spec
\* verify_proof is called once; the state after it has no successor.
CHECK_DEADLOCK FALSE
INVARIANT AcceptedProofIsSound
