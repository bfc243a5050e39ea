CONSTANTS
    BlockSizes = {1, 2, 3, 4, 5, 6, 7}
    CountSkew = {0}
    MaxHashes = 3
    FlagBytes = 1
    ForgeValues = TRUE
SPECIFICATION Spec
\* verify_proof is called once; the state after it has no successor.
CHECK_DEADLOCK FALSE
INVARIANT TypeOK
INVARIANT HonestProofVerifies
INVARIANT AcceptedProofIsSound
