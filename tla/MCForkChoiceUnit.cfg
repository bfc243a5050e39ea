CONSTANTS
    NoHash = NoHash
    Hashes <- MCHashes
    MaxU32 = 7
    MaxMainTip = 3
    MaxForks = 2
    CounterAtLimit = TRUE
SPECIFICATION Spec
CHECK_DEADLOCK FALSE
INVARIANT TypeOK
INVARIANT ChainRefsConsistent
INVARIANT ChainsContiguous
INVARIANT ChainIdsBelowCounter
PROPERTY ImplementsLongestChain
