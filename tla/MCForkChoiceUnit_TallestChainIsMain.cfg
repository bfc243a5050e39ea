CONSTANTS
    NoHash = NoHash
    Hashes <- MCHashes
    MaxU32 = 7
    MaxMainTip = 3
    MaxForks = 2
    CounterAtLimit = FALSE
SPECIFICATION Spec
CHECK_DEADLOCK FALSE
INVARIANT TallestChainIsMain
