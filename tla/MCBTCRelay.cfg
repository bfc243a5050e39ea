CONSTANTS
    g = g
    a = a
    b = b
    c = c
    d = d
    e = e
    f = f
    Hashes = {g, a, b, c, d, e, f}
    NoHash = NoHash
    MaxU32 = 3
    Parent <- MCParent
    InitHeights = {0, 1}
    ErrorKinds = {"NoDataBTCRelay", "InvalidBTCRelay", "Other"}
SPECIFICATION Spec
INVARIANT TypeOK
PROPERTY ImplementsHeaderTree
