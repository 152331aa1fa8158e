SPECIFICATION Spec
CONSTANTS
    s1 = s1
    s2 = s2
    s3 = s3
    x = x
    y = y
    z = z
    n = n
    None = None
    Founders <- Three
    Joiner = {x, y, z}
    NodeId = {n}
    Contact <- Addr
    MaxTerm <- Terms
    MaxCalls = 1
SYMMETRY Symmetry
INVARIANTS LoggedArePeers StaleOnlyAfterCut TwiceOnlyAfterCut
PROPERTY OnlyOwnEntriesCut
CHECK_DEADLOCK FALSE
