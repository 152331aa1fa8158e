SPECIFICATION FairSpec
CONSTANTS
    n1 = n1
    n2 = n2
    n3 = n3
    n4 = n4
    None = None
    Node = {n1, n2, n3, n4}
    DiskOf <- Spaces
    Id = {i1, i2}
    MaxHandlers = 2
INVARIANTS KnownIsOffered IdNamesNode SteadyFirstIsMost PopsInOrder
PROPERTY NodeRegistered
