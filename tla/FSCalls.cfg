SPECIFICATION Spec
CONSTANTS
    a = a
    b = b
    aa = aa
    None = None
    Path = {a, aa, b}
    Loc = {a, b}
    LocOf <- WalksTo
    CanonicalPath = {a, b}
    Hash = {h1, h2}
    FileId = {f1, f2, f3}
    Deleter = {d1, d2}
    MaxRequests = 3
    MaxReplicas = 2
SYMMETRY Symmetry
VIEW Reachable
INVARIANTS TypeOK 
PROPERTIES  NamespaceSpec
