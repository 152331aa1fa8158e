SPECIFICATION Spec
CONSTANTS
    h1 = h1
    h2 = h2
    None = None
    Hash = {h1, h2}
    SizeOf <- Sizes
    FileId = {f1, f2, f3}
    Uploader = {u1, u2}
    Reader = {r1, r2}
    BadRanges = {h2}
    MaxReplicas = 3
    MaxOpen = 3
SYMMETRY Symmetry
INVARIANTS TypeOK SizeAccounted OpenedStaysStored ReadersCountedOut
