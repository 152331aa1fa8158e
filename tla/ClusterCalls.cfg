SPECIFICATION Spec
CONSTANTS
    p1 = p1
    p2 = p2
    p3 = p3
    h1 = h1
    h2 = h2
    h3 = h3
    None = None
    Path = {p1, p2, p3}
    Hash = {h1, h2, h3}
    NodeId = {n1, n2}
    UploadId = {u1, u2}
    FileId = {f1, f2}
    Deleter = {d1, d2}
    Content <- Some
    MaxPosts = 3
    LostReplies = {h3}
VIEW Reachable
SYMMETRY Symmetry
CHECK_DEADLOCK FALSE
INVARIANTS OneUploadPerPath  HostNotEmpty
 
