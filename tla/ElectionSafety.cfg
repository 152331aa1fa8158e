SPECIFICATION Spec
CONSTANTS
    s1 = s1
    s2 = s2
    s3 = s3
    None = None
    Server = {s1, s2, s3}
    PeersOf <- StarPeers
    LastLog <- EmptyLogs
    FirstLeader = None
    Campaigner = {s2, s3}
    MaxTerm = 1
    MaxHeartbeats = 1
INVARIANT ElectionSafety
CHECK_DEADLOCK FALSE
