SPECIFICATION FairSpec
CONSTANTS
    s1 = s1
    s2 = s2
    s3 = s3
    None = None
    Server = {s1, s2, s3}
    PeersOf <- MeshPeers
    LastLog <- LedLogs
    FirstLeader = s1
    Campaigner = {s2}
    MaxTerm = 2
    MaxHeartbeats = 1
PROPERTY SplitBrainHeals
CHECK_DEADLOCK FALSE
