SPECIFICATION FairSpec
CONSTANTS
    f1 = f1
    f2 = f2
    s1 = s1
    s2 = s2
    Leader = m0
    Follower = {f1, f2}
    NodeId = {n1}
    Slot = {s1, s2}
    SlotOf <- Overlapping
    LeaderTerm = 1
CHECK_DEADLOCK FALSE
INVARIANTS
    TypeOK
    LogPrefix
    IndicesInLogs
    OnlyExecutorBlocks
    PeersCountedOnce
PROPERTIES
    CommitHeldByMajority
    EntriesCommitted
