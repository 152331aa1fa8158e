SPECIFICATION FairSpec
CONSTANTS
    i1 = i1
    i2 = i2
    i3 = i3
    NoCall = NoCall
    Call = {c1, c2}
    Id = {i1, i2, i3}
    UploadId = {u1}
    Lapsing = {i1, i2}
    MaxLeaks = 1
INVARIANT QueueIsMap
PROPERTIES UsedLinksStay LoneExpiredGoes CallsReturnOrLockLost
CHECK_DEADLOCK FALSE
