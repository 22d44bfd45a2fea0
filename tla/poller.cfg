SPECIFICATION FairSpec
CONSTANTS
    j1 = j1
    j2 = j2
    j3 = j3
    Jobs = {j1, j2, j3}
    MaxConcurrent = 2
    FlushBatch = 2
    HasFallback = TRUE
    PostTime = 1
    MaxAge = 3
    MaxFails = 2
INVARIANTS
    TypeOK
    TickAccountsForEveryJob
    ClosedAfterSends
    OneCallLost
    WaitsOnlyForPosts
PROPERTIES
    TickEnds
    StopsWhenCancelled
CHECK_DEADLOCK FALSE
