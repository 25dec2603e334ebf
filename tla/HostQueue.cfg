CONSTANTS
    Jobs = {j1, j2, j3}
    Posters = {p1, p2}
    NoJob = NoJob
    Capacity = 1
    MaxJobs = 1
SPECIFICATION FairSpec
CHECK_DEADLOCK FALSE
INVARIANTS
    PendingAccounts
    DepthBound
PROPERTIES
    PostsAnswered
