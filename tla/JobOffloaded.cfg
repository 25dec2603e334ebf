CONSTANTS
    Jobs = {j1}
    Threads = {t1, t2}
    NoThread = NoThread
    Modes = {FALSE}
    OwnerPerJob = TRUE
    Errors = {e1}
    Ops = {"cleanup", "gc", "timeout", "shutdown", "retention"}
    MaxCrashes = 1
    MaxProgress = 1
    Threshold = 2
    QueueCapacity = 2
SPECIFICATION Spec
CHECK_DEADLOCK FALSE
INVARIANTS
    DrainLosesNothing
PROPERTIES
    RowsFollowLedger
