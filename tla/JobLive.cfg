CONSTANTS
    Jobs = {j1}
    Threads = {t1, t2}
    NoThread = NoThread
    Modes = {TRUE, FALSE}
    OwnerPerJob = TRUE
    Errors = {}
    Ops = {"cleanup", "shutdown"}
    MaxCrashes = 0
    MaxProgress = 1
    Threshold = 2
    QueueCapacity = 1
SPECIFICATION FairSpec
CHECK_DEADLOCK FALSE
PROPERTIES
    CallsReturn
    OutcomeBecomesDurable
