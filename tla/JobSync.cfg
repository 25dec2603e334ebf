CONSTANTS
    Jobs = {j1, j2}
    Threads = {t1, t2}
    NoThread = NoThread
    Modes = {TRUE}
    OwnerPerJob = TRUE
    Errors = {}
    Ops = {"cancel", "gc", "output"}
    MaxCrashes = 2
    MaxProgress = 0
    Threshold = 2
    QueueCapacity = 1
SPECIFICATION Spec
SYMMETRY Symmetry
CHECK_DEADLOCK FALSE
INVARIANTS
    NotifiedIsDurable
    NeverLost
PROPERTIES
    EventsInOrder
