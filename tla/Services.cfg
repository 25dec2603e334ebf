CONSTANTS
    Crons = {"nightly"}
    Hooks = {"push", "free"}
    Requests = {1, 2}
    MaxConcurrent <- OneAtATime
    MaxInFlight = 2
    Instances = {s1, s2}
    Callers = {c1, c2}
    NoOwner = NoOwner
    SpawnFails = FALSE
SPECIFICATION ServicesSpec
CHECK_DEADLOCK FALSE
INVARIANTS
    CountsExact
    OwnerOnly
    AtMostOneLateWrite
PROPERTIES
    DueCronFires
    ShutdownEndsTasks
    HandsOver
