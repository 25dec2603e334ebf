CONSTANTS
    p1 = p1
    p2 = p2
    Sidecars = {p1, p2}
    Probers = {p1}
    Info <- NewerFirst
    Quitters = {p1}
    Reapable = {p1, p2}
    MaxRetries = 2
    RecoveryAttempts = 1
    ProbeFailures = 2
    Budgets <- SmallBudgets
    l1 = l1
    l2 = l2
    Launchers = {l1, l2}
    NoLauncher = NoLauncher
    Pids = {1, 2}
    Threshold = 2
    Scenarios <- SmallScenarios
    Callers = {c1, c2, c3}
    Readers = {c1}
    ReadRetries = 1
    FailureThreshold = 2
    MaxOutages = 2
SPECIFICATION Spec
CHECK_DEADLOCK FALSE
INVARIANTS
    SoleActiveRow
    PidfileNamesGateway
    ThresholdActedOn
PROPERTIES
    TakeoverAfterCrash
    GatewayComesBack
    FollowsBackend
