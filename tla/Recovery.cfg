CONSTANTS
    Drivers = {d1, d2}
    NoDriver = NoDriver
    Steps = {0, 1, 2, 3}
    Root = 0
    Items = 2
    Keys = {k1}
    NoKey = NoKey
    Plans <- SmallPlans
    N = 2
    MaxGen = 3
    Includes <- SiblingLater
    Installations <- SmallInstallations
    Spares = 2
    MaxStages = 2
    MaxAborts = 2
    MaxFaults = 1
SPECIFICATION Spec
CHECK_DEADLOCK FALSE
INVARIANTS
    DrivenOrSettled
    GateHasWaiter
    NothingBehindGate
    CompletedTookEffect
    OriginalKept
    ReexecIsProgress
PROPERTIES
    DriverEnds
    AllOrNothing
    TransactionSettles
