CONSTANTS
    Drivers = {d1, d2}
    NoDriver = NoDriver
    Steps = {0, 1, 2, 3}
    Root = 0
    Items = 2
    Keys = {k1}
    NoKey = NoKey
    Plans <- SmallPlans
SPECIFICATION WorkflowSpec
CHECK_DEADLOCK FALSE
PROPERTIES ResumeResetsStatus
