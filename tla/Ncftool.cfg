SPECIFICATION Spec
CONSTANTS
    None = None
    Names <- AllNames
    Confs <- AllConfs
    MaxCommands = 2
    MaxFailures = 1
    MaxForeign = 2
CHECK_DEADLOCK FALSE
INVARIANTS
    TypeOK
    ArrayLargeEnough
    BridgeOrder
    PrintsOwnError
    ExitStatus
PROPERTIES
    ListTrue
    PortsRan
    CommandReturns
