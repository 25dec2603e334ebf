CONSTANTS
    Sessions = {1, 2}
    MaxConns = 2
    QueueCap = 1
    InboxCap = 1
    SocketCap = 1
    Worlds <- SmallWorlds
SPECIFICATION TunnelSpec
CHECK_DEADLOCK FALSE
INVARIANTS
    NothingTruncated
    NoSessionLeft
PROPERTIES
    
    AgentComesBack
