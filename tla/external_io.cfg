\* Queues of one and two writes: w can fail while its own output fills the queue of the message loop.
CONSTANTS
    SpecAgents <- NodeOrder
    Kind <- KindOf
    Connections <- Edges
    FirstName <- NamesOf
    AsName <- AsNames
    NoName = "none"
    WriteChannels <- Written
    Running = {"in", "w", "out"}
    Callers = {"u","v"}
    Starts <- StartCalls
    Stops <- StopCalls
    Renames <- RenameCalls
    CentralCap = 1
    MailCap = 1
    MaxWrites = 2
    MaxOps = 2
SPECIFICATION Spec
INVARIANTS
    RegisteredOnce
PROPERTIES
    InWrittenOrder
    EveryWriteRouted

CHECK_DEADLOCK FALSE
