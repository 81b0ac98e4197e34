\* Two clients, one agent and one more to add; a ring of two records.
CONSTANTS
    Agents = {a1, a2}
    Clients = {c1, c2}
    Declared <- DeclaredConfigs
    Generated <- GeneratedKeys
    GlobalKeys = {"secret"}
    Parked <- ParkedNames
    Routed = {"c0", "n", "stray"}
    OldSpecs <- OldFiles
    Patches <- AskedConfigs
    CfgMailCap = 2
    MaxEdits = 5
    Pollers = {"p", "q"}
    PollKind <- PollKinds
    Filter <- Filters
    NoFilter = "any"
    NoPreset = "unknown"
    EventCap = 2
    RingCap = 2
    PollLimit = 1
    Events <- RuntimeEvents
    MaxEvents = 6
    MaxServers = 2
SPECIFICATION ServerSpec
INVARIANTS
    PagingExact
    ValueIsLastWritten
    OnlyValidAgents
CHECK_DEADLOCK FALSE
