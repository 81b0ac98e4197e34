\* Calls that share connections, fail, retry and hang, and shutdowns meanwhile.
CONSTANTS
    Servers = {s1, s2}
    Callers = {c1, c2}
    NoServer = NoServer
    MaxConns = 3
    MaxCalls = 3
SPECIFICATION FairSpec
INVARIANTS
    NoServerForgotten
PROPERTIES
    HealthyConnectionKept
    ShutdownReturns
    DroppedServiceCancelled
CHECK_DEADLOCK FALSE
