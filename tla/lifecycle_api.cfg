\* Every operation of the API, on one agent, from two concurrent callers.
CONSTANTS
    a1 = a1
    a2 = a2
    SpecAgents <- OneAgent
    Disabled = {}
    Callers = {c1, c2}
    Senders = {s1}
    Ops = {"start_agent", "stop_agent", "start_preset", "stop_preset"}
    Cap = 1
    MaxGen = 3
    MaxCalls = 4
    MaxSends = 1
SYMMETRY CallerSymmetry
SPECIFICATION Spec
INVARIANTS
    SlotReachesLoop
    CancelledLoopKeepsFiredToken
CHECK_DEADLOCK FALSE
