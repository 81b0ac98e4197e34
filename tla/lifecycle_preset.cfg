\* Preset::start and Preset::stop on two agents, under fair scheduling.
CONSTANTS
    a1 = a1
    a2 = a2
    SpecAgents <- TwoAgents
    Disabled = {}
    Callers = {c1, c2}
    Senders = {s1}
    Ops = {"start_preset", "stop_preset"}
    Cap = 1
    MaxGen = 3
    MaxCalls = 3
    MaxSends = 1
SPECIFICATION FairSpec
INVARIANTS
    PresetStopSilencesLoops
PROPERTIES
    StopReturns
    CancelledLoopEnds
CHECK_DEADLOCK FALSE
