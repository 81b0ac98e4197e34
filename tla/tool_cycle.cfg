\* Two chats that call a preset tool, in flows of their own.
CONSTANTS
    c1 = c1
    c2 = c2
    f1 = f1
    f2 = f2
    n1 = n1
    n2 = n2
    a1 = a1
    a2 = a2
    Agents = {a1}
    Names = {n1, n2}
    Flows = {f1, f2}
    Callers = {c1, c2}
    FlowOf <- OwnFlows
    Abortable = {f1}
    NoAgent = NoAgent
    NoCaller = NoCaller
    MaxCalls = 2
    MaxEdits = 2
    MaxIterations = 1
    MaxTracked = 1
    MaxTurns = 3
    MaxRepeats = 1
SPECIFICATION FairCycleSpec
INVARIANTS
    WaitersMatched
    IterationsBounded
PROPERTIES
    AnswerReachesOwnCall
    CallsEnd
CHECK_DEADLOCK FALSE
