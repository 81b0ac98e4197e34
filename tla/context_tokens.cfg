\* Flows that fan out, meet again, finish and are aborted.
CONSTANTS
    a1 = a1
    a2 = a2
    Agents = {a1, a2}
    Flows = {f1, f2, f3}
    Entry <- FanOut
    Targets <- Cyclic
    Threshold = 1
    NoFlow = NoFlow
    MaxSends = 4
SYMMETRY FlowSymmetry
SPECIFICATION TokenSpec
INVARIANTS
    OneTokenPerFlow
PROPERTIES
    AbortReachesFlow
    PrunedBeyondThreshold
CHECK_DEADLOCK FALSE
