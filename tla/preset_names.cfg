\* Adds, renames and removes by two concurrent callers, scheduled fairly.
CONSTANTS
    PresetIds = {p1, p2}
    Names = {n1, n2}
    Callers = {c1, c2}
    NoId = NoId
    NoName = NoName
    MaxCalls = 6
SPECIFICATION FairSpec
INVARIANTS
    DanglingNameIsPending
PROPERTIES
    NamesAreNotStolen
    RemovedNameFreed
CHECK_DEADLOCK FALSE
