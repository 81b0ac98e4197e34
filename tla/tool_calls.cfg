\* Parallel, sequential and unknown tools, re-delivered messages, aborts and stops.
CONSTANTS
    plain = plain
    other = other
    c1 = c1
    c2 = c2
    Names = {plain, other}
    Flows = {f1, f2}
    Ids = {c1, c2}
    Messages <- SmallMessages
    Filters <- SmallFilters
    MaxConcurrency = 2
    MaxTracked = 1
    NoFlow = NoFlow
    NoId = NoId
    MaxMessages = 2
    MaxRegistry = 1
SPECIFICATION FairSpec
INVARIANTS
    OneResultPerCall
    BarriersHold
    ExecutedOnce
    FinishedParallelCallReported
PROPERTIES
    NoStartAfterAbort
    AbortEndsCalls
CHECK_DEADLOCK FALSE
