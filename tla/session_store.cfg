\* Appends, crashes and loads in any order.
CONSTANTS
    m1 = m1
    m2 = m2
    k1 = k1
    k2 = k2
    Entries = {m1, m2, k1, k2}
    Header = Header
    NoEntry = NoEntry
    FirstKept <- Compactions
    MaxFaults = 3
SPECIFICATION SessionSpec
INVARIANTS
    AckedEntriesKept
    ContextIsCurrent
PROPERTIES
    ImplementsLog
CHECK_DEADLOCK FALSE
