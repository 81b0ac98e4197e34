\* Edits, batches, saves and reloads of two presets by two concurrent callers, across restarts.
CONSTANTS
    PresetIds = {p1, p2}
    AgentIds = {a1, a2, a3}
    Callers = {c1, c2}
    Ops = {"add_preset", "load_preset", "save_preset", "restart", "remove_preset", "add_agent", "remove_agent", "add_connection", "remove_connection", "add_batch"}
    NoPreset = NoPreset
    NoAgent = NoAgent
    MaxCalls = 5
    MaxConns = 2
SYMMETRY Symmetry
SPECIFICATION Spec
INVARIANTS
    AgentKnownToPreset
    SpecConnectionRouted
PROPERTIES
    BatchAllOrNothing
CHECK_DEADLOCK FALSE
