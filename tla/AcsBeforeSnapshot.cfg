CONSTANTS
    Contract = {c}
    MaxOffset = 3
    Callers = {p, q}
    MaxUpdates = 2
    MaxEvents = 2
    SafeDelta = 1
    MaxCalls = 3
    OverSocket = FALSE
    NoAcs = NoAcs
SPECIFICATION Spec
INVARIANTS
    NeverBeforeSnapshot
CHECK_DEADLOCK FALSE
