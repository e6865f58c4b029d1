CONSTANTS
    Contract = {c}
    MaxOffset = 3
    Callers = {p, q}
    MaxUpdates = 2
    MaxEvents = 2
    SafeDelta = 1
    MaxCalls = 4
    OverSocket = FALSE
    NoAcs = NoAcs
SPECIFICATION OrderedSpec
INVARIANTS
    ExactAtOffset
CHECK_DEADLOCK FALSE
