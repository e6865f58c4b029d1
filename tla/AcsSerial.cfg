CONSTANTS
    Contract = {c1, c2}
    MaxOffset = 4
    Callers = {p}
    MaxUpdates = 2
    MaxEvents = 2
    SafeDelta = 1
    MaxCalls = 4
    OverSocket = FALSE
    NoAcs = NoAcs
SPECIFICATION FairSpec
INVARIANTS
    CacheInv
PROPERTIES
    ImplementsOracle
CHECK_DEADLOCK FALSE
