CONSTANTS
    Contract = {c}
    MaxOffset = 3
    Callers = {p, q}
    MaxUpdates = 2
    MaxEvents = 2
    SafeDelta = 1
    MaxCalls = 4
    OverSocket = TRUE
    NoAcs = NoAcs
SPECIFICATION FairSpec
INVARIANTS
    TypeOK
    NothingFromTheFuture
PROPERTIES
    EveryCallSettles
CHECK_DEADLOCK FALSE
