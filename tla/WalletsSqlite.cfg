\* SQLite, two parties with keys of Blockdaemon, two requests at a time of three;
\* the user may stop at any time.
SPECIFICATION Spec
CONSTANTS
    p1 = p1  p2 = p2  r1 = r1  r2 = r2
    Party = {p1, p2}
    Provider <- TwoBlockdaemon
    Request = {r1, r2}
    OneConnection = TRUE
    MaxRequests = 3
    MaxRestarts = 1
    NoRow = NoRow  NoParty = NoParty  NoRequest = NoRequest
INVARIANTS TypeOK AllocatedIsHosted FirstIsPrimary FoundIsStored
SYMMETRY WalletsSymmetry
CHECK_DEADLOCK FALSE
