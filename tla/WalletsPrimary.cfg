\* SQLite, two parties with keys of Blockdaemon, two requests at the same time.
SPECIFICATION Spec
CONSTANTS
    p1 = p1  p2 = p2  r1 = r1  r2 = r2
    Party = {p1, p2}
    Provider <- TwoBlockdaemon
    Request = {r1, r2}
    OneConnection = TRUE
    MaxRequests = 2
    MaxRestarts = 0
    NoRow = NoRow  NoParty = NoParty  NoRequest = NoRequest
INVARIANTS PrimaryAtRest
SYMMETRY WalletsSymmetry
CHECK_DEADLOCK FALSE
