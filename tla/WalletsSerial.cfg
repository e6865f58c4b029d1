\* SQLite, a party of the kernel and one of Fireblocks, four requests one at a time,
\* with what a failed or finished one has left behind.
SPECIFICATION Spec
CONSTANTS
    p1 = p1  p2 = p2  r1 = r1  r2 = r2
    Party = {p1, p2}
    Provider <- KernelAndFireblocks
    Request = {r1}
    OneConnection = TRUE
    MaxRequests = 4
    MaxRestarts = 0
    NoRow = NoRow  NoParty = NoParty  NoRequest = NoRequest
INVARIANTS PrimaryAtRest
CHECK_DEADLOCK FALSE
