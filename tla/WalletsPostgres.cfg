\* PostgreSQL, two parties of the participant, one request.
SPECIFICATION Spec
CONSTANTS
    p1 = p1  p2 = p2  r1 = r1  r2 = r2
    Party = {p1, p2}
    Provider <- TwoParticipant
    Request = {r1}
    OneConnection = FALSE
    MaxRequests = 1
    MaxRestarts = 0
    NoRow = NoRow  NoParty = NoParty  NoRequest = NoRequest
INVARIANTS FoundIsStored
SYMMETRY WalletsSymmetry
CHECK_DEADLOCK FALSE
