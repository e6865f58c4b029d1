CONSTANTS
    p1 = p1
    p2 = p2
    c1 = c1
    c2 = c2
    hosted = hosted
    external = external
    Calls = {p1, p2}
    Command = {c1}
    CommandOf <- OneId
    Tabs = {t1, t2}
    Wallet = {external}
    Custody <- AllExternal
    OneConnection = TRUE
    MaxClicks = 3
    MaxSwitches = 0
    MaxLost = 1
    MaxRestarts = 1
    NoRow = NoRow
    NoWallet = NoWallet
    NoCall = NoCall
SPECIFICATION Spec
INVARIANTS
    CommittedWasApproved
PROPERTIES
    ImplementsApproval
SYMMETRY TabSymmetry
CHECK_DEADLOCK FALSE
