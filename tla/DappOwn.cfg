\* One login, a transaction of the dApp and one that the user approves in another tab.
SPECIFICATION Spec
CONSTANTS
    Wait <- OneCall
    Elsewhere <- OneElsewhere
    MaxConnects = 1
    MaxLogins = 1
    MaxFaults = 0
INVARIANTS ResolvesWithOwn
CHECK_DEADLOCK FALSE
