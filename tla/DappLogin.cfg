\* Two connects, two logins, a logout or a broken stream, a transaction of the dApp and
\* one of another tab; the user may stop at any time.
SPECIFICATION FairSpec
CONSTANTS
    Wait <- OneCall
    Elsewhere <- OneElsewhere
    MaxConnects = 2
    MaxLogins = 2
    MaxFaults = 1
INVARIANTS TypeOK ResolvedIsExecuted
PROPERTIES LoginConnects
CHECK_DEADLOCK FALSE
