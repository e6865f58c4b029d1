\* Two connects of a dApp whose user logs in once.
SPECIFICATION FairSpec
CONSTANTS
    Wait = {}
    Elsewhere = {}
    MaxConnects = 2
    MaxLogins = 1
    MaxFaults = 0
PROPERTIES AuthenticatedConnects
CHECK_DEADLOCK FALSE
