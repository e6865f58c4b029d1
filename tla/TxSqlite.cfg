CONSTANTS
    p1 = p1
    p2 = p2
    c1 = c1
    c2 = c2
    hosted = hosted
    external = external
    Calls = {p1, p2}
    Command = {c1, c2}
    CommandOf <- FreshIds
    Tabs = {t1}
    Wallet = {hosted, external}
    Custody <- MixedCustody
    OneConnection = TRUE
    MaxClicks = 3
    MaxSwitches = 1
    MaxLost = 1
    MaxRestarts = 1
    NoRow = NoRow
    NoWallet = NoWallet
    NoCall = NoCall
SPECIFICATION FairSpec
PROPERTIES
    ExecutedSticks
    CommittedIsRecorded
INVARIANTS
    TypeOK
    ExecutedIsCommitted
    StoreNeverConflicts
    PageFindsTransaction
CHECK_DEADLOCK FALSE
