SPECIFICATION Spec
CONSTANTS
    mine1 = mine1  mine2 = mine2  theirs = theirs  instruction = instruction
    rules = rules  x = x  y = y
    Contract = {mine1, mine2, theirs, instruction, rules}
    About <- Contracts
    Command = {a, b}
    None = None
    Budgets <- Mixed
    MaxTries = 2  PageLimit = 1  ScanLimit = 2
INVARIANTS TypeOK ToldIsLedger NothingSkipped ReadsItsWrite PartyIsAwaited
    EachTransactionOnce StreamTellsAll
PROPERTIES PollsEnd ScanEnds
CHECK_DEADLOCK FALSE
