SPECIFICATION Spec
CONSTANTS
    mine1 = mine1  mine2 = mine2  theirs = theirs  instruction = instruction
    rules = rules  x = x  y = y
    Contract = {mine1, mine2, theirs, instruction, rules}
    About <- Contracts
    Command = {a, b}
    None = None
    Budgets <- OnlyStream
    MaxTries = 2  PageLimit = 1  ScanLimit = 2
INVARIANTS FailureIsThrown
CHECK_DEADLOCK FALSE
