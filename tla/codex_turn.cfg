SPECIFICATION TurnSpec
CONSTANTS
    NoScope = none
    account1 = account1
    account2 = account2
    Scopes <- Accounts
    MaxTurns = 3
    MaxCalls = 2
    MaxItems = 2
    MaxFragments = 2
    MaxRecords = 2
    MaxForks = 1
INVARIANT EchoMatches
INVARIANT ReplayExact
PROPERTY OneBlockAtATime
SYMMETRY Symmetry
CHECK_DEADLOCK FALSE
