CONSTANTS
    MaxFaults = 3
    MaxCutovers = 3
    MaxCommands = 2
SPECIFICATION Spec
INVARIANTS OneWriter LoginKeepsIt
PROPERTIES ServedAgain
CHECK_DEADLOCK FALSE
