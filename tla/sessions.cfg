CONSTANTS
    s1 = s1
    s2 = s2
    blue = blue
    green = green
    r1 = r1
    r2 = r2
    p1 = p1
    p2 = p2
    x1 = x1
    a1 = a1
    a2 = a2
    a3 = a3
    Names <- MCNames
    Processes <- MCProcesses
    Requests <- MCRequests
    Plain <- MCPlain
    Explicit <- MCExplicit
    Invented <- MCInvented
    MaxText = 2
    MaxRequests = 3
    MaxFaults = 2
SPECIFICATION Spec
INVARIANTS Readable SentStays ComesBack
SYMMETRY Symmetry
CHECK_DEADLOCK FALSE
