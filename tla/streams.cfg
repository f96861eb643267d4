SPECIFICATION Spec
CONSTANTS
    Members = 2
    MaxCalls = 2
    MaxItems = 2
    Settings <- MCSettings
INVARIANT EndIsTold
PROPERTY LiveNotCut
PROPERTY NotRepeated
PROPERTY SilentUpstreamEnds
CHECK_DEADLOCK FALSE
