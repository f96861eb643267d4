SPECIFICATION ExchangeSpec
CONSTANTS
    Symbols <- MCSymbols
    Keys <- MCKeys
    Secrets <- MCSecrets
    WordLike = {"k", "l", "m", "ya"}
    AddressLike = {"k", "l", "m"}
    Broken = {"!"}
    Bodies <- MCBodies
    Members = 2
    Limit = 2
    MaxFrames = 3
INVARIANT ReleasedWhole
INVARIANT RestoredAsWhole
PROPERTY EveryExchangeEnds
CHECK_DEADLOCK FALSE
