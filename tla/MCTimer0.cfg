SPECIFICATION FairSpec
CONSTANTS
    TimerMod = 4
    UsPerTick = 2
    UsPerMs = 6
    FractUnit = 2
    WordMod = 32
    LowMod = 4
    MaxDelay = 2
    MaxLag = 2
INVARIANTS
    MillisIsTime
PROPERTIES
    ReadingsAreExact
    DelayIsKept
