SPECIFICATION FairSpec
CONSTANTS
    p1 = p1
    p2 = p2
    Params <- MCParams
    MaxHandlers = 1
INVARIANTS
    ReadyMeansDone
    ReadyDataIsComplete
PROPERTIES
    BusyCommandIsKept
    CarriedOutOnce
    BusyEnds
