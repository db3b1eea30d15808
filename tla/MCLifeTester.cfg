SPECIFICATION LSpec
CONSTANTS
    new = new
    default = default
    zero = zero
    Params <- MCParams
    NewParams = new
    DefaultParams = default
    ZeroParams = zero
    MaxHandlers = 1
    Tasks <- MCTasks
    MaxTroubles = 2
INVARIANTS
    NoPollLeftOver
PROPERTIES
    TaskIsDone
    MisledOnlyWhenStranded
    MasterIsServed
