SPECIFICATION HSpec
CONSTANTS
    CodeMod = 5
    WordMod = 32
    TimeMod = 6
    V_SCAN_MAX = 3
    MAX_ERROR_READS = 1
    MIN_CURRENT = 2
    MAX_CURRENT = 4
    Params <- MCParams
    DefaultParams <- MCDefault
    LoopTimes <- MCLoopTimes
    DacWriteTimes <- MCDacWriteTimes
    Curve <- MCCurve
    QuietCap = 3
INVARIANTS
    SafeWhenNotRunning
    DrivesMeasuredPoint
    WithinErrorBudget
    ComparedPowersAreCurrent
    ErrorReadsAreInSuccession
PROPERTIES
    ImplementsModes
    ReadingsAreSettled
    ScanFindsPeak
