SPECIFICATION FairSpec
CONSTANTS
    CodeMod = 4
    WordMod = 32
    TimeMod = 8
    V_SCAN_MAX = 2
    MAX_ERROR_READS = 1
    MIN_CURRENT = 2
    MAX_CURRENT = 6
    Params <- MCParams
    DefaultParams <- MCDefault
    LoopTimes <- MCLoopTimes
    DacWriteTimes <- MCDacWriteTimes
    Curve <- MCCurve
PROPERTIES
    TracksOrFails
