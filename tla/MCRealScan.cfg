SPECIFICATION HSpec
CONSTANTS
    CodeMod = 256
    WordMod = 65536
    TimeMod = 1000
    V_SCAN_MAX = 100
    MAX_ERROR_READS = 20
    MIN_CURRENT = 200
    MAX_CURRENT = 65535
    Params <- MCParams
    DefaultParams <- MCDefault
    LoopTimes <- MCLoopTimes
    DacWriteTimes <- MCDacWriteTimes
    Curve <- MCCurve
    QuietCap = 200
PROPERTIES
    NonHillScanFails
