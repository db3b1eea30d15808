SPECIFICATION FairSpec
CONSTANTS
    Pins = {3, 4, 5, 7}
    HandlerPins = {7}
    AnalogPins = {0, 15}
    Duties = {0, 100, 255}
    F_CPU = 16000000
    TonePins = {3, 4}
    Tones <- MCTones
    LedPin = 5
    MillisMod = 6
    FlashMod = 4
    FlashTimes <- MCFlashTimes
    FlashCounts <- MCFlashCounts
    MaxUpdateGap = 1
    MaxLedCalls = 3
    Lines = {0, 1}
    UserFuncs = {"f", "g"}
    MaxBegins = 1
    Programs <- MCPrograms
    ProgramPins = {3}
INVARIANTS
    PinsAreDriven
    ToneIsAsAsked
    EventsAreHandled
    TransactionsAreExclusive
PROPERTIES
    FlashesAsAsked
