SPECIFICATION FairSpec
CONSTANTS
    F_CPU = 16000000
    SPI_CLOCK_SPEED <- MCSpeeds
    TIMEOUT_POLLS = 1
    Levels = {0, 100}
    Temperatures <- MCTemperatures
    Programs <- MCPrograms
    GainsSet = {0, 7, 8}
    StepFrom = {0, 7}
    MaxTroubles = 1
INVARIANTS
    DacMatchesCopy
    TemperatureIsValid
PROPERTIES
    AdcIsAsSet
    ReadIsAnswered
