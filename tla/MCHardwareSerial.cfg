SPECIFICATION FairSpec
CONSTANTS
    Bytes = {1, 2}
    SERIAL_TX_BUFFER_SIZE = 3
    SERIAL_RX_BUFFER_SIZE = 3
    RX_DEPTH = 2
    Programs <- MCPrograms
INVARIANTS
    EnabledMeansData
PROPERTIES
    FlushedIsSent
    CallsReturn
    TransmitterIsQueue
    ReceiverIsQueue
