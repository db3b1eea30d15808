SPECIFICATION FairSpec
CONSTANTS
    BUFFER_LENGTH = 2
    MASTER_LENGTH = 4
    Messages <- MCMessages
    Replies <- MCReplies
    Quantities = {1, 3, 5}
    MaxTroubles = 1
INVARIANTS
    SentMessageIsKept
    HandlerGetsPrefix
    ReadIsAnswer
    SlaveListens
PROPERTIES
    CallsReturn
