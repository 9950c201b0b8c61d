SPECIFICATION FairSpec
CONSTANTS
    Half = 8
    NoPacket = NoPacket
    Segments <- Single
    FirstSeq = 0
    MaxReceived = 3
PROPERTIES
    PutIsPolled
CHECK_DEADLOCK FALSE
