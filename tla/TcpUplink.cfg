SPECIFICATION Spec
CONSTANTS
    Half = 8
    NoPacket = NoPacket
    Segments <- Recut
    FirstSeq <- NearZero
    MaxReceived = 6
INVARIANTS
    TypeOK
    PollReturnsPacket
    StreamIsPrefix
    AckedIsKept
CHECK_DEADLOCK FALSE
