SPECIFICATION FairSpec
CONSTANTS
    Clients <- Three
    NoData = NoData
    MAX_CLIENT_ID = 1
    ByteHalf = 1
    MaxPackets = 3
    MaxAnswers = 1
INVARIANTS
    TypeOK
    AnswerGoesToItsClient
    OneIdPerClient
PROPERTIES
    QueuedIsTaken
    ClosedEnds
CHECK_DEADLOCK FALSE
