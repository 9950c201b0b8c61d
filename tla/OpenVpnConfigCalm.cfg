SPECIFICATION FairSpec
CONSTANTS
    Cancelers = {ui}
    DuringConnect = FALSE
    MaxCancels = 2
    MaxConnects = 3
    MaxReconnecting = 2
INVARIANTS
    TypeOK
PROPERTIES
    ImplementsConfig
    NoConnectAfterCancel
    ProcessIsStopped
CHECK_DEADLOCK FALSE
