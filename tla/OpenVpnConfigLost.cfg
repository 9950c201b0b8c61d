SPECIFICATION FairSpec
CONSTANTS
    Cancelers = {ui}
    DuringConnect = FALSE
    MaxCancels = 2
    MaxConnects = 3
    MaxReconnecting = 2
PROPERTIES
    LostSessionIsRepaired
CHECK_DEADLOCK FALSE
