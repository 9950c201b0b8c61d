SPECIFICATION FairSpec
CONSTANTS
    Chain <- JumperOnly
    UseRemoteSocks = TRUE
    Cancelers = {ui, binder}
    NoThread = NoThread
    DuringConnect = FALSE
    MaxCancels = 2
INVARIANTS
    PortsReleased
PROPERTIES
    CancelEnds
CHECK_DEADLOCK FALSE
