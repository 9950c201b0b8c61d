SPECIFICATION Spec
CONSTANTS
    Chain <- JumperOnly
    UseRemoteSocks = FALSE
    Cancelers = {ui, binder}
    NoThread = NoThread
    DuringConnect = TRUE
    MaxCancels = 2
INVARIANTS
    TypeOK
    LastCancelReleases
PROPERTIES
    NoReconnectAfterCancel
    ImplementsConfig
CHECK_DEADLOCK FALSE
