SPECIFICATION Spec
CONSTANTS
    Networks = {wifi, mobile}
    NoNetwork = NoNetwork
    MaxTaps = 2
    MaxChanges = 2
    MaxFailures = 1
    MaxLosses = 1
    MaxRevokes = 1
    MaxFaults = 3
INVARIANTS
    TypeOK
    StoppedNeverDials
    RetryNeverLost
    BackoffShape
    LateConnectIsCanceled
    NoOrphanConfig
PROPERTIES
    StopIsFinal
SYMMETRY NetworkSymmetry
CHECK_DEADLOCK FALSE
