SPECIFICATION FairSpec
CONSTANTS
    Networks = {wifi}
    NoNetwork = NoNetwork
    MaxTaps = 2
    MaxChanges = 2
    MaxFailures = 1
    MaxLosses = 1
    MaxRevokes = 1
    MaxFaults = 2
PROPERTIES
    RetryEnds
    DisconnectEnds
    ConnectEnds
    UserDisconnectHappens
    NetworkErrorEnds
    LossIsNoticed
CHECK_DEADLOCK FALSE
