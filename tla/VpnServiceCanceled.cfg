SPECIFICATION FairSpec
CONSTANTS
    Networks = {wifi}
    NoNetwork = NoNetwork
    MaxTaps = 1
    MaxChanges = 2
    MaxFailures = 0
    MaxLosses = 0
    MaxRevokes = 0
    MaxFaults = 3
PROPERTIES
    CanceledIsReplaced
CHECK_DEADLOCK FALSE
