SPECIFICATION Spec
CONSTANTS
    Networks = {wifi}
    NoNetwork = NoNetwork
    MaxTaps = 1
    MaxChanges = 0
    MaxFailures = 0
    MaxLosses = 0
    MaxRevokes = 1
    MaxFaults = 1
INVARIANTS
    DisconnectedIsTrue
CHECK_DEADLOCK FALSE
