SPECIFICATION FairSpecOpenVpn
CONSTANTS
    Networks = {wifi}
    NoNetwork = NoNetwork
    MaxTaps = 1
    MaxChanges = 0
    MaxFailures = 0
    MaxLosses = 1
    MaxRevokes = 0
    MaxFaults = 1
    MaxReports = 2
PROPERTIES
    ReconnectIsHeard
CHECK_DEADLOCK FALSE
