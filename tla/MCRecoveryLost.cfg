CONSTANTS
    VMs = {v1, v2, v3}
    ReqIDs = {}
    None = None
    MaxVGs = 0
    Original = v1
    MaxFailovers = 2
    MaxFaults = 0
SPECIFICATION FairSpec
CHECK_DEADLOCK FALSE
PROPERTY NoneOverlooked
