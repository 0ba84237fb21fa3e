CONSTANTS
    VMs = {v1, v2, v3}
    ReqIDs = {}
    None = None
    MaxVGs = 0
    Original = v1
    MaxFailovers = 2
    MaxFaults = 1
SPECIFICATION FairSpec
CHECK_DEADLOCK FALSE
INVARIANTS TypeOK NoneLeftBehind
PROPERTIES LeavesDecoupled AdoptsNoDecoupled DeletionEnds
