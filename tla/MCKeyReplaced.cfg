CONSTANTS
    VMs = {v1, v2}
    ReqIDs = {k1, k2}
    None = None
    MaxVGs = 0
    Profiles = {FALSE}
    StaleReads = TRUE
    MaxFaults = 1
SPECIFICATION Spec
CHECK_DEADLOCK FALSE
PROPERTIES KeyIsStable
