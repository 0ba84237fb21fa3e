CONSTANTS
    VMs = {v1, v2, v3}
    ReqIDs = {k1}
    None = None
    MaxVGs = 1
    Profiles = {FALSE, TRUE}
    StaleReads = FALSE
    MaxFaults = 2
SPECIFICATION FairSpec
CHECK_DEADLOCK FALSE
INVARIANTS TypeOK
PROPERTIES KeepsContract DeletionCompletes ProvisioningCompletes
