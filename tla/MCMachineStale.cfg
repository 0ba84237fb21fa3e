CONSTANTS
    VMs = {v1, v2}
    ReqIDs = {k1, k2}
    None = None
    MaxVGs = 1
    Profiles = {FALSE, TRUE}
    StaleReads = TRUE
    MaxFaults = 2
SPECIFICATION Spec
SYMMETRY Symmetry
CHECK_DEADLOCK FALSE
INVARIANTS AtMostOneVM RecordedVMGone DetachBeforeDelete
PROPERTIES KeepsPromise
