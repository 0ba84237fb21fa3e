CONSTANTS
    Machines = {1}
    Group <- MCGroup
    Preferred <- MCPreferred
    Workers = 1
    MaxEvents = 1
    None = None
SPECIFICATION Spec
CHECK_DEADLOCK FALSE
INVARIANTS RecoveryMeansPaired
