CONSTANTS
    Machines = {1, 2, 3, 4, 9}
    Group <- MCGroup
    Preferred <- MCPreferred
    Workers = 2
    MaxEvents = 1
    None = None
ACTION_CONSTRAINT SiteMachineLast
SPECIFICATION Spec
CHECK_DEADLOCK FALSE
INVARIANTS TypeOK LoopAgrees   
