CONSTANTS
    Machines = {1, 2, 3}
    MaxEvents = 2
    None = None
SPECIFICATION FairSpec
ACTION_CONSTRAINT OneKindBehind
CHECK_DEADLOCK FALSE
INVARIANTS ScaleDownBalances VictimsFit
PROPERTIES OperatorMarkStays MarksSettle
