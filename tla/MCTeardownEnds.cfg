CONSTANTS
    Metros = {m1}
    UUIDs = {u1, u2}
    ByName = ByName
    None = None
    UseBundle = FALSE
    DirectDelete = FALSE
    MaxFaults = 1
SPECIFICATION FairSpec
CHECK_DEADLOCK FALSE
ACTION_CONSTRAINT OneNewUUID
PROPERTIES TeardownEndsOrWedges ProtectedWhileUsed DomainHeals
