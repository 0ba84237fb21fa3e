CONSTANTS
    Metros = {m1}
    UUIDs = {u1, u2}
    ByName = ByName
    None = None
    UseBundle = TRUE
    DirectDelete = TRUE
    MaxFaults = 1
SPECIFICATION Spec
CHECK_DEADLOCK FALSE
ACTION_CONSTRAINT OneNewUUID
INVARIANTS TypeOK CredentialsOutliveDomains MachinesKeepCluster 
PROPERTIES KeepsOrder
