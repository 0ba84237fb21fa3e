CONSTANTS
    c1 = c1
    c2 = c2
    m1 = m1
    m2 = m2
    m3 = m3
    m4 = m4
    P = P
    Q = Q
    R = R
    Clusters = {c1, c2}
    Machines = {m1, m2, m3, m4}
    Projects = {P, Q, R}
    ClusterOf <- ClusterOfDef
    Project <- ProjectDef
    Policy <- PolicyDef
    SharedWith <- SharedDef
    Shared = {R}
    Version <- VersionDef
    None = None
    MaxFaults = 2
SPECIFICATION Spec
CHECK_DEADLOCK FALSE
INVARIANTS CategoriesCollected MarkedIsCollected NoneFailsForGood
PROPERTIES MarkedIsKept
