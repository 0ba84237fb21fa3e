CONSTANTS
    FDs = {f1}
    Metros = {m1}
    Sites = {s1}
    MDs = {d1}
    NCs = {}
    Machines = {x1}
    FDsOf <- MCFDsOf
    MetroOf <- MCMetroOf
    PreferredOf <- MCPreferredOf
    MaxLag = 1
SPECIFICATION FairSpec
CHECK_DEADLOCK FALSE
INVARIANTS TypeOK
PROPERTIES HeldWhileUsed UnusedIsReleased ValidatedOrMissing
