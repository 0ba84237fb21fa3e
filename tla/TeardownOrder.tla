---------------------------- MODULE TeardownOrder ----------------------------
(***************************************************************************)
(* The order the parts of a cluster come and go in, without the API        *)
(* server: a part is only set up when everything it needs is there, and    *)
(* only retired when nothing that needs it is left.  Once off, nothing is  *)
(* promised any more.                                                      *)
(***************************************************************************)
CONSTANTS
    Parts, \* the parts of one cluster
    Needs, \* what each part needs, in [Parts -> SUBSET Parts]
    First  \* the parts that are there from the start

VARIABLES
    alive, \* the parts that are there
    off    \* the promise lapsed

SetUp(x) ==
    /\ x \notin alive
    /\ Needs[x] \subseteq alive
    /\ alive' = alive \cup {x}

Retire(x) ==
    /\ x \in alive
    /\ \A y \in alive : x \notin Needs[y]
    /\ alive' = alive \ {x}

OrderNext == off' \/ (~off /\ off' = off /\ \E x \in Parts : SetUp(x) \/ Retire(x))

OrderSpec == alive = First /\ ~off /\ [][OrderNext]_<<alive, off>>
=============================================================================
