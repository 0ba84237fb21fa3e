--------------------------- MODULE MCMetroPlacement ---------------------------
(***************************************************************************)
(* MetroPlacement for TLC: the machines of one MachineSet on the metro, and *)
(* machine 9 of another one on a site of it.                               *)
(***************************************************************************)
EXTENDS MetroPlacement

MCGroup == [m \in Machines |-> IF m = 9 THEN "site" ELSE "workers"]
MCPreferred == [m \in Machines |-> IF m = 9 THEN 1 ELSE None]

\* Machine 9 shares nothing with the others but the workers: it comes last.
SiteMachineLast ==
    9 \in Machines /\ stage[9] # stage'[9] => \A m \in Machines \ {9} : stage[m] # "absent"
=============================================================================
