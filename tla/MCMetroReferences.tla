-------------------------- MODULE MCMetroReferences --------------------------
(***************************************************************************)
(* MetroReferences for TLC: every metro spans all failure domains.         *)
(***************************************************************************)
EXTENDS MetroReferences

MCFDsOf == [m \in Metros |-> FDs]
MCMetroOf == [s \in Sites |-> CHOOSE m \in Metros : TRUE]
MCPreferredOf == [s \in Sites |-> CHOOSE f \in FDs : TRUE]
=============================================================================
