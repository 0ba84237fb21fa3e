-------------------------- MODULE MCNutanixMachine --------------------------
(***************************************************************************)
(* NutanixMachine with small sets for TLC.  The VM UUIDs and the request   *)
(* ids are interchangeable, so safety runs use their permutations.         *)
(***************************************************************************)
EXTENDS NutanixMachine, TLC

Symmetry == Permutations(VMs) \cup Permutations(ReqIDs)
=============================================================================
