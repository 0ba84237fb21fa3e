-------------------------- MODULE MCClusterTeardown -------------------------
(***************************************************************************)
(* ClusterTeardown with small sets for TLC.  UUIDs are only compared, and  *)
(* only with those of the same resource: of the UUIDs that nobody refers   *)
(* to, one stands for all.                                                 *)
(***************************************************************************)
EXTENDS ClusterTeardown

OneNewUUID ==
    \A m \in Metros, k \in Kinds \ Cats :
        res[m][k] = None /\ res'[m][k] # None =>
            res'[m][k] = CHOOSE u \in Identities(m, k) : TRUE
=============================================================================
