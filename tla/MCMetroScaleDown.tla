--------------------------- MODULE MCMetroScaleDown ---------------------------
(***************************************************************************)
(* MetroScaleDown for TLC.                                                 *)
(***************************************************************************)
EXTENDS MetroScaleDown

\* Bound: the cache is behind with one kind of object at a time.
Behind == {k \in {{"replicas", "skip"}, {"st", "mark"}, {"site"}} :
              \E f \in k : cache[f] # Now[f]}
OneKindBehind == Cardinality(Behind') <= 1
=============================================================================
