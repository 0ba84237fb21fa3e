------------------------- MODULE MCDefaultCategories -------------------------
(***************************************************************************)
(* DefaultCategories for TLC, and the versions PCVersions is checked with. *)
(***************************************************************************)
EXTENDS DefaultCategories, TLC

CONSTANTS c1, c2, m1, m2, m3, m4, P, Q, R

ClusterOfDef == m1 :> c1 @@ m2 :> c1 @@ m3 :> c2 @@ m4 :> c2
ProjectDef == m1 :> P @@ m2 :> P @@ m3 :> Q @@ m4 :> P
PolicyDef == c1 :> P @@ c2 :> Q
SharedDef == P :> {} @@ Q :> {} @@ R :> {Q}
VersionDef == <<PC, 7, 6>>

\* The clusters are those the controllers can keep apart.
ASSUME KeptApart == Scoped /\ Separate

Versions ==
    {<<>>, <<NaN>>, <<7>>, <<7, 5>>, <<7, 5, 1>>, <<7, 6>>, <<7, 6, 0>>, <<PC, 7, 6, 0, 5>>,
     <<7, 10>>, <<8>>, <<2022, 6>>, <<2024, 1, 0>>, <<PC, 2024, 1>>, <<7, NaN>>, <<9999>>, <<PC>>}

\* CompareVersions orders the versions: two of them in either order give opposite
\* answers, the order is transitive, and none of them is above what is no version.
\* ComparePCVersions agrees with it but for the years, and is antisymmetric.  The
\* switch to projects is monotone.  CompareVersions, ComparePCVersions,
\* isPCVersionHigherThan75.
ASSUME VersionOrder ==
    \A u, v \in Versions :
        /\ CompareVersions(u, v) = -CompareVersions(v, u)
        /\ ComparePCVersions(u, v) = -ComparePCVersions(v, u)
        /\ \A w \in Versions :
              CompareVersions(u, v) >= 0 /\ CompareVersions(v, w) >= 0 =>
                  CompareVersions(u, w) >= 0
        /\ Numeric(v) => CompareVersions(u, Append(v, 0)) = CompareVersions(u, v)
        /\ CompareVersions(<<NaN>>, v) >= 0
        /\ isPCVersionHigherThan75(v) /\ CleanPCVersion(u) # <<>>
              /\ CompareVersions(CleanPCVersion(u), CleanPCVersion(v)) >= 0
              => isPCVersionHigherThan75(u)
=============================================================================
