------------------------------ MODULE PCVersions ------------------------------
(***************************************************************************)
(* How controllers/helpers.go orders the versions of Prism Central, which  *)
(* decides whether anything is scoped to projects.  A version is the        *)
(* sequence of its dotted parts: numbers, the prefix PC, or a part that is  *)
(* NaN.  The empty version has no parts.                                    *)
(***************************************************************************)
EXTENDS Integers, Sequences

PC  == -1  \* the prefix "pc.", in any case
NaN == -2  \* whatever strconv.Atoi refuses, "master" among it

Larger(a, b) == IF a > b THEN a ELSE b

CleanPCVersion(v) == IF v # <<>> /\ Head(v) = PC THEN Tail(v) ELSE v

Numeric(v) == v # <<>> /\ \A i \in 1..Len(v) : v[i] >= 0

\* One part that is no number makes the whole version 9999, as does "master".
convertStringToIntList(v) == IF Numeric(v) THEN v ELSE <<9999>>

Part(n, i) == IF i <= Len(n) THEN n[i] ELSE 0

\* Missing parts count as 0; the first part that differs decides.
CompareVersions(v, w) ==
    LET a == convertStringToIntList(v)
        b == convertStringToIntList(w)
        differ == {i \in 1..Larger(Len(a), Len(b)) : Part(a, i) # Part(b, i)}
    IN IF differ = {} THEN 0
       ELSE LET i == CHOOSE i \in differ : \A j \in differ : i <= j
            IN IF Part(a, i) > Part(b, i) THEN 1 ELSE -1

is7XPcVersion(v) == Numeric(v) /\ Len(v) > 1 /\ v[1] = 7
is202XPcVersion(v) == Numeric(v) /\ Len(v) > 1 /\ v[1] \in 2020..2029

\* 7.x came after the versions that were named for a year.
ComparePCVersions(raw1, raw2) ==
    LET v == CleanPCVersion(raw1)
        w == CleanPCVersion(raw2)
    IN IF is7XPcVersion(v) /\ is202XPcVersion(w) THEN 1
       ELSE IF is7XPcVersion(w) /\ is202XPcVersion(v) THEN -1
       ELSE CompareVersions(v, w)

isPCVersionHigherThan75(raw) ==
    LET v == CleanPCVersion(raw)
    IN v # <<>> /\ CompareVersions(v, <<7, 6>>) >= 0
=============================================================================
