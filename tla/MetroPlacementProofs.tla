------------------------- MODULE MetroPlacementProofs -------------------------
(***************************************************************************)
(* Proofs about MetroPlacement, for any machines, groups and workers.      *)
(***************************************************************************)
EXTENDS MetroPlacement, FiniteSetTheorems, TLAPS

USE NoneAssumption DEF Sites, Other, SiteOrNone, PlacedVM, Points

\* Two sites, and nothing else.
LEMMA IndexIsSite ==
    ASSUME NEW m \in Machines, TypeOK
    PROVE  computeMetroPlacementIndex(m) \in Sites
<1>1. IsFiniteSet({n \in Pending(m) : n < m})
  BY PlacementAssumption, FS_Subset DEF Pending, Siblings
<1>2. Before(m) \in Nat
  BY <1>1, FS_CardinalityType DEF Before
<1>3. \A s \in Sites : IsFiniteSet({n \in Siblings(m) : o[n].label = s})
  BY PlacementAssumption, FS_Subset DEF Siblings
<1>4. \A s \in Sites : Counts(m)[s] \in Nat
  BY <1>3, FS_CardinalityType DEF Counts
<1>5. Gap(Counts(m)) \in Nat
  BY <1>4 DEF Gap
<1>6. CASE Before(m) < Gap(Counts(m))
  BY <1>6 DEF computeMetroPlacementIndex, Least
<1>7. CASE ~(Before(m) < Gap(Counts(m)))
  <2>1. Before(m) - Gap(Counts(m)) \in Nat
    BY <1>2, <1>5, <1>7
  <2>2. \A k \in Nat : k % 2 \in {0, 1}
    OBVIOUS
  <2> QED
    BY <1>7, <2>1, <2>2 DEF computeMetroPlacementIndex
<1> QED
  BY <1>6, <1>7

\* The site preferred is one of the two as well.
LEMMA NativeIsSite ==
    ASSUME NEW m \in Machines, TypeOK
    PROVE  NativeSite(m) \in Sites
  BY IndexIsSite DEF NativeSite

\* What getMetroFailureDomainSpec does to the label.
LEMMA SpecLabel ==
    ASSUME NEW m \in Machines, NEW c \in NM, TypeOK
    PROVE  LET r == getMetroFailureDomainSpec(m, c)
           IN /\ r.nm \in NM /\ r.fd \in Sites
              /\ c.label # None => r.nm.label = c.label
              /\ c.label = None => r.nm.label = NativeSite(m)
<1> DEFINE s == NativeSite(m)
           p == ActiveSite(s)
<1>1. s \in Sites
  BY NativeIsSite
<1>2. p \in Sites
  BY <1>1 DEF ActiveSite
<1> HIDE DEF s, p
<1>3. CASE c.label = None
  <2>1. getMetroFailureDomainSpec(m, c)
          = [nm |-> [c EXCEPT !.label = s, !.active = IF p # s THEN p ELSE @], fd |-> p]
    BY <1>3 DEF getMetroFailureDomainSpec, s, p
  <2> DEFINE n == [c EXCEPT !.label = s, !.active = IF p # s THEN p ELSE @]
  <2>2. n \in NM /\ n.label = s
    BY <1>1, <1>2 DEF NM
  <2> HIDE DEF n
  <2>3. getMetroFailureDomainSpec(m, c).nm = n /\ getMetroFailureDomainSpec(m, c).fd = p
    BY <2>1 DEF n
  <2> QED
    BY <1>1, <1>2, <1>3, <2>2, <2>3 DEF s
<1>4. CASE c.label # None
  <2>1. getMetroFailureDomainSpec(m, c) = [nm |-> c, fd |-> c.label]
    BY <1>4 DEF getMetroFailureDomainSpec
  <2>2. c.label \in Sites
    BY <1>4 DEF NM
  <2> QED
    BY <1>4, <2>1, <2>2
<1> QED
  BY <1>3, <1>4

-----------------------------------------------------------------------------
(* The invariant.  What a pass has chosen counts from the choice on, stored *)
(* or not: mem[m] is o[m] between passes.                                  *)

InFlight == {m \in Machines : pc[m] # "idle"}
Chosen(g, s) == {m \in Members(g) : mem[m].label = s}
Undecided(g) == {m \in Members(g) : stage[m] # "absent" /\ mem[m].label = None}
NoneGone(g) == \A m \in Members(g) : stage[m] \in {"absent", "live"}
Groups == {g \in {Group[m] : m \in Machines} \ {None} : OnMetro(g)}

\* A pass works on what is stored, and keeps a label that is there.
PassInv ==
    \A m \in Machines :
        /\ pc[m] = "idle" => mem[m] = o[m]
        /\ pc[m] = "create" => mem[m].label \in Sites /\ mem[m].cluster \in Sites
        /\ o[m].label # None => mem[m].label = o[m].label
        /\ stage[m] = "absent" => mem[m].label = None
        /\ pc[m] # "idle" => Live(m)

WorkerInv == Cardinality(InFlight) <= Workers

\* The machines that are still to choose may yet even the sites out.
Close(g, s) ==
    Cardinality(Chosen(g, s))
        <= Cardinality(Chosen(g, Other(s))) + Cardinality(Undecided(g)) + 2 * Workers - 1
BalanceInv == \A g \in Groups : NoneGone(g) => \A s \in Sites : Close(g, s)

IInv == TypeOK /\ PassInv /\ WorkerInv /\ BalanceInv

\* All the sets that are counted are finite.
LEMMA Finite ==
    ASSUME NEW g
    PROVE  /\ IsFiniteSet(Members(g))
           /\ \A s \in SiteOrNone : IsFiniteSet(Chosen(g, s)) /\ Cardinality(Chosen(g, s)) \in Nat
           /\ IsFiniteSet(Undecided(g)) /\ Cardinality(Undecided(g)) \in Nat
           /\ IsFiniteSet(InFlight) /\ Cardinality(InFlight) \in Nat
<1>1. IsFiniteSet(Members(g))
  <2>1. Members(g) \subseteq Machines
    BY DEF Members
  <2> QED
    BY <2>1, PlacementAssumption, FS_Subset
<1>2. IsFiniteSet(Undecided(g)) /\ \A s \in SiteOrNone : IsFiniteSet(Chosen(g, s))
  <2>1. Undecided(g) \subseteq Members(g) /\ \A s \in SiteOrNone : Chosen(g, s) \subseteq Members(g)
    BY DEF Undecided, Chosen
  <2> QED
    BY <1>1, <2>1, FS_Subset
<1>3. IsFiniteSet(InFlight)
  <2>1. InFlight \subseteq Machines
    BY DEF InFlight
  <2> QED
    BY <2>1, PlacementAssumption, FS_Subset
<1> QED
  BY <1>1, <1>2, <1>3, FS_CardinalityType

-----------------------------------------------------------------------------
(* A choice never makes things worse than the passes in flight can.        *)

\* A set in two parts.
LEMMA TwoParts ==
    ASSUME NEW A, NEW B, IsFiniteSet(A), IsFiniteSet(B), A \cap B = {}
    PROVE  /\ IsFiniteSet(A \cup B)
           /\ Cardinality(A \cup B) = Cardinality(A) + Cardinality(B)
<1>1. Cardinality(A) \in Nat /\ Cardinality(B) \in Nat
  BY FS_CardinalityType
<1>2. Cardinality(A \cap B) = 0
  BY FS_EmptySet
<1>3. /\ IsFiniteSet(A \cup B)
      /\ Cardinality(A \cup B) = Cardinality(A) + Cardinality(B) - Cardinality(A \cap B)
  BY FS_Union, Zenon
<1> QED
  BY <1>1, <1>2, <1>3

\* A set in three parts.
LEMMA Parts ==
    ASSUME NEW A, NEW B, NEW C, IsFiniteSet(A), IsFiniteSet(B), IsFiniteSet(C),
           A \cap B = {}, A \cap C = {}, B \cap C = {}
    PROVE  Cardinality(A \cup B \cup C) = Cardinality(A) + Cardinality(B) + Cardinality(C)
<1>1. IsFiniteSet(A \cup B) /\ Cardinality(A \cup B) = Cardinality(A) + Cardinality(B)
  BY TwoParts, Zenon
<1>2. (A \cup B) \cap C = {}
  OBVIOUS
<1>3. Cardinality((A \cup B) \cup C) = Cardinality(A \cup B) + Cardinality(C)
  BY <1>1, <1>2, TwoParts, Zenon
<1> QED
  BY <1>1, <1>3, Zenon

\* The site chosen has at most as many stored labels more as there are other
\* machines pending.
LEMMA IndexEvensOut ==
    ASSUME NEW m \in Machines, TypeOK, NEW s \in Sites, s = computeMetroPlacementIndex(m)
    PROVE  /\ \A t \in Sites : Counts(m)[t] \in Nat
           /\ Counts(m)[s] - Counts(m)[Other(s)] <= Cardinality(Pending(m)) - 1
<1>1. IsFiniteSet(Pending(m)) /\ Cardinality(Pending(m)) \in Nat
  <2>1. Pending(m) \subseteq Machines
    BY DEF Pending, Siblings
  <2> QED
    BY <2>1, PlacementAssumption, FS_Subset, FS_CardinalityType
<1>2. Before(m) \in Nat /\ Before(m) <= Cardinality(Pending(m)) - 1
  <2>1. {n \in Pending(m) : n < m} \subseteq Pending(m) \ {m}
    <3>1. ~(m < m)
      BY PlacementAssumption
    <3> QED
      BY <3>1
  <2>2. IsFiniteSet(Pending(m) \ {m}) /\ Cardinality(Pending(m) \ {m}) = Cardinality(Pending(m)) - 1
    BY <1>1, FS_RemoveElement DEF Pending
  <2> QED
    BY <2>1, <2>2, <1>1, FS_Subset, FS_CardinalityType DEF Before
<1>3. \A t \in Sites : IsFiniteSet({n \in Siblings(m) : o[n].label = t})
  BY PlacementAssumption, FS_Subset DEF Siblings
<1>4. \A t \in Sites : Counts(m)[t] \in Nat
  BY <1>3, FS_CardinalityType DEF Counts
<1>5. Counts(m)[s] - Counts(m)[Other(s)] <= Before(m)
  <2>1. CASE Before(m) < Gap(Counts(m))
    BY <1>2, <1>4, <2>1 DEF computeMetroPlacementIndex, Least, Gap
  <2>2. CASE ~(Before(m) < Gap(Counts(m)))
    BY <1>2, <1>4, <2>2 DEF Gap
  <2> QED
    BY <2>1, <2>2
<1> QED
  BY <1>1, <1>2, <1>4, <1>5

LEMMA ChoiceIsClose ==
    ASSUME NEW m \in Machines, IInv, Live(m), mem[m].label = None,
           Group[m] # None, NoneGone(Group[m]),
           Cardinality(InFlight \ {m}) <= Workers - 1,
           NEW s \in Sites, s = computeMetroPlacementIndex(m)
    PROVE  Cardinality(Chosen(Group[m], s)) + 2
             <= Cardinality(Chosen(Group[m], Other(s))) + Cardinality(Undecided(Group[m]))
                  + 2 * Workers - 1
<1> DEFINE g == Group[m]
           T(t) == {n \in Members(g) : o[n].label = None /\ mem[n].label = t}
<1>0. m \in Members(g) /\ o[m].label = None /\ g # None
  BY DEF Members, IInv, PassInv
<1>1. Siblings(m) = {n \in Members(g) : stage[n] # "absent"}
  BY <1>0 DEF Siblings, Live, Members, NoneGone, IInv, TypeOK
<1>2. \A t \in Sites : Counts(m)[t] = Cardinality(On(g, t))
  <2>1. ASSUME NEW t \in Sites
        PROVE  {n \in Siblings(m) : o[n].label = t} = On(g, t)
    BY <1>1 DEF On, Members, IInv, PassInv, TypeOK
  <2> QED
    BY <2>1 DEF Counts
<1>3. Pending(m) = Undecided(g) \cup T(s) \cup T(Other(s))
  <2>1. Pending(m) = {n \in Members(g) : stage[n] # "absent" /\ o[n].label = None}
    BY <1>0, <1>1 DEF Pending, Live
  <2>2. \A n \in Members(g) : o[n].label = None /\ stage[n] # "absent" =>
            n \in Undecided(g) \/ n \in T(s) \/ n \in T(Other(s))
    BY DEF Undecided, Members, IInv, TypeOK, NM
  <2>3. \A n \in Members(g) : n \in Undecided(g) \/ n \in T(s) \/ n \in T(Other(s)) =>
            o[n].label = None /\ stage[n] # "absent"
    BY DEF Undecided, Members, IInv, PassInv, TypeOK
  <2> QED
    BY <2>1, <2>2, <2>3 DEF Undecided
<1>4. \A t \in Sites : /\ IsFiniteSet(T(t)) /\ Cardinality(T(t)) \in Nat
                       /\ Cardinality(T(t)) <= Workers - 1
  <2>1. \A t \in Sites : T(t) \subseteq InFlight \ {m}
    BY <1>0 DEF InFlight, Members, IInv, PassInv
  <2>2. IsFiniteSet(InFlight \ {m})
    BY Finite, FS_Subset
  <2> QED
    BY <2>1, <2>2, FS_Subset, FS_CardinalityType, PlacementAssumption
<1>5. Cardinality(Pending(m)) =
        Cardinality(Undecided(g)) + Cardinality(T(s)) + Cardinality(T(Other(s)))
  <2>1. /\ Undecided(g) \cap T(s) = {} /\ Undecided(g) \cap T(Other(s)) = {}
        /\ T(s) \cap T(Other(s)) = {}
    BY DEF Undecided
  <2>2. Other(s) \in Sites
    OBVIOUS
  <2>3. IsFiniteSet(Undecided(g)) /\ IsFiniteSet(T(s)) /\ IsFiniteSet(T(Other(s)))
    BY <1>4, <2>2, Finite
  <2> HIDE DEF T
  <2>4. Cardinality(Undecided(g) \cup T(s) \cup T(Other(s)))
          = Cardinality(Undecided(g)) + Cardinality(T(s)) + Cardinality(T(Other(s)))
    <3> DEFINE A == Undecided(g)
               B == T(s)
               C == T(Other(s))
    <3>1. /\ IsFiniteSet(A) /\ IsFiniteSet(B) /\ IsFiniteSet(C)
          /\ A \cap B = {} /\ A \cap C = {} /\ B \cap C = {}
      BY <2>1, <2>3
    <3> HIDE DEF A, B, C
    <3>2. Cardinality(A \cup B \cup C) = Cardinality(A) + Cardinality(B) + Cardinality(C)
      BY <3>1, Parts, SMT
    <3> QED
      BY <3>2 DEF A, B, C
  <2> QED
    BY <1>3, <2>4, Zenon
<1>6. \A t \in Sites : /\ Cardinality(On(g, t)) \in Nat
                       /\ Cardinality(Chosen(g, t)) = Cardinality(On(g, t)) + Cardinality(T(t))
  <2> TAKE t \in Sites
  <2>1. Chosen(g, t) = On(g, t) \cup T(t)
    BY DEF Chosen, On, Members, IInv, PassInv
  <2>2. On(g, t) \cap T(t) = {}
    BY DEF On
  <2>3. IsFiniteSet(On(g, t)) /\ Cardinality(On(g, t)) \in Nat
    <3>1. On(g, t) \subseteq Members(g) /\ IsFiniteSet(Members(g))
      BY Finite DEF On
    <3> QED
      BY <3>1, FS_Subset, FS_CardinalityType
  <2>4. IsFiniteSet(T(t))
    BY <1>4
  <2> HIDE DEF T
  <2>5. Cardinality(On(g, t) \cup T(t)) = Cardinality(On(g, t)) + Cardinality(T(t))
    BY <2>2, <2>3, <2>4, TwoParts, Zenon
  <2> QED
    BY <2>1, <2>3, <2>5, Zenon
<1>7. Counts(m)[s] - Counts(m)[Other(s)] <= Cardinality(Pending(m)) - 1
  BY IndexEvensOut DEF IInv
<1> HIDE DEF g, T
<1>8. /\ Cardinality(Undecided(g)) \in Nat
      /\ Cardinality(Chosen(g, s)) + 2
           <= Cardinality(Chosen(g, Other(s))) + Cardinality(Undecided(g)) + 2 * Workers - 1
  <2>1. Other(s) \in Sites /\ Workers \in Nat
    BY PlacementAssumption
  <2> DEFINE x == Cardinality(Undecided(g))
             a == Cardinality(T(s))
             b == Cardinality(T(Other(s)))
             c == Cardinality(On(g, s))
             d == Cardinality(On(g, Other(s)))
  <2>2. x \in Nat /\ a \in Nat /\ b \in Nat /\ c \in Nat /\ d \in Nat
    BY <2>1, <1>4, <1>6, Finite
  <2>3. c - d <= x + a + b - 1 /\ a <= Workers - 1
    <3>1. Counts(m)[s] = c /\ Counts(m)[Other(s)] = d
      BY <2>1, <1>2
    <3>2. Cardinality(Pending(m)) = x + a + b
      BY <1>5
    <3>3. a <= Workers - 1
      BY <1>4
    <3> HIDE DEF x, a, b, c, d
    <3> QED
      BY <2>1, <2>2, <3>1, <3>2, <3>3, <1>7
  <2>4. Cardinality(Chosen(g, s)) = c + a /\ Cardinality(Chosen(g, Other(s))) = d + b
    BY <2>1, <1>6
  <2> HIDE DEF x, a, b, c, d
  <2>5. c + a + 2 <= d + b + x + 2 * Workers - 1
    BY <2>1, <2>2, <2>3
  <2> QED
    BY <2>2, <2>4, <2>5 DEF x
<1> QED
  BY <1>8 DEF g

-----------------------------------------------------------------------------
(* What the steps do to the balance.                                       *)

\* A machine with the label it has, with none, or with one just chosen.
LEMMA Balances ==
    ASSUME IInv, NEW m \in Machines, Live(m), Cardinality(InFlight \ {m}) <= Workers - 1,
           NEW c \in NM, mem' = [mem EXCEPT ![m] = c], stage' = stage,
           \/ c.label \in {mem[m].label, None}
           \/ mem[m].label = None /\ c.label = NativeSite(m)
    PROVE  BalanceInv'
<1> SUFFICES ASSUME NEW g \in Groups, NoneGone(g)'
             PROVE  \A s \in Sites : Close(g, s)'
  BY DEF BalanceInv, Groups, OnMetro, Members
<1>1. NoneGone(g)
  BY DEF NoneGone, Members
<1>2. \A s \in Sites : Close(g, s)
  BY <1>1 DEF BalanceInv, IInv
<1>3. \A n \in Machines : mem'[n] = IF n = m THEN c ELSE mem[n]
  BY DEF IInv, TypeOK
<1>4. ASSUME g # Group[m] \/ c.label = mem[m].label
      PROVE  \A s \in Sites : Close(g, s)'
  <2>1. \A n \in Members(g) : mem'[n].label = mem[n].label
    BY <1>3, <1>4 DEF Members
  <2>2. \A s \in Sites : Chosen(g, s)' = Chosen(g, s) /\ Undecided(g)' = Undecided(g)
    BY <2>1 DEF Chosen, Undecided, Members
  <2>3. \A s \in Sites : Other(s) \in Sites
    OBVIOUS
  <2> QED
    BY <1>2, <2>2, <2>3 DEF Close
<1>5. CASE g = Group[m] /\ mem[m].label = None /\ c.label # None
  <2>1. PICK s \in Sites : s = c.label /\ s = computeMetroPlacementIndex(m)
    <3>1. Preferred[m] = None
      BY <1>5 DEF Groups, OnMetro, Members
    <3> QED
      BY <1>5, <3>1, IndexIsSite DEF IInv, NativeSite
  <2>2. PICK r \in Sites : r = Other(s) /\ s = Other(r) /\ Sites = {r, s}
    BY <2>1
  <2>3. /\ m \in Members(g) /\ Group[m] # None /\ stage[m] # "absent"
    BY <1>5 DEF Groups, Members, Live
  <2>4. Cardinality(Chosen(g, s)) + 2
          <= Cardinality(Chosen(g, r)) + Cardinality(Undecided(g)) + 2 * Workers - 1
    BY <1>1, <1>5, <2>1, <2>2, <2>3, ChoiceIsClose
  <2>4a. /\ IsFiniteSet(Chosen(g, s)) /\ IsFiniteSet(Undecided(g))
         /\ Cardinality(Chosen(g, s)) \in Nat /\ Cardinality(Chosen(g, r)) \in Nat
         /\ Cardinality(Undecided(g)) \in Nat
    BY Finite
  <2>5. /\ Chosen(g, s)' = Chosen(g, s) \cup {m} /\ m \notin Chosen(g, s)
        /\ Chosen(g, r)' = Chosen(g, r)
        /\ Undecided(g)' = Undecided(g) \ {m} /\ m \in Undecided(g)
    <3>1. \A n \in Members(g) : n \in Machines /\ mem'[n] = IF n = m THEN c ELSE mem[n]
      BY <1>3 DEF Members
    <3>2. r # s /\ s # None /\ r # None
      BY <2>2
    <3>2a. /\ \A n \in Members(g) \ {m} : mem'[n].label = mem[n].label
           /\ stage' = stage
           /\ mem'[m].label = s /\ mem[m].label = None
      BY <1>5, <2>1, <2>3, <3>1
    <3>3. Chosen(g, s)' = Chosen(g, s) \cup {m} /\ m \notin Chosen(g, s)
      BY <2>3, <3>2, <3>2a, Zenon DEF Chosen
    <3>4. Chosen(g, r)' = Chosen(g, r)
      BY <2>3, <3>2, <3>2a, Zenon DEF Chosen
    <3>5. Undecided(g)' = Undecided(g) \ {m} /\ m \in Undecided(g)
      <4>1. \A n \in Members(g) : (stage'[n] # "absent" /\ mem'[n].label = None)
                <=> (n # m /\ stage[n] # "absent" /\ mem[n].label = None)
        BY <3>2, <3>2a
      <4> QED
        BY <2>3, <3>2a, <4>1 DEF Undecided, Members
    <3> QED
      BY <3>3, <3>4, <3>5
  <2>6. /\ Cardinality(Chosen(g, s)') = Cardinality(Chosen(g, s)) + 1
        /\ Cardinality(Undecided(g)') = Cardinality(Undecided(g)) - 1
    <3>1. Cardinality(Chosen(g, s) \cup {m}) = Cardinality(Chosen(g, s)) + 1
      BY <2>4a, <2>5, FS_AddElement, Zenon
    <3>2. Cardinality(Undecided(g) \ {m}) = Cardinality(Undecided(g)) - 1
      BY <2>4a, <2>5, FS_RemoveElement, Zenon
    <3> QED
      BY <2>5, <3>1, <3>2
  <2> DEFINE x == Cardinality(Chosen(g, s))
             y == Cardinality(Chosen(g, r))
             u == Cardinality(Undecided(g))
  <2>7. x \in Nat /\ y \in Nat /\ u \in Nat /\ Workers \in Nat
    BY <2>4a, PlacementAssumption
  <2>8. x + 2 <= y + u + 2 * Workers - 1 /\ y <= x + u + 2 * Workers - 1
    BY <1>2, <2>2, <2>4 DEF Close
  <2>9. /\ Cardinality(Chosen(g, s)') = x + 1 /\ Cardinality(Chosen(g, r)') = y
        /\ Cardinality(Undecided(g)') = u - 1
    BY <2>5, <2>6
  <2> HIDE DEF x, y, u
  <2>10. x + 1 <= y + (u - 1) + 2 * Workers - 1 /\ y <= (x + 1) + (u - 1) + 2 * Workers - 1
    BY <2>7, <2>8
  <2>11. Close(g, s)' /\ Close(g, r)'
    BY <2>2, <2>9, <2>10 DEF Close
  <2> QED
    BY <2>2, <2>11
<1>6. CASE g = Group[m] /\ mem[m].label # None /\ c.label = None
  <2>1. PICK s \in Sites : s = mem[m].label
    BY <1>6 DEF IInv, TypeOK, NM
  <2>2. PICK r \in Sites : r = Other(s) /\ s = Other(r) /\ Sites = {r, s}
    BY <2>1
  <2>3. m \in Members(g) /\ stage[m] # "absent"
    BY <1>6 DEF Members, Live
  <2>4a. /\ IsFiniteSet(Chosen(g, s)) /\ IsFiniteSet(Undecided(g))
         /\ Cardinality(Chosen(g, s)) \in Nat /\ Cardinality(Chosen(g, r)) \in Nat
         /\ Cardinality(Undecided(g)) \in Nat
    BY Finite
  <2>5. /\ Chosen(g, s)' = Chosen(g, s) \ {m} /\ m \in Chosen(g, s)
        /\ Chosen(g, r)' = Chosen(g, r)
        /\ Undecided(g)' = Undecided(g) \cup {m} /\ m \notin Undecided(g)
    <3>1. \A n \in Members(g) : n \in Machines /\ mem'[n] = IF n = m THEN c ELSE mem[n]
      BY <1>3 DEF Members
    <3>2. r # s /\ s # None /\ r # None
      BY <2>2
    <3>2a. /\ \A n \in Members(g) \ {m} : mem'[n].label = mem[n].label
           /\ stage' = stage
           /\ mem'[m].label = None /\ mem[m].label = s
      BY <1>6, <2>1, <2>3, <3>1
    <3>3. Chosen(g, s)' = Chosen(g, s) \ {m} /\ m \in Chosen(g, s)
      BY <2>3, <3>2, <3>2a, Zenon DEF Chosen
    <3>4. Chosen(g, r)' = Chosen(g, r)
      BY <2>3, <3>2, <3>2a, Zenon DEF Chosen
    <3>5. Undecided(g)' = Undecided(g) \cup {m} /\ m \notin Undecided(g)
      <4>1. \A n \in Members(g) : (stage'[n] # "absent" /\ mem'[n].label = None)
                <=> (n = m \/ (stage[n] # "absent" /\ mem[n].label = None))
        BY <2>3, <3>2, <3>2a
      <4> QED
        BY <2>3, <3>2, <3>2a, <4>1 DEF Undecided, Members
    <3> QED
      BY <3>3, <3>4, <3>5
  <2>6. /\ Cardinality(Chosen(g, s)') = Cardinality(Chosen(g, s)) - 1
        /\ Cardinality(Undecided(g)') = Cardinality(Undecided(g)) + 1
    <3>1. Cardinality(Chosen(g, s) \ {m}) = Cardinality(Chosen(g, s)) - 1
      BY <2>4a, <2>5, FS_RemoveElement, Zenon
    <3>2. Cardinality(Undecided(g) \cup {m}) = Cardinality(Undecided(g)) + 1
      BY <2>4a, <2>5, FS_AddElement, Zenon
    <3> QED
      BY <2>5, <3>1, <3>2
  <2> DEFINE x == Cardinality(Chosen(g, s))
             y == Cardinality(Chosen(g, r))
             u == Cardinality(Undecided(g))
  <2>7. x \in Nat /\ y \in Nat /\ u \in Nat /\ Workers \in Nat
    BY <2>4a, PlacementAssumption
  <2>8. x <= y + u + 2 * Workers - 1 /\ y <= x + u + 2 * Workers - 1
    BY <1>2, <2>2 DEF Close
  <2>9. /\ Cardinality(Chosen(g, s)') = x - 1 /\ Cardinality(Chosen(g, r)') = y
        /\ Cardinality(Undecided(g)') = u + 1
    BY <2>5, <2>6
  <2> HIDE DEF x, y, u
  <2>10. x - 1 <= y + (u + 1) + 2 * Workers - 1 /\ y <= (x - 1) + (u + 1) + 2 * Workers - 1
    BY <2>7, <2>8
  <2>11. Close(g, s)' /\ Close(g, r)'
    BY <2>2, <2>9, <2>10 DEF Close
  <2> QED
    BY <2>2, <2>11
<1> QED
  BY <1>4, <1>5, <1>6

\* A pass that is running, or may start, has at most Workers - 1 beside it.
LEMMA Room ==
    ASSUME IInv, NEW m \in Machines, MayStart(m) \/ pc[m] # "idle"
    PROVE  Live(m) /\ Cardinality(InFlight \ {m}) <= Workers - 1
<1>1. Live(m)
  BY DEF MayStart, IInv, PassInv
<1>2. IsFiniteSet(InFlight) /\ Cardinality(InFlight) \in Nat /\ Workers \in Nat
  BY Finite, PlacementAssumption
<1>3. CASE MayStart(m)
  <2>1. InFlight \ {m} = InFlight
    BY <1>3 DEF InFlight, MayStart
  <2>2. Cardinality(InFlight) < Workers
    BY <1>3 DEF InFlight, MayStart
  <2> QED
    BY <1>1, <1>2, <2>1, <2>2
<1>4. CASE pc[m] # "idle"
  <2>1. m \in InFlight
    BY <1>4 DEF InFlight
  <2>2. Cardinality(InFlight \ {m}) = Cardinality(InFlight) - 1
    BY <1>2, <2>1, FS_RemoveElement, Zenon
  <2>3. Cardinality(InFlight) <= Workers
    BY DEF IInv, WorkerInv
  <2> QED
    BY <1>1, <1>2, <2>2, <2>3
<1> QED
  BY <1>3, <1>4

\* What all the steps of a pass have in common: the pass goes on with c.
LEMMA PassStep ==
    ASSUME IInv, NEW m \in Machines, MayStart(m) \/ pc[m] # "idle",
           NEW c \in NM, NEW w \in Points,
           Goto(m, w, c), stage' = stage,
           o' \in [Machines -> NM], \A n \in Machines \ {m} : o'[n] = o[n],
           w = "idle" => c = o'[m],
           w = "create" => c.label \in Sites /\ c.cluster \in Sites,
           o'[m].label # None => c.label = o'[m].label,
           \/ c.label \in {mem[m].label, None}
           \/ mem[m].label = None /\ c.label = NativeSite(m)
    PROVE  /\ pc' \in [Machines -> Points]
           /\ mem' \in [Machines -> NM]
           /\ PassInv' /\ WorkerInv' /\ BalanceInv'
<1>1. Live(m) /\ Cardinality(InFlight \ {m}) <= Workers - 1
  BY Room
<1>2. /\ pc' \in [Machines -> Points]
      /\ mem' \in [Machines -> NM]
  BY DEF Goto, IInv, TypeOK
<1>3. PassInv'
  <2> SUFFICES ASSUME NEW n \in Machines
               PROVE  /\ pc'[n] = "idle" => mem'[n] = o'[n]
                      /\ pc'[n] = "create" => mem'[n].label \in Sites /\ mem'[n].cluster \in Sites
                      /\ o'[n].label # None => mem'[n].label = o'[n].label
                      /\ stage'[n] = "absent" => mem'[n].label = None
                      /\ pc'[n] # "idle" => Live(n)'
    BY DEF PassInv
  <2>1. CASE n = m
    <3>1. pc'[n] = w /\ mem'[n] = c /\ stage'[n] # "absent" /\ Live(n)'
      BY <1>1, <2>1 DEF Goto, IInv, TypeOK, Live
    <3> QED
      BY <2>1, <3>1
  <2>2. CASE n # m
    <3>1. pc'[n] = pc[n] /\ mem'[n] = mem[n] /\ stage'[n] = stage[n] /\ o'[n] = o[n]
      BY <2>2 DEF Goto, IInv, TypeOK
    <3> QED
      BY <3>1 DEF IInv, PassInv, Live
  <2> QED
    BY <2>1, <2>2
<1>4. WorkerInv'
  <2>1. InFlight' \subseteq (InFlight \ {m}) \cup {m}
    BY DEF InFlight, Goto, IInv, TypeOK
  <2>2. IsFiniteSet(InFlight \ {m}) /\ Cardinality(InFlight \ {m}) \in Nat
    <3>1. InFlight \ {m} \subseteq InFlight /\ IsFiniteSet(InFlight)
      BY Finite
    <3> QED
      BY <3>1, FS_Subset, FS_CardinalityType
  <2>3. /\ IsFiniteSet((InFlight \ {m}) \cup {m})
        /\ Cardinality((InFlight \ {m}) \cup {m}) = Cardinality(InFlight \ {m}) + 1
    BY <2>2, FS_AddElement
  <2>4. /\ IsFiniteSet(InFlight') /\ Cardinality(InFlight') \in Nat
        /\ Cardinality(InFlight') <= Cardinality((InFlight \ {m}) \cup {m})
    BY <2>1, <2>3, FS_Subset, FS_CardinalityType
  <2> QED
    BY <1>1, <2>2, <2>3, <2>4, PlacementAssumption DEF WorkerInv
<1>5. BalanceInv'
  BY <1>1, Balances DEF Goto
<1> QED
  BY <1>2, <1>3, <1>4, <1>5

-----------------------------------------------------------------------------
(* Every step of a pass.                                                   *)

LEMMA ReconcileStep ==
    ASSUME IInv, NEW m \in Machines, Reconcile(m) \/ Crash(m)
    PROVE  IInv'
<1> USE DEF IInv
<1>1. o \in [Machines -> NM] /\ mem \in [Machines -> NM] /\ o[m] \in NM /\ mem[m] \in NM
  BY DEF TypeOK
<1>2. Event => events' \in 0..MaxEvents
  BY PlacementAssumption DEF TypeOK, Event
<1>3. CASE Choose(m)
  <2> DEFINE r == getMetroFailureDomainSpec(m, o[m])
  <2>1. /\ MayStart(m) /\ mem[m] = o[m]
        /\ UNCHANGED <<stage, o, vm, down, lost>> /\ events' \in 0..MaxEvents
    BY <1>2, <1>3 DEF Choose, MayStart, PassInv, TypeOK
  <2>2. /\ r.nm \in NM /\ r.fd \in Sites
        /\ o[m].label # None => r.nm.label = o[m].label
        /\ o[m].label = None => r.nm.label = NativeSite(m)
        /\ r.nm.label \in Sites
    <3>1. NativeSite(m) \in Sites
      BY NativeIsSite
    <3> QED
      BY <1>1, <3>1, SpecLabel DEF NM
  <2> HIDE DEF r
  <2>3. \E w \in {"create", "end"}, c \in NM :
            /\ Goto(m, w, c)
            /\ c.label = o[m].label \/ c.label = r.nm.label
            /\ w = "create" => c.label = r.nm.label /\ c.cluster \in Sites
    <3> DEFINE placed == [r.nm EXCEPT !.cluster = r.fd]
    <3>1. placed \in NM /\ placed.label = r.nm.label /\ placed.cluster \in Sites
      BY <2>2 DEF NM
    <3>2. CASE Goto(m, "create", placed)
      BY <3>1, <3>2
    <3> HIDE DEF placed
    <3>3. ASSUME NEW b \in {o[m], r.nm, placed}, Goto(m, "end", [b EXCEPT !.failed = TRUE])
          PROVE  \E c \in NM : Goto(m, "end", c) /\ (c.label = o[m].label \/ c.label = r.nm.label)
      <4> DEFINE c == [b EXCEPT !.failed = TRUE]
      <4>1. b \in NM
        BY <1>1, <2>2, <3>1
      <4>2. c \in NM /\ c.label = b.label
        BY <4>1 DEF NM
      <4> QED
        BY <3>1, <3>3, <4>2
    <3> QED
      BY <1>3, <3>2, <3>3 DEF Choose, r, placed
  <2>4. PICK w \in {"create", "end"}, c \in NM :
            /\ Goto(m, w, c)
            /\ c.label = o[m].label \/ c.label = r.nm.label
            /\ w = "create" => c.label = r.nm.label /\ c.cluster \in Sites
    BY <2>3
  <2>5. /\ pc' \in [Machines -> Points]
        /\ mem' \in [Machines -> NM]
        /\ PassInv' /\ WorkerInv' /\ BalanceInv'
    BY <1>1, <2>1, <2>2, <2>4, PassStep
  <2> QED
    BY <2>1, <2>5 DEF TypeOK
<1>4. CASE Adopt(m)
  <2>1. /\ MayStart(m) /\ mem[m] = o[m] /\ Goto(m, "check", o[m])
        /\ UNCHANGED <<stage, o, vm, down, events, lost>>
    BY <1>4 DEF Adopt, MayStart, PassInv
  <2>2. /\ pc' \in [Machines -> Points]
        /\ mem' \in [Machines -> NM]
        /\ PassInv' /\ WorkerInv' /\ BalanceInv'
    BY <1>1, <2>1, PassStep
  <2> QED
    BY <2>1, <2>2 DEF TypeOK
<1>5. CASE CreateVM(m)
  <2>1. PICK w \in {"check", "end"} :
            /\ pc[m] # "idle" /\ mem[m].label \in Sites /\ mem[m].cluster \in Sites
            /\ vm' = [vm EXCEPT ![m] = [native |-> mem[m].label, at |-> mem[m].cluster]]
            /\ Goto(m, w, mem[m])
            /\ UNCHANGED <<stage, o, down, lost>> /\ events' \in 0..MaxEvents
    BY <1>2, <1>5 DEF CreateVM, PassInv, TypeOK
  <2>2. /\ pc' \in [Machines -> Points]
        /\ mem' \in [Machines -> NM]
        /\ PassInv' /\ WorkerInv' /\ BalanceInv'
    BY <1>1, <2>1, PassStep DEF PassInv
  <2>3. vm' \in [Machines -> PlacedVM \cup {None}]
    BY <2>1 DEF TypeOK
  <2> QED
    BY <2>1, <2>2, <2>3 DEF TypeOK
<1>6. CASE CreateFails(m)
  <2>1. PICK terminal \in BOOLEAN :
            /\ pc[m] # "idle"
            /\ Goto(m, "end", [mem[m] EXCEPT !.failed = terminal])
            /\ UNCHANGED <<stage, o, vm, down, lost>> /\ events' \in 0..MaxEvents
    BY <1>2, <1>6 DEF CreateFails, TypeOK
  <2> DEFINE c == [mem[m] EXCEPT !.failed = terminal]
  <2>2. c \in NM /\ c.label = mem[m].label
    BY <1>1 DEF NM
  <2> HIDE DEF c
  <2>3. \E b \in NM : b.label = mem[m].label /\ Goto(m, "end", b)
    BY <2>1, <2>2 DEF c
  <2>4. /\ pc' \in [Machines -> Points]
        /\ mem' \in [Machines -> NM]
        /\ PassInv' /\ WorkerInv' /\ BalanceInv'
    BY <1>1, <2>1, <2>3, PassStep DEF PassInv
  <2> QED
    BY <2>1, <2>4 DEF TypeOK
<1>7. CASE CheckStatus(m)
  <2> DEFINE r == getMetroFailureDomainSpec(m, mem[m])
  <2>1. /\ pc[m] = "check" /\ UNCHANGED <<stage, o, vm, down, lost>> /\ events' \in 0..MaxEvents
    BY <1>2, <1>7 DEF CheckStatus, TypeOK
  <2>2. /\ r.nm \in NM
        /\ mem[m].label # None => r.nm.label = mem[m].label
        /\ mem[m].label = None => r.nm.label = NativeSite(m)
    BY <1>1, SpecLabel
  <2> HIDE DEF r
  <2>3. \E w \in {"patch", "end"}, c \in NM :
            Goto(m, w, c) /\ (c.label = mem[m].label \/ c.label = r.nm.label)
    <3>1. CASE Goto(m, "end", [mem[m] EXCEPT !.ready = TRUE])
      <4> DEFINE c == [mem[m] EXCEPT !.ready = TRUE]
      <4>1. c \in NM /\ c.label = mem[m].label
        BY <1>1 DEF NM
      <4> QED
        BY <3>1, <4>1
    <3>2. ASSUME NEW c \in {mem[m], r.nm}, NEW w \in {"patch", "end"}, Goto(m, w, c)
          PROVE  \E v \in {"patch", "end"}, b \in NM :
                    Goto(m, v, b) /\ (b.label = mem[m].label \/ b.label = r.nm.label)
      BY <1>1, <2>2, <3>2
    <3> QED
      BY <1>7, <3>1, <3>2 DEF CheckStatus, r
  <2>4. PICK w \in {"patch", "end"}, c \in NM :
            Goto(m, w, c) /\ (c.label = mem[m].label \/ c.label = r.nm.label)
    BY <2>3
  <2>5. /\ o[m].label # None => c.label = o[m].label
        /\ \/ c.label \in {mem[m].label, None}
           \/ mem[m].label = None /\ c.label = NativeSite(m)
    BY <2>2, <2>4 DEF PassInv
  <2>6. /\ pc' \in [Machines -> Points]
        /\ mem' \in [Machines -> NM]
        /\ PassInv' /\ WorkerInv' /\ BalanceInv'
    BY <1>1, <2>1, <2>4, <2>5, PassStep
  <2> QED
    BY <2>1, <2>6 DEF TypeOK
<1>8. CASE EndPass(m)
  <2>1. /\ pc[m] # "idle" /\ o' = [o EXCEPT ![m] = mem[m]] /\ Goto(m, "idle", mem[m])
        /\ UNCHANGED <<stage, vm, down, events, lost>>
    BY <1>8 DEF EndPass
  <2>2. o' \in [Machines -> NM] /\ o'[m] = mem[m] /\ \A n \in Machines \ {m} : o'[n] = o[n]
    BY <1>1, <2>1
  <2>3. /\ pc' \in [Machines -> Points]
        /\ mem' \in [Machines -> NM]
        /\ PassInv' /\ WorkerInv' /\ BalanceInv'
    BY <1>1, <2>1, <2>2, PassStep
  <2> QED
    BY <2>1, <2>2, <2>3 DEF TypeOK
<1>9. CASE PatchMachine(m)
  <2> DEFINE c == [mem[m] EXCEPT !.ready = TRUE]
  <2>1. c \in NM /\ c.label = mem[m].label
    BY <1>1 DEF NM
  <2>2. /\ pc[m] # "idle" /\ o' \in {o, [o EXCEPT ![m] = mem[m]]}
        /\ Goto(m, "end", c) \/ Goto(m, "end", mem[m])
        /\ UNCHANGED <<stage, vm, down, events, lost>>
    BY <1>9 DEF PatchMachine
  <2>3. o' \in [Machines -> NM] /\ o'[m] \in {o[m], mem[m]} /\ \A n \in Machines \ {m} : o'[n] = o[n]
    BY <1>1, <2>2
  <2>4. mem[m].label = o'[m].label \/ o'[m].label = None
    BY <2>3 DEF PassInv
  <2> HIDE DEF c
  <2>5. PICK d \in NM : Goto(m, "end", d) /\ d.label = mem[m].label
    BY <1>1, <2>1, <2>2
  <2>6. /\ pc' \in [Machines -> Points]
        /\ mem' \in [Machines -> NM]
        /\ PassInv' /\ WorkerInv' /\ BalanceInv'
    BY <1>1, <2>2, <2>3, <2>4, <2>5, PassStep
  <2> QED
    BY <2>2, <2>3, <2>6 DEF TypeOK
<1>10. CASE Crash(m)
  <2>1. /\ pc[m] # "idle" /\ Goto(m, "idle", o[m])
        /\ UNCHANGED <<stage, o, vm, down>> /\ events' \in 0..MaxEvents
    BY <1>2, <1>10 DEF Crash
  <2>2. o[m].label \in {mem[m].label, None}
    BY DEF PassInv
  <2>3. /\ pc' \in [Machines -> Points]
        /\ mem' \in [Machines -> NM]
        /\ PassInv' /\ WorkerInv' /\ BalanceInv'
    BY <1>1, <2>1, <2>2, PassStep
  <2>4. lost' \in [Machines -> SUBSET {"label", "cluster"}]
    BY <1>10 DEF Crash, TypeOK
  <2> QED
    BY <2>1, <2>3, <2>4 DEF TypeOK
<1> QED
  BY <1>3, <1>4, <1>5, <1>6, <1>7, <1>8, <1>9, <1>10 DEF Reconcile

-----------------------------------------------------------------------------
(* The steps of the environment.                                           *)

\* No label moves, and only the machine m changes its stage.
LEMMA StageStep ==
    ASSUME IInv, NEW m \in Machines, \A n \in Machines : mem'[n].label = mem[n].label,
           NEW st, stage' = [stage EXCEPT ![m] = st],
           stage[m] = "absent" \/ st \in {"draining", "gone"}
    PROVE  BalanceInv'
<1> SUFFICES ASSUME NEW g \in Groups, NoneGone(g)', NEW s \in Sites
             PROVE  Close(g, s)'
  BY DEF BalanceInv, Groups, OnMetro, Members
<1>1. \A n \in Machines : stage'[n] = IF n = m THEN st ELSE stage[n]
  BY DEF IInv, TypeOK
<1>2. NoneGone(g) /\ (m \in Members(g) => stage[m] = "absent")
  BY <1>1 DEF NoneGone, Members
<1>3. /\ \A t \in Sites : Chosen(g, t)' = Chosen(g, t)
      /\ Undecided(g) \subseteq Undecided(g)'
  BY <1>1, <1>2 DEF Chosen, Undecided, Members
<1>4. /\ Cardinality(Undecided(g)) \in Nat /\ Cardinality(Undecided(g)') \in Nat
      /\ Cardinality(Undecided(g)) <= Cardinality(Undecided(g)')
  <2>1. Undecided(g)' \subseteq Members(g) /\ IsFiniteSet(Members(g))
    BY Finite DEF Undecided, Members
  <2>2. IsFiniteSet(Undecided(g)')
    BY <2>1, FS_Subset
  <2> QED
    BY <1>3, <2>2, FS_Subset, FS_CardinalityType
<1>5. PICK r \in Sites : r = Other(s)
  OBVIOUS
<1>6. Cardinality(Chosen(g, s)) \in Nat /\ Cardinality(Chosen(g, r)) \in Nat /\ Workers \in Nat
  BY Finite, PlacementAssumption
<1>7. Close(g, s)
  BY <1>2 DEF IInv, BalanceInv
<1> QED
  BY <1>3, <1>4, <1>5, <1>6, <1>7 DEF Close

LEMMA StageSteps ==
    ASSUME IInv, NEW m \in Machines, Appear(m) \/ Remove(m) \/ Leave(m)
    PROVE  IInv'
<1> USE DEF IInv
<1>1. events' \in 0..MaxEvents /\ UNCHANGED <<o, vm, down, lost>>
  BY PlacementAssumption DEF TypeOK, Event, Appear, Remove, Leave
<1>2. CASE Appear(m) \/ Remove(m)
  <2>1. PICK st \in {"live", "draining"} :
            /\ UNCHANGED <<pc, mem>> /\ stage' = [stage EXCEPT ![m] = st]
            /\ stage[m] = "absent" \/ st = "draining"
    BY <1>2 DEF Appear, Remove
  <2>2. TypeOK'
    BY <1>1, <2>1 DEF TypeOK
  <2>3. PassInv' /\ WorkerInv'
    <3>1. \A n \in Machines : stage'[n] = stage[n] \/ stage'[n] \in {"live", "draining"}
      BY <2>1 DEF TypeOK
    <3> QED
      BY <1>1, <2>1, <3>1 DEF PassInv, WorkerInv, InFlight, Live
  <2> QED
    BY <2>1, <2>2, <2>3, StageStep
<1>3. CASE Leave(m)
  <2>1. /\ stage[m] = "draining" /\ stage' = [stage EXCEPT ![m] = "gone"]
        /\ Goto(m, "idle", o[m])
    BY <1>3 DEF Leave
  <2>2. TypeOK'
    BY <1>1, <2>1 DEF TypeOK, Goto
  <2>3. PassInv'
    <3> SUFFICES ASSUME NEW n \in Machines
                 PROVE  /\ pc'[n] = "idle" => mem'[n] = o[n]
                        /\ pc'[n] = "create" => mem'[n].label \in Sites /\ mem'[n].cluster \in Sites
                        /\ o[n].label # None => mem'[n].label = o[n].label
                        /\ stage'[n] = "absent" => mem'[n].label = None
                        /\ pc'[n] # "idle" => Live(n)'
      BY <1>1 DEF PassInv
    <3>1. CASE n = m
      BY <2>1, <3>1 DEF TypeOK, Goto
    <3>2. CASE n # m
      <4>1. pc'[n] = pc[n] /\ mem'[n] = mem[n] /\ stage'[n] = stage[n]
        BY <2>1, <3>2 DEF Goto, TypeOK
      <4> QED
        BY <4>1 DEF PassInv, Live
    <3> QED
      BY <3>1, <3>2
  <2>4. WorkerInv'
    <3>1. InFlight' \subseteq InFlight
      BY <2>1 DEF InFlight, Goto, TypeOK
    <3>2. IsFiniteSet(InFlight) /\ Cardinality(InFlight) \in Nat
      BY Finite
    <3>3. /\ IsFiniteSet(InFlight') /\ Cardinality(InFlight') \in Nat
          /\ Cardinality(InFlight') <= Cardinality(InFlight)
      BY <3>1, <3>2, FS_Subset, FS_CardinalityType
    <3> QED
      BY <3>2, <3>3, PlacementAssumption DEF WorkerInv
  <2>5. BalanceInv'
    <3> SUFFICES ASSUME NEW g \in Groups, NoneGone(g)', NEW s \in Sites
                 PROVE  Close(g, s)'
      BY DEF BalanceInv, Groups, OnMetro, Members
    <3>1. stage'[m] = "gone"
      BY <2>1 DEF TypeOK
    <3>2. m \notin Members(g) /\ NoneGone(g)
      BY <2>1, <3>1 DEF NoneGone, Members, TypeOK
    <3>3. \A n \in Members(g) : mem'[n] = mem[n] /\ stage'[n] = stage[n]
      BY <2>1, <3>2 DEF Members, Goto, TypeOK
    <3>4. Close(g, s)
      BY <3>2 DEF BalanceInv
    <3>5. Undecided(g)' = Undecided(g) /\ \A t \in Sites : Chosen(g, t)' = Chosen(g, t)
      BY <3>3 DEF Undecided, Chosen, Members
    <3>6. PICK r \in Sites : r = Other(s)
      OBVIOUS
    <3> QED
      BY <3>4, <3>5, <3>6 DEF Close
  <2> QED
    BY <2>2, <2>3, <2>4, <2>5
<1> QED
  BY <1>2, <1>3

-----------------------------------------------------------------------------
(* The theorems.                                                           *)

LEMMA Start ==
    ASSUME Init
    PROVE  IInv
<1>1. TypeOK
  BY PlacementAssumption DEF Init, TypeOK, NM, NewNM
<1>2. PassInv
  BY DEF Init, PassInv, NewNM
<1>3. WorkerInv
  <2>1. InFlight = {}
    BY DEF Init, InFlight
  <2> QED
    BY <2>1, FS_EmptySet, PlacementAssumption DEF WorkerInv
<1>4. BalanceInv
  <2> SUFFICES ASSUME NEW g \in Groups, NEW s \in Sites
               PROVE  Close(g, s)
    BY DEF BalanceInv
  <2>1. \A t \in Sites : Chosen(g, t) = {}
    BY DEF Chosen, Members, Init, NewNM
  <2>2. Cardinality(Undecided(g)) \in Nat /\ Workers \in Nat \ {0}
    BY Finite, PlacementAssumption
  <2>3. 0 <= 0 + Cardinality(Undecided(g)) + 2 * Workers - 1
    BY <2>2
  <2>4. PICK r \in Sites : r = Other(s)
    OBVIOUS
  <2>5. Cardinality(Chosen(g, s)) = 0 /\ Cardinality(Chosen(g, r)) = 0
    BY <2>1, FS_EmptySet
  <2> QED
    BY <2>3, <2>4, <2>5 DEF Close
<1> QED
  BY <1>1, <1>2, <1>3, <1>4 DEF IInv

\* Nothing but the sites that are up changed: each part of IInv stays as it is.
LEMMA QuietStep ==
    ASSUME IInv, UNCHANGED <<stage, o, vm, pc, mem, lost>>,
           down' \in SiteOrNone, events' \in 0..MaxEvents
    PROVE  IInv'
<1>1. TypeOK'
  BY DEF IInv, TypeOK
<1>2. PassInv'
  <2>1. PassInv
    BY DEF IInv
  <2> QED
    BY <2>1 DEF PassInv, Live
<1>3. WorkerInv'
  <2>1. InFlight' = InFlight
    BY DEF InFlight
  <2> QED
    BY <2>1 DEF IInv, WorkerInv
<1>4. BalanceInv'
  <2> SUFFICES ASSUME NEW g \in Groups, NoneGone(g)', NEW s \in Sites
               PROVE  Close(g, s)'
    BY DEF BalanceInv, Groups, OnMetro, Members
  <2>1. NoneGone(g)
    BY DEF NoneGone, Members
  <2>2. Close(g, s)
    BY <2>1 DEF IInv, BalanceInv
  <2>3. Undecided(g)' = Undecided(g)
    BY DEF Undecided, Members
  <2>4. \A t \in Sites : Chosen(g, t)' = Chosen(g, t)
    BY DEF Chosen, Members
  <2>5. PICK r \in Sites : r = Other(s)
    BY DEF Sites, Other
  <2> QED
    BY <2>2, <2>3, <2>4, <2>5 DEF Close
<1> QED
  BY <1>1, <1>2, <1>3, <1>4 DEF IInv

LEMMA Step ==
    ASSUME IInv, [Next]_vars
    PROVE  IInv'
<1>1. CASE UNCHANGED vars
  <2>1. UNCHANGED <<stage, o, vm, pc, mem, down, events, lost>>
    BY <1>1 DEF vars
  <2>2. down' \in SiteOrNone /\ events' \in 0..MaxEvents
    BY <2>1 DEF IInv, TypeOK
  <2> QED
    BY <2>1, <2>2, QuietStep
<1>2. CASE Outage
  <2>1. UNCHANGED <<stage, o, vm, pc, mem, lost>>
    BY <1>2 DEF Outage
  <2>2. down' \in SiteOrNone /\ events' \in 0..MaxEvents
    BY <1>2, PlacementAssumption DEF Outage, Event, IInv, TypeOK
  <2> QED
    BY <2>1, <2>2, QuietStep
<1>3. ASSUME NEW m \in Machines, Reconcile(m) \/ Crash(m) \/ Appear(m) \/ Remove(m) \/ Leave(m)
      PROVE  IInv'
  BY <1>3, ReconcileStep, StageSteps
<1> QED
  BY <1>1, <1>2, <1>3 DEF Next

LEMMA Inductive == Spec => []IInv
  BY Start, Step, PTL DEF Spec

\* The type invariant, for any machines, groups and number of workers.
THEOREM TypeCorrect == Spec => []TypeOK
  BY Inductive, PTL DEF IInv

\* Once all its machines have a site, no group is further apart than twice the
\* workers less one.  computeMetroPlacementIndex, and the passes between a
\* choice and the patch that stores it.
THEOREM BalancedAlways == Spec => []Balanced
<1>1. IInv => Balanced
  <2> SUFFICES ASSUME IInv, NEW g \in Groups, AllPlaced(g), NEW s \in Sites
               PROVE  Cardinality(On(g, s)) <= Cardinality(On(g, Other(s))) + 2 * Workers - 1
    BY DEF Balanced, Groups
  <2>1. NoneGone(g)
    BY DEF AllPlaced, NoneGone
  <2>2. \A t \in Sites : Chosen(g, t) = On(g, t)
    BY DEF Chosen, On, Members, AllPlaced, IInv, PassInv, TypeOK, NM
  <2>3. Undecided(g) = {}
    BY DEF Undecided, Members, AllPlaced, IInv, PassInv
  <2>4. Close(g, s)
    BY <2>1 DEF IInv, BalanceInv
  <2>5. PICK r \in Sites : r = Other(s)
    OBVIOUS
  <2>6. Cardinality(Chosen(g, s)) \in Nat /\ Cardinality(Chosen(g, r)) \in Nat /\ Workers \in Nat
    BY Finite, PlacementAssumption
  <2> QED
    BY <2>2, <2>3, <2>4, <2>5, <2>6, FS_EmptySet DEF Close
<1> QED
  BY <1>1, Inductive, PTL

-----------------------------------------------------------------------------
(* Where the VM is.  A pass that made the VM, or found it, has its label and *)
(* its cluster, as long as neither was ever lost.                          *)

Where(c) == IF c.active # None THEN c.active ELSE c.label

Placed(m) ==
    /\ stage[m] = "absent" => vm[m] = None
    /\ pc[m] = "create" => vm[m] = None
    /\ pc[m] = "check" => vm[m] # None
    /\ pc[m] = "patch" => vm[m] # None /\ "label" \in lost[m]
    /\ vm[m] = None => lost[m] = {} /\ ~o[m].ready /\ ~mem[m].ready
    /\ Live(m) /\ vm[m] # None /\ "label" \notin lost[m] => mem[m].label = vm[m].native
    /\ Live(m) /\ vm[m] # None /\ "cluster" \notin lost[m] => mem[m].cluster = vm[m].at
    /\ o[m].label # None /\ vm[m] # None /\ "label" \notin lost[m] => o[m].label = vm[m].native
    /\ o[m].ready /\ lost[m] = {} => vm[m].at = Where(o[m])
    /\ mem[m].ready /\ lost[m] = {} => vm[m].at = Where(mem[m])
    /\ Preferred[m] # None => {o[m].label, mem[m].label} \subseteq {None, Preferred[m]}
PlaceInv == \A m \in Machines : Placed(m)

\* What getMetroFailureDomainSpec leaves alone.
LEMMA SpecKeeps ==
    ASSUME NEW m \in Machines, NEW c \in NM, TypeOK
    PROVE  LET r == getMetroFailureDomainSpec(m, c)
           IN /\ r.nm.ready = c.ready /\ r.nm.cluster = c.cluster
              /\ c.label # None => r.nm = c /\ r.fd = c.label
              /\ r.nm.label \in {c.label, NativeSite(m)}
<1> DEFINE s == NativeSite(m)
           p == ActiveSite(s)
           n == [c EXCEPT !.label = s, !.active = IF p # s THEN p ELSE @]
<1>1. n.ready = c.ready /\ n.cluster = c.cluster /\ n.label = s
  BY DEF NM
<1>2. getMetroFailureDomainSpec(m, c)
        = IF c.label # None THEN [nm |-> c, fd |-> c.label] ELSE [nm |-> n, fd |-> p]
  BY DEF getMetroFailureDomainSpec
<1> HIDE DEF n, p
<1> QED
  BY <1>1, <1>2

\* A pass of m goes on with c, and the VM stays what it is.
LEMMA PassPlaces ==
    ASSUME IInv, PlaceInv, NEW m \in Machines, Live(m), NEW c \in NM,
           NEW w \in Points, Goto(m, w, c),
           UNCHANGED <<stage, vm>>, o'[m] \in {o[m], mem[m], c}, lost[m] \subseteq lost'[m],
           w = "create" => vm[m] = None, w = "check" => vm[m] # None,
           w = "patch" => vm[m] # None /\ "label" \in lost'[m],
           vm[m] = None => ~c.ready /\ lost'[m] = {},
           vm[m] # None /\ "label" \notin lost'[m] => c.label = vm[m].native,
           vm[m] # None /\ "cluster" \notin lost'[m] => c.cluster = vm[m].at,
           c.ready /\ lost'[m] = {} => vm[m].at = Where(c),
           Preferred[m] # None => c.label \in {None, Preferred[m]}
    PROVE  Placed(m)'
<1>1. pc'[m] = w /\ mem'[m] = c /\ Live(m)' /\ stage'[m] # "absent"
  BY DEF Goto, IInv, TypeOK, Live
<1>2. Placed(m)
  BY DEF PlaceInv
<1> QED
  BY <1>1, <1>2 DEF Placed, Live, Where

LEMMA ReconcilePlaces ==
    ASSUME IInv, PlaceInv, NEW m \in Machines, Reconcile(m) \/ Crash(m)
    PROVE  Placed(m)'
<1>1. /\ o[m] \in NM /\ mem[m] \in NM /\ Placed(m)
      /\ pc[m] = "idle" => mem[m] = o[m]
      /\ o[m].label # None => mem[m].label = o[m].label
      /\ lost[m] \subseteq {"label", "cluster"}
  BY DEF IInv, TypeOK, PassInv, PlaceInv
<1>2. Live(m)
  <2>1. MayStart(m) \/ pc[m] # "idle"
    BY DEF Reconcile, Choose, Adopt, CreateVM, CreateFails, CheckStatus, PatchMachine, EndPass,
           Crash
  <2> QED
    BY <2>1, Room
<1>3. vm[m] # None => /\ "label" \notin lost[m] => mem[m].label = vm[m].native
                      /\ "cluster" \notin lost[m] => mem[m].cluster = vm[m].at
                      /\ vm[m].native # None /\ vm[m].at # None
  BY <1>1, <1>2 DEF Placed, IInv, TypeOK
<1>4. CASE Choose(m)
  <2> DEFINE r == getMetroFailureDomainSpec(m, o[m])
             placed == [r.nm EXCEPT !.cluster = r.fd]
  <2>1. /\ vm[m] = None /\ ~o[m].ready /\ UNCHANGED <<stage, o, vm, lost>>
    BY <1>4 DEF Choose, MayStart
  <2>2. /\ r.nm \in NM /\ r.fd \in Sites /\ ~r.nm.ready
        /\ r.nm.label \in {o[m].label, NativeSite(m)}
    BY <1>1, <2>1, SpecLabel, SpecKeeps DEF IInv
  <2>3. placed \in NM /\ ~placed.ready /\ placed.label = r.nm.label
    BY <2>2 DEF NM
  <2>4. \A b \in NM : [b EXCEPT !.failed = TRUE] \in NM
                      /\ [b EXCEPT !.failed = TRUE].label = b.label
                      /\ [b EXCEPT !.failed = TRUE].ready = b.ready
    BY DEF NM
  <2>5. Preferred[m] # None => {o[m].label, NativeSite(m)} \subseteq {None, Preferred[m]}
    BY <1>1 DEF Placed, NativeSite
  <2>6. PICK c \in NM, w \in {"create", "end"} :
            /\ Goto(m, w, c) /\ ~c.ready /\ c.label \in {o[m].label, NativeSite(m)}
    <3>1. CASE Goto(m, "create", placed)
      <4> HIDE DEF placed, r
      <4> QED
        BY <2>2, <2>3, <3>1
    <3>2. ASSUME NEW b \in {o[m], r.nm, placed}, Goto(m, "end", [b EXCEPT !.failed = TRUE])
          PROVE  \E c \in NM : Goto(m, "end", c) /\ ~c.ready
                               /\ c.label \in {o[m].label, NativeSite(m)}
      <4> HIDE DEF placed, r
      <4>1. b \in NM /\ ~b.ready /\ b.label \in {o[m].label, NativeSite(m)}
        BY <1>1, <2>1, <2>2, <2>3
      <4> DEFINE c == [b EXCEPT !.failed = TRUE]
      <4>2. c \in NM /\ ~c.ready /\ c.label = b.label
        BY <2>4, <4>1
      <4>3. Goto(m, "end", c)
        BY <3>2
      <4> HIDE DEF c
      <4> QED
        BY <4>1, <4>2, <4>3
    <3> QED
      BY <1>4, <3>1, <3>2 DEF Choose
  <2> HIDE DEF r, placed
  <2> QED
    BY <1>1, <1>2, <2>1, <2>5, <2>6, PassPlaces DEF Placed
<1>5. CASE Adopt(m)
  <2>1. vm[m] # None /\ pc[m] = "idle" /\ Goto(m, "check", o[m]) /\ UNCHANGED <<stage, o, vm, lost>>
    BY <1>5 DEF Adopt, MayStart
  <2> QED
    BY <1>1, <1>2, <1>3, <2>1, PassPlaces DEF Placed
<1>6. CASE CreateVM(m)
  <2>1. PICK w \in {"check", "end"} :
            /\ pc[m] = "create" /\ Goto(m, w, mem[m]) /\ UNCHANGED <<stage, o, lost>>
            /\ vm' = [vm EXCEPT ![m] = [native |-> mem[m].label, at |-> mem[m].cluster]]
    BY <1>6 DEF CreateVM
  <2>2. vm[m] = None /\ ~o[m].ready /\ ~mem[m].ready
    BY <1>1, <2>1 DEF Placed
  <2>3. mem[m].label \in Sites /\ mem[m].cluster \in Sites
    BY <2>1 DEF IInv, PassInv
  <2>4. /\ pc'[m] = w /\ mem'[m] = mem[m]
        /\ vm'[m] = [native |-> mem[m].label, at |-> mem[m].cluster] /\ vm'[m] # None
    BY <2>1, <2>3 DEF Goto, IInv, TypeOK, Placed
  <2>5. stage'[m] # "absent"
    BY <1>2, <2>1 DEF Live
  <2> QED
    BY <1>1, <2>1, <2>2, <2>4, <2>5 DEF Placed
<1>7. CASE CreateFails(m)
  <2>1. PICK terminal \in BOOLEAN :
            /\ pc[m] = "create" /\ Goto(m, "end", [mem[m] EXCEPT !.failed = terminal])
            /\ UNCHANGED <<stage, o, vm, lost>>
    BY <1>7 DEF CreateFails
  <2> DEFINE c == [mem[m] EXCEPT !.failed = terminal]
  <2>2. c \in NM /\ c.label = mem[m].label /\ c.ready = mem[m].ready
    BY <1>1 DEF NM
  <2>3. vm[m] = None /\ ~c.ready
    BY <1>1, <2>1, <2>2 DEF Placed
  <2>4. Goto(m, "end", c)
    BY <2>1
  <2> HIDE DEF c
  <2> QED
    BY <1>1, <1>2, <2>1, <2>2, <2>3, <2>4, PassPlaces DEF Placed
<1>8. CASE CheckStatus(m)
  <2> DEFINE r == getMetroFailureDomainSpec(m, mem[m])
             fits == Consistent(r.nm, r.fd)
  <2>1. /\ pc[m] = "check" /\ vm[m] # None /\ UNCHANGED <<stage, o, vm, lost>>
    BY <1>1, <1>8 DEF CheckStatus, Placed
  <2>2. /\ r.nm \in NM /\ r.nm.ready = mem[m].ready /\ r.nm.cluster = mem[m].cluster
        /\ mem[m].label # None => r.nm = mem[m] /\ r.fd = mem[m].label
        /\ r.nm.label \in {mem[m].label, NativeSite(m)}
    BY <1>1, SpecKeeps, SpecLabel DEF IInv
  <2>3. mem[m].label = None => "label" \in lost[m]
    BY <1>3, <2>1
  <2>4. Preferred[m] # None => {mem[m].label, NativeSite(m)} \subseteq {None, Preferred[m]}
    BY <1>1 DEF Placed, NativeSite
  <2>5. /\ "label" \notin lost[m] => r.nm.label = vm[m].native
        /\ "cluster" \notin lost[m] => r.nm.cluster = vm[m].at
        /\ r.nm.ready /\ lost[m] = {} => vm[m].at = Where(r.nm)
        /\ Preferred[m] # None => r.nm.label \in {None, Preferred[m]}
    BY <1>1, <1>3, <2>1, <2>2, <2>3, <2>4 DEF Placed
  <2>6. CASE fits /\ r.nm = mem[m] /\ Goto(m, "end", [mem[m] EXCEPT !.ready = TRUE])
    <3> DEFINE c == [mem[m] EXCEPT !.ready = TRUE]
    <3>1. /\ c \in NM /\ c.label = mem[m].label /\ c.cluster = mem[m].cluster
          /\ c.active = mem[m].active
      BY <1>1 DEF NM
    <3>2. Goto(m, "end", c)
      BY <2>6
    <3>3. lost[m] = {} => Consistent(mem[m], mem[m].label)
      BY <2>2, <2>3, <2>6
    <3> HIDE DEF c, r, fits
    <3>4. lost[m] = {} => vm[m].at = Where(c)
      BY <1>3, <2>1, <3>1, <3>3 DEF Consistent, Where
    <3> QED
      BY <1>1, <1>2, <2>1, <2>5, <2>6, <3>1, <3>2, <3>4, PassPlaces DEF Placed
  <2>7. CASE r.nm # mem[m] /\ Goto(m, "patch", r.nm)
    <3> HIDE DEF r
    <3> QED
      BY <1>1, <1>2, <2>1, <2>2, <2>3, <2>5, <2>7, PassPlaces DEF Placed
  <2>8. ASSUME NEW c \in {mem[m], r.nm}, Goto(m, "end", c)
        PROVE  Placed(m)'
    <3> HIDE DEF r
    <3> QED
      BY <1>1, <1>2, <1>3, <2>1, <2>2, <2>5, <2>8, PassPlaces DEF Placed
  <2> QED
    BY <1>8, <2>6, <2>7, <2>8 DEF CheckStatus
<1>9. CASE PatchMachine(m)
  <2>1. /\ pc[m] = "patch" /\ UNCHANGED <<stage, vm, lost>> /\ o'[m] \in {o[m], mem[m]}
        /\ Goto(m, "end", [mem[m] EXCEPT !.ready = TRUE]) \/ Goto(m, "end", mem[m])
    BY <1>9 DEF PatchMachine, IInv, TypeOK
  <2>2. vm[m] # None /\ "label" \in lost[m]
    BY <1>1, <2>1 DEF Placed
  <2> DEFINE c == [mem[m] EXCEPT !.ready = TRUE]
  <2>3. c \in NM /\ c.label = mem[m].label /\ c.cluster = mem[m].cluster
    BY <1>1 DEF NM
  <2> HIDE DEF c
  <2>4. PICK d \in NM : /\ Goto(m, "end", d) /\ d.label = mem[m].label
                        /\ d.cluster = mem[m].cluster
    BY <1>1, <2>1, <2>3 DEF c
  <2> QED
    BY <1>1, <1>2, <1>3, <2>1, <2>2, <2>4, PassPlaces DEF Placed
<1>10. CASE EndPass(m)
  <2>1. Goto(m, "idle", mem[m]) /\ o'[m] = mem[m] /\ UNCHANGED <<stage, vm, lost>>
    BY <1>10 DEF EndPass, IInv, TypeOK
  <2> QED
    BY <1>1, <1>2, <1>3, <2>1, PassPlaces DEF Placed
<1>11. CASE Crash(m)
  <2>1. /\ Goto(m, "idle", o[m]) /\ UNCHANGED <<stage, o, vm>>
        /\ lost'[m] = lost[m] \cup
              {f \in {"label", "cluster"} : vm[m] # None /\ mem[m][f] # o[m][f]}
    BY <1>11 DEF Crash, IInv, TypeOK
  <2>2. /\ lost[m] \subseteq lost'[m]
        /\ vm[m] = None => lost'[m] = lost[m]
        /\ vm[m] # None /\ "label" \notin lost'[m] => mem[m].label = o[m].label
        /\ vm[m] # None /\ "cluster" \notin lost'[m] => mem[m].cluster = o[m].cluster
    BY <2>1
  <2> QED
    BY <1>1, <1>2, <1>3, <2>1, <2>2, PassPlaces DEF Placed
<1> QED
  BY <1>4, <1>5, <1>6, <1>7, <1>8, <1>9, <1>10, <1>11 DEF Reconcile

LEMMA StagePlaces ==
    ASSUME IInv, PlaceInv, NEW m \in Machines, Appear(m) \/ Remove(m) \/ Leave(m)
    PROVE  Placed(m)'
<1>1. Placed(m) /\ (o[m].label # None => mem[m].label = o[m].label)
  BY DEF IInv, PassInv, PlaceInv
<1>2. CASE Appear(m) \/ Remove(m)
  <2>1. /\ stage[m] \in {"absent", "live"} /\ stage'[m] \in {"live", "draining"}
        /\ UNCHANGED <<o, vm, pc, mem, lost>>
    BY <1>2 DEF Appear, Remove, IInv, TypeOK
  <2> QED
    BY <1>1, <2>1 DEF Placed, Live, Where
<1>3. CASE Leave(m)
  <2>1. stage'[m] = "gone" /\ pc'[m] = "idle" /\ mem'[m] = o[m] /\ UNCHANGED <<o, vm, lost>>
    BY <1>3 DEF Leave, Goto, IInv, TypeOK
  <2> QED
    BY <1>1, <2>1 DEF Placed, Live, Where
<1> QED
  BY <1>2, <1>3

\* Only the machine whose step it is changes.
LEMMA OthersStayPlaced ==
    ASSUME IInv, PlaceInv, NEW m \in Machines, NEW n \in Machines \ {m},
           Reconcile(m) \/ Crash(m) \/ Appear(m) \/ Remove(m) \/ Leave(m)
    PROVE  Placed(n)'
<1>1. /\ stage'[n] = stage[n] /\ o'[n] = o[n] /\ vm'[n] = vm[n]
      /\ pc'[n] = pc[n] /\ mem'[n] = mem[n] /\ lost'[n] = lost[n]
  <2>1. CASE Choose(m) \/ Adopt(m) \/ CreateFails(m) \/ CheckStatus(m) \/ Crash(m)
    BY <2>1 DEF Choose, Adopt, CreateFails, CheckStatus, Crash, Goto, IInv, TypeOK
  <2>2. CASE CreateVM(m) \/ PatchMachine(m) \/ EndPass(m)
    BY <2>2 DEF CreateVM, PatchMachine, EndPass, Goto, IInv, TypeOK
  <2>3. CASE Appear(m) \/ Remove(m) \/ Leave(m)
    BY <2>3 DEF Appear, Remove, Leave, Goto, IInv, TypeOK
  <2> QED
    BY <2>1, <2>2, <2>3 DEF Reconcile
<1>2. Placed(n)
  BY DEF PlaceInv
<1> QED
  BY <1>1, <1>2 DEF Placed, Live, Where

LEMMA StartPlaced ==
    ASSUME Init
    PROVE  PlaceInv
BY DEF Init, PlaceInv, Placed, NewNM, Live

LEMMA StepPlaced ==
    ASSUME IInv, PlaceInv, [Next]_vars
    PROVE  PlaceInv'
<1>1. CASE UNCHANGED vars \/ Outage
  <2>1. UNCHANGED <<stage, o, vm, pc, mem, lost>>
    BY <1>1 DEF vars, Outage
  <2> QED
    BY <2>1 DEF PlaceInv, Placed, Live, Where
<1>2. ASSUME NEW m \in Machines, Reconcile(m) \/ Crash(m) \/ Appear(m) \/ Remove(m) \/ Leave(m)
      PROVE  PlaceInv'
  <2> SUFFICES ASSUME NEW n \in Machines
               PROVE  Placed(n)'
    BY DEF PlaceInv
  <2>1. CASE n = m
    BY <1>2, <2>1, ReconcilePlaces, StagePlaces
  <2>2. CASE n # m
    BY <1>2, <2>2, OthersStayPlaced
  <2> QED
    BY <2>1, <2>2
<1> QED
  BY <1>1, <1>2 DEF Next

LEMMA PlacedAlways == Spec => []PlaceInv
<1>1. IInv /\ PlaceInv /\ [Next]_vars => PlaceInv'
  BY StepPlaced
<1> QED
  BY <1>1, Inductive, StartPlaced, PTL DEF Spec

\* The native site that is stored is the one of the VM's vHA category unless the
\* choice for that VM was lost before it was stored, and the preferred one for a
\* machine of a metro site, whatever fails.  getMetroFailureDomainSpec.
THEOREM NativeSiteKept == Spec => []NativeSiteStays
<1>1. PlaceInv => NativeSiteStays
  BY DEF PlaceInv, Placed, NativeSiteStays
<1> QED
  BY <1>1, PlacedAlways, PTL

\* A machine that is ready has its VM on the site it is recorded on, unless something
\* of what was chosen for that VM was lost.  checkFailureDomainStatus.
THEOREM ReadyIsRecorded == Spec => []ReadyWhereRecorded
<1>1. PlaceInv => ReadyWhereRecorded
  BY DEF PlaceInv, Placed, Where, ReadyWhereRecorded
<1> QED
  BY <1>1, PlacedAlways, PTL

-----------------------------------------------------------------------------
(* The loop and its closed form.  The induction is the choice of a smallest *)
(* counterexample: a family of finite sets has a smallest one.              *)

\* Of the subsets of a finite set that belong to a family one is smallest.
LEMMA SmallestSet ==
    ASSUME NEW S, NEW F, F \subseteq SUBSET S, IsFiniteSet(S), F # {}
    PROVE  \E A \in F : \A B \in F : B \subseteq A => B = A
<1>1. IsWellFoundedOn(StrictSubsetOrdering(S), SUBSET S)
  BY FS_StrictSubsetOrderingWellFounded, FS_FiniteSubsetsOfFinite
<1>2. \E A \in F : \A B \in F : ~(<<B, A>> \in StrictSubsetOrdering(S))
  <2> F \subseteq SUBSET S
    OBVIOUS
  <2> QED BY <1>1, WFMin
<1> QED
  BY <1>2 DEF StrictSubsetOrdering

\* Hence a set of numbers has a least one, which is all of induction that is needed.
LEMMA LeastNumber ==
    ASSUME NEW T \in SUBSET Nat, T # {}
    PROVE  \E x \in T : \A y \in T : x =< y
<1>1. PICK n \in T : TRUE
  OBVIOUS
<1> DEFINE U == 0..n
           F == {0..k : k \in {j \in T : j =< n}}
<1>2. F \subseteq SUBSET U /\ F # {}
  BY <1>1
<1>3. IsFiniteSet(U)
  BY FS_Interval
<1> HIDE DEF F, U
<1>4. PICK A \in F : \A B \in F : B \subseteq A => B = A
  BY <1>2, <1>3, SmallestSet
<1>5. PICK k \in T : k =< n /\ A = 0..k
  BY <1>4 DEF F
<1>6. ASSUME NEW y \in T PROVE k =< y
  <2>1. CASE y < k
    <3>1. 0..y \in F
      BY <1>1, <1>5, <2>1 DEF F
    <3>2. 0..y \subseteq A
      BY <1>5, <2>1
    <3>3. 0..y = 0..k
      BY <1>4, <1>5, <3>1, <3>2
    <3>4. k \in 0..y
      BY <3>3
    <3> QED BY <2>1, <3>4
  <2> QED BY <2>1
<1> QED BY <1>6

\* One turn of the loop.
Turn(c) == [c EXCEPT ![Least(c)] = @ + 1]

\* g is what n turns that begin with c make of it.
IsLoop(g, c, n) == g = [i \in 0..n |-> IF i = 0 THEN c ELSE Turn(g[i - 1])]

\* There is such a function, so that the one the LET of LoopIndex chooses is one.
LEMMA LoopExists ==
    ASSUME NEW c, NEW n \in Nat PROVE \E g : IsLoop(g, c, n)
<1> DEFINE Bad == {k \in 0..n : ~\E g : IsLoop(g, c, k)}
<1> SUFFICES ASSUME Bad # {} PROVE FALSE
  OBVIOUS
<1>1. PICK k \in Bad : \A j \in Bad : k =< j
  <2> Bad \in SUBSET Nat
    OBVIOUS
  <2> HIDE DEF Bad
  <2> QED BY LeastNumber
<1>2. k \in 0..n /\ ~\E g : IsLoop(g, c, k)
  BY <1>1
<1>3. k # 0
  <2>1. IsLoop([i \in 0..0 |-> c], c, 0)
    BY DEF IsLoop
  <2> QED BY <1>2, <2>1
<1>4. PICK g : IsLoop(g, c, k - 1)
  <2>1. k - 1 \in 0..n /\ ~(k =< k - 1)
    BY <1>2, <1>3
  <2> QED BY <1>1, <2>1
<1> DEFINE h == [i \in 0..k |-> IF i = k THEN Turn(g[k - 1]) ELSE g[i]]
<1>5. ASSUME NEW i \in 0..k PROVE h[i] = IF i = 0 THEN c ELSE Turn(h[i - 1])
  <2>1. \A j \in 0..(k - 1) : g[j] = IF j = 0 THEN c ELSE Turn(g[j - 1])
    BY <1>4 DEF IsLoop
  <2>2. k \in Nat /\ k - 1 \in 0..(k-1)
    BY <1>2, <1>3
  <2>3. CASE i = k
    <3>1. h[i] = Turn(g[k - 1]) /\ h[i - 1] = g[k - 1]
      BY <2>2, <2>3
    <3> QED BY <3>1, <2>3, <1>3
  <2>4. CASE i # k
    <3>1. i \in 0..(k-1) /\ h[i] = g[i]
      BY <2>2, <2>4
    <3>2. i # 0 => i - 1 \in 0..(k - 1) /\ i - 1 # k /\ i - 1 \in 0..k
      BY <3>1, <2>2
    <3>3. i # 0 => h[i - 1] = g[i - 1]
      BY <3>2
    <3> HIDE DEF h
    <3> QED BY <2>1, <3>1, <3>3
  <2> QED BY <2>3, <2>4
<1>6. IsLoop(h, c, k)
  <2> DEFINE H == [i \in 0..k |-> IF i = 0 THEN c ELSE Turn(h[i - 1])]
  <2>1. h = [i \in 0..k |-> h[i]]
    OBVIOUS
  <2> HIDE DEF h
  <2>2. h = H
     BY <2>1, <1>5
  <2> QED BY <2>2 DEF IsLoop
<1> QED BY <1>2, <1>6

\* Who takes the turn after n turns: the first ones fill the gap, the others alternate.
LEMMA LoopTurns ==
    ASSUME NEW c \in [Sites -> Nat], NEW n \in Nat, NEW g, IsLoop(g, c, n)
    PROVE  Least(g[n]) = IF n < Gap(c) THEN Least(c) ELSE (n - Gap(c)) % 2
<1> DEFINE Good(i) ==
      /\ g[i] \in [Sites -> Nat]
      /\ i =< Gap(c) => g[i][Least(c)] + (Gap(c) - i) = g[i][Other(Least(c))]
      /\ i >= Gap(c) => g[i][0] - g[i][1] = (i - Gap(c)) % 2
      Bad == {i \in 0..n : ~Good(i)}
<1>1. Gap(c) \in Nat /\ c[0] \in Nat /\ c[1] \in Nat
  BY DEF Gap, Sites
<1>2. g[0] = c /\ \A i \in 1..n : g[i] = Turn(g[i - 1])
  <2>1. \A i \in 0..n : g[i] = IF i = 0 THEN c ELSE Turn(g[i - 1])
    BY DEF IsLoop
  <2> QED BY <2>1
<1>3. Good(0)
  <2>1. c[Least(c)] + Gap(c) = c[Other(Least(c))]
    BY <1>1 DEF Least, Gap, Other
  <2>2. Gap(c) = 0 => c[0] = c[1]
    BY <1>1 DEF Gap
  <2> QED BY <1>1, <1>2, <2>1, <2>2
<1>4. ASSUME NEW i \in 1..n, Good(i - 1) PROVE Good(i)
  <2> DEFINE b == g[i - 1]
  <2>1. b \in [Sites -> Nat] /\ b[0] \in Nat /\ b[1] \in Nat
    BY <1>4 DEF Sites
  <2>2. g[i] = [b EXCEPT ![Least(b)] = @ + 1]
    BY <1>2 DEF Turn
  <2> HIDE DEF b
  <2>3. g[i] \in [Sites -> Nat]
    BY <2>1, <2>2 DEF Least, Sites
  <2>4. CASE i =< Gap(c)
    BY <1>1, <1>4, <2>1, <2>2, <2>3, <2>4 DEF Least, Other, Sites, b
  <2>5. CASE i > Gap(c)
    <3> DEFINE d == (i - 1) - Gap(c)
    <3>1. d \in Nat /\ (i - Gap(c)) = d + 1
      BY <1>1, <2>5
    <3>2. b[0] - b[1] = d % 2
      BY <1>1, <1>4, <2>5 DEF b
    <3> HIDE DEF d
    <3>3. d % 2 \in {0, 1} /\ (d + 1) % 2 = 1 - (d % 2)
      BY <3>1
    <3>4. g[i][0] - g[i][1] = (d + 1) % 2
      BY <2>1, <2>2, <3>1, <3>2, <3>3 DEF Least, Sites
    <3> QED BY <1>1, <2>3, <2>5, <3>1, <3>4
  <2> QED BY <1>1, <2>4, <2>5
<1>5. Good(n)
  <2> SUFFICES ASSUME Bad # {} PROVE FALSE
    OBVIOUS
  <2>1. PICK k \in Bad : \A j \in Bad : k =< j
    <3> Bad \in SUBSET Nat
      OBVIOUS
    <3> HIDE DEF Bad
    <3> QED BY LeastNumber
  <2> HIDE DEF Good
  <2>2. k \in 1..n
    BY <1>3, <2>1
  <2>3. k - 1 \in 0..n /\ k - 1 \notin Bad
    BY <2>1, <2>2
  <2> QED BY <1>4, <2>1, <2>2, <2>3
<1> QED
  BY <1>1, <1>5 DEF Least, Sites, Other

\* The loop of computeMetroPlacementIndex.
LEMMA LoopIs ==
    ASSUME NEW m \in Machines, Before(m) \in Nat
    PROVE \E g : IsLoop(g, Counts(m), Before(m)) /\ LoopIndex(m) = Least(g[Before(m)])
<1> DEFINE c == Counts(m)
           n == Before(m)
           after[i \in 0..n] == IF i = 0 THEN c ELSE [after[i - 1] EXCEPT ![Least(after[i - 1])] = @ + 1]
<1>1. \E g : g = [i \in 0..n |-> IF i = 0 THEN c
            ELSE [g[i - 1] EXCEPT ![Least(g[i - 1])] = @ + 1]]
  <2>1. \E g : IsLoop(g, c, n)
    BY LoopExists
  <2> HIDE DEF c, n
  <2> QED BY <2>1, Zenon DEF IsLoop, Turn
<1> HIDE DEF c, n
<1>2. after = [i \in 0..n |-> IF i = 0 THEN c
            ELSE [after[i - 1] EXCEPT ![Least(after[i - 1])] = @ + 1]]
  BY <1>1 DEF after
<1>3. IsLoop(after, c, n)
  BY <1>2 DEF IsLoop, Turn
<1>4. LoopIndex(m) = Least(after[n])
  BY DEF LoopIndex, c, n
<1> QED BY <1>3, <1>4 DEF c, n

\* The site that computeMetroPlacementIndex picks by the closed form is the one its
\* loop over the pending machines picks, for any number of machines with and without
\* a site.
THEOREM ClosedFormIsLoop == Spec => []LoopAgrees
<1>1. TypeOK => LoopAgrees
  <2> SUFFICES ASSUME TypeOK, NEW m \in Machines
               PROVE  computeMetroPlacementIndex(m) = LoopIndex(m)
    BY DEF LoopAgrees
  <2>1. Before(m) \in Nat /\ Counts(m) \in [Sites -> Nat]
    <3>1. IsFiniteSet({n \in Pending(m) : n < m})
      BY PlacementAssumption, FS_Subset DEF Pending, Siblings
    <3>2. \A s \in Sites : IsFiniteSet({n \in Siblings(m) : o[n].label = s})
      BY PlacementAssumption, FS_Subset DEF Siblings
    <3> QED
      BY <3>1, <3>2, FS_CardinalityType DEF Before, Counts
  <2>2. PICK g : IsLoop(g, Counts(m), Before(m)) /\ LoopIndex(m) = Least(g[Before(m)])
    BY <2>1, LoopIs
  <2> QED
    BY <2>1, <2>2, LoopTurns DEF computeMetroPlacementIndex
<1> QED
  BY <1>1, TypeCorrect, PTL
=============================================================================
