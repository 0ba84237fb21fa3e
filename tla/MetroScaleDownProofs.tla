------------------------ MODULE MetroScaleDownProofs ------------------------
(***************************************************************************)
(* Proofs about MetroScaleDown, for any number of machines.                *)
(***************************************************************************)
EXTENDS MetroScaleDown, FiniteSetTheorems, TLAPS

USE ScaleAssumption

\* The counts that selectVictims works with.
LEMMA Counted ==
    ASSUME NEW v \in View
    PROVE  /\ Apart(Count(v)) \in Nat
           /\ Cardinality(Live(v)) \in Nat /\ Cardinality(Machines) \in Nat
           /\ Surplus(v) \in Nat
<1>1. \A S \in SUBSET Machines : IsFiniteSet(S) /\ Cardinality(S) \in Nat
  BY FS_Subset, FS_CardinalityType
<1>2. \A s \in Sites : Count(v)[s] \in Nat
  <2> TAKE s \in Sites
  <2>1. {m \in Known(v) : v.site[m] = s} \in SUBSET Machines
    BY DEF Known, Live
  <2> QED
    BY <1>1, <2>1 DEF Count
<1>3. Apart(Count(v)) \in Nat
  BY <1>2 DEF Apart, Sites
<1>4. Live(v) \in SUBSET Machines /\ Machines \in SUBSET Machines
  BY DEF Live
<1>5. Cardinality(Live(v)) \in Nat /\ Cardinality(Machines) \in Nat
  BY <1>1, <1>4
<1>6. v.replicas \in Nat
  BY DEF View
<1>7. Surplus(v) \in Nat
  BY <1>5, <1>6 DEF Surplus
<1> QED
  BY <1>3, <1>5, <1>7

\* Every view of the cache holds its copies of the objects, one kind at a time.
LEMMA Synced ==
    ASSUME TypeOK, SyncSet \/ SyncMachines \/ SyncNutanixMachines
    PROVE  /\ cache' \in View /\ cache'.replicas \in 0..Cardinality(Machines)
           /\ cache'.mark \in {mark, cache.mark}
<1>1. /\ replicas \in Nat /\ skip \in Skips
      /\ st \in [Machines -> {"absent", "live", "gone"}]
      /\ site \in [Machines -> Sites \cup {None}]
      /\ mark \in [Machines -> SUBSET {"delete", "managed"}]
  BY DEF TypeOK, Now, View
<1>2. cache \in View /\ {replicas, cache.replicas} \subseteq 0..Cardinality(Machines)
  BY DEF TypeOK
<1>3. CASE SyncSet
  BY <1>1, <1>2, <1>3 DEF SyncSet, View
<1>4. CASE SyncMachines
  BY <1>1, <1>2, <1>4 DEF SyncMachines, View
<1>5. CASE SyncNutanixMachines
  BY <1>1, <1>2, <1>5 DEF SyncNutanixMachines, View
<1> QED
  BY <1>3, <1>4, <1>5

\* An annotation that only an operator has put on a machine while the balancer did not
\* take it for its own is not taken for one later, by the cache or by a pass.
Foreign == \A m \in Machines \ crossed :
             mark[m] = {"delete"} => m \notin off /\ "managed" \notin cache.mark[m]

IInv == TypeOK /\ Foreign

LEMMA Step ==
    ASSUME IInv, [Next]_vars
    PROVE  IInv' /\ \A m \in Machines \ crossed : mark[m] = {"delete"} => "delete" \in mark'[m]
<1> DEFINE Stays == \A m \in Machines \ crossed : mark[m] = {"delete"} => "delete" \in mark'[m]
<1> USE DEF IInv
<1>0. /\ replicas \in 0..Cardinality(Machines) /\ skip \in Skips
      /\ st \in [Machines -> {"absent", "live", "gone"}]
      /\ site \in [Machines -> Sites \cup {None}]
      /\ mark \in [Machines -> SUBSET {"delete", "managed"}]
      /\ cache \in View /\ cache.replicas \in 0..Cardinality(Machines)
      /\ Cardinality(Machines) \in Nat
  BY FS_CardinalityType DEF TypeOK, Now, View
<1>a. ASSUME replicas' \in 0..Cardinality(Machines), skip' \in Skips,
             st' \in [Machines -> {"absent", "live", "gone"}],
             site' \in [Machines -> Sites \cup {None}],
             mark' \in [Machines -> SUBSET {"delete", "managed"}]
      PROVE  (Now \in View)' /\ replicas' \in 0..Cardinality(Machines)
  <2>1. replicas' \in Nat
    BY <1>0, <1>a
  <2> QED
    BY <1>a, <2>1 DEF Now, View
<1>1. CASE UNCHANGED vars
  BY <1>1 DEF vars, TypeOK, Foreign, Now, View
<1>2. CASE Reconcile
  <2>1. on' \in SUBSET Machines /\ off' \in SUBSET Machines /\ \A m \in off' : "managed" \in cache.mark[m]
    BY <1>2 DEF Reconcile, ToMark, ToClear, selectVictims, Known, Live
  <2>2. UNCHANGED <<replicas, skip, st, site, mark, cache, goal, crossed, events>>
    BY <1>2 DEF Reconcile, server
  <2>3. TypeOK'
    BY <2>1, <2>2 DEF TypeOK, Now, View
  <2>4. Foreign' /\ Stays
    BY <2>1, <2>2 DEF Foreign
  <2> QED
    BY <2>3, <2>4
<1>3. CASE SyncSet \/ SyncMachines \/ SyncNutanixMachines
  <2>1. UNCHANGED <<replicas, skip, st, site, mark, on, off, goal, crossed, events>>
    BY <1>3 DEF SyncSet, SyncMachines, SyncNutanixMachines, server
  <2>2. cache' \in View /\ cache'.replicas \in 0..Cardinality(Machines)
    BY <1>3, Synced
  <2>3. cache'.mark \in {mark, cache.mark}
    BY <1>3, Synced
  <2>4. TypeOK'
    BY <2>1, <2>2 DEF TypeOK, Now, View
  <2>5. Foreign' /\ Stays
    BY <2>1, <2>3 DEF Foreign
  <2> QED
    BY <2>4, <2>5
<1>4. ASSUME NEW m \in Machines, Patch(m)
      PROVE  IInv' /\ Stays
  <2>1. events' \in 0..MaxEvents
    BY <1>4 DEF Patch, Event, TypeOK
  <2>2. UNCHANGED <<replicas, skip, st, site, cache, goal, crossed>> /\ m \in on \cup off
    BY <1>4 DEF Patch, server
  <2>3. CASE UNCHANGED mark /\ on' \subseteq on /\ off' \subseteq off
    <3>1. TypeOK'
      BY <2>1, <2>2, <2>3 DEF TypeOK, Now, View
    <3>2. Foreign' /\ Stays
      BY <2>2, <2>3 DEF Foreign
    <3> QED
      BY <3>1, <3>2
  <2>4. CASE /\ mark' = [mark EXCEPT ![m] = IF m \in on THEN {"delete", "managed"} ELSE {}]
             /\ on' = on \ {m} /\ off' = off \ {m}
    <3>1. mark' \in [Machines -> SUBSET {"delete", "managed"}]
      BY <1>0, <2>4
    <3>2. TypeOK'
      BY <1>0, <1>a, <2>1, <2>2, <2>4, <3>1 DEF TypeOK
    <3>3. Foreign'
      BY <1>0, <2>2, <2>4 DEF Foreign
    <3>4. m \notin crossed /\ mark[m] = {"delete"} => m \in on
      BY <2>2 DEF Foreign
    <3>5. Stays
      BY <1>0, <2>4, <3>4
    <3> QED
      BY <3>2, <3>3, <3>5
  <2> QED
    BY <1>4, <2>3, <2>4 DEF Patch
<1>5. ASSUME UNCHANGED <<mark, cache, on, off, crossed>>, TypeOK' PROVE IInv' /\ Stays
  BY <1>5 DEF Foreign
<1>6. CASE Scale \/ Unpause \/ DeleteSet
  <2>1. UNCHANGED <<st, site, mark, cache, on, off, crossed>>
    BY <1>6 DEF Scale, Unpause, DeleteSet, balancer
  <2>2. replicas' \in 0..Cardinality(Machines) /\ skip' \in Skips
    BY <1>0, <1>6 DEF Scale, Unpause, DeleteSet, Skips
  <2>3. goal' \in Nat \cup {None} /\ events' \in 0..MaxEvents
    BY <1>6 DEF Scale, Unpause, DeleteSet, Disturbed, Event, TypeOK
  <2>4. TypeOK'
    BY <1>0, <1>a, <2>1, <2>2, <2>3 DEF TypeOK
  <2> QED
    BY <1>5, <2>1, <2>4
<1>7. ASSUME NEW m \in Machines, Add(m) \/ Place(m) \/ Vanish(m)
      PROVE  IInv' /\ Stays
  <2>1. UNCHANGED <<replicas, skip, mark, cache, on, off, crossed>>
    BY <1>7 DEF Add, Place, Vanish, balancer
  <2>2. /\ st' \in [Machines -> {"absent", "live", "gone"}]
        /\ site' \in [Machines -> Sites \cup {None}]
    BY <1>0, <1>7 DEF Add, Place, Vanish
  <2>3. goal' \in Nat \cup {None} /\ events' \in 0..MaxEvents
    BY <1>7 DEF Add, Place, Vanish, Disturbed, Event, TypeOK
  <2>4. TypeOK'
    BY <1>0, <1>a, <2>1, <2>2, <2>3 DEF TypeOK
  <2> QED
    BY <1>5, <2>1, <2>4
<1>8. ASSUME NEW m \in Machines, OperatorMarks(m)
      PROVE  IInv' /\ Stays
  <2>1. /\ UNCHANGED <<replicas, skip, st, site, cache, on, off>>
        /\ mark' = [mark EXCEPT ![m] = @ \cup {"delete"}] /\ goal' = None
        /\ crossed' = IF "managed" \in cache.mark[m] \/ m \in off THEN crossed \cup {m}
                                                                  ELSE crossed \ {m}
    BY <1>8 DEF OperatorMarks, Disturbed, balancer
  <2>2. events' \in 0..MaxEvents
    BY <1>8 DEF OperatorMarks, Event, TypeOK
  <2>3. mark' \in [Machines -> SUBSET {"delete", "managed"}]
    BY <1>0, <2>1
  <2>4. TypeOK'
    BY <1>0, <1>a, <2>1, <2>2, <2>3 DEF TypeOK
  <2>5. ASSUME NEW n \in Machines \ crossed', mark'[n] = {"delete"}
        PROVE  n \notin off' /\ "managed" \notin cache'.mark[n]
    <3>1. CASE n = m
      BY <2>1, <2>5, <3>1
    <3>2. CASE n # m
      BY <1>0, <2>1, <2>5, <3>2 DEF Foreign
    <3> QED
      BY <3>1, <3>2
  <2>6. Stays
    BY <1>0, <2>1
  <2> QED
    BY <2>4, <2>5, <2>6 DEF Foreign
<1>9. ASSUME NEW m \in Machines, ScaleDown(m)
      PROVE  IInv' /\ Stays
  <2>1. /\ UNCHANGED <<replicas, skip, site, mark, cache, on, off, crossed, events>>
        /\ st' = [st EXCEPT ![m] = "gone"]
        /\ goal' \in {None, goal, Apart(Count(Now)) - Surplus(Now), 1}
        /\ goal' = Apart(Count(Now)) - Surplus(Now) /\ goal' # goal /\ goal' # None /\ goal' # 1
              => Apart(Count(Now)) > Surplus(Now)
    BY <1>9 DEF ScaleDown, balancer
  <2>2. goal' \in Nat \cup {None}
    BY <2>1, Counted DEF TypeOK
  <2>3. st' \in [Machines -> {"absent", "live", "gone"}]
    BY <1>0, <2>1
  <2>4. TypeOK'
    BY <1>0, <1>a, <2>1, <2>2, <2>3 DEF TypeOK
  <2> QED
    BY <1>5, <2>1, <2>4
<1> QED
  BY <1>1, <1>2, <1>3, <1>4, <1>6, <1>7, <1>8, <1>9 DEF Next

LEMMA Start ==
    ASSUME Init
    PROVE  IInv
<1>1. Cardinality(Machines) \in Nat
  BY FS_CardinalityType
<1>2. Now \in View
  BY <1>1 DEF Init, Now, View, Skips
<1>3. cache = Now /\ Now.mark = mark /\ Now.replicas = replicas
  BY DEF Init, Now
<1>4. TypeOK
  BY <1>1, <1>2, <1>3 DEF Init, TypeOK
<1>5. Foreign
  BY DEF Init, Foreign
<1> QED
  BY <1>4, <1>5 DEF IInv

\* The type invariant, for any set of machines and number of events.
THEOREM TypeCorrect == Spec => []TypeOK
  BY Start, Step, PTL DEF Spec, IInv

\* No step of the balancer or of anything around it takes an annotation away that only
\* an operator has put there, however far the cache is behind, unless he put it there
\* while the cache or the pass still had the balancer's own.  applyDeleteAnnotations.
THEOREM OperatorMarkKept == Spec => OperatorMarkStays
<1>1. IInv /\ [Next]_vars
        => [\A m \in Machines \ crossed : mark[m] = {"delete"} => "delete" \in mark'[m]]_vars
  BY Step
<1> QED
  BY <1>1, Start, Step, PTL DEF Spec, OperatorMarkStays

-----------------------------------------------------------------------------
(* What selectVictims selects.  The inductions are choices of a smallest   *)
(* counterexample.                                                         *)

\* Of the subsets of a finite set that belong to a family one is smallest.
LEMMA SmallestSet ==
    ASSUME NEW S, NEW F, F \subseteq SUBSET S, IsFiniteSet(S), F # {}
    PROVE  \E A \in F : \A B \in F : B \subseteq A => B = A
<1>1. IsWellFoundedOn(StrictSubsetOrdering(S), SUBSET S)
  BY FS_StrictSubsetOrderingWellFounded, FS_FiniteSubsetsOfFinite
<1>2. \E A \in F : \A B \in F : ~(<<B, A>> \in StrictSubsetOrdering(S))
  <2> F \subseteq SUBSET S
    OBVIOUS
  <2> QED BY <1>1, WFMin
<1> QED
  BY <1>2 DEF StrictSubsetOrdering

\* Hence a set of numbers has a least one.
LEMMA LeastNumber ==
    ASSUME NEW T \in SUBSET Nat, T # {}
    PROVE  \E x \in T : \A y \in T : x =< y
<1>1. PICK n \in T : TRUE
  OBVIOUS
<1> DEFINE U == 0..n
           F == {0..k : k \in {j \in T : j =< n}}
<1>2. F \subseteq SUBSET U /\ F # {}
  BY <1>1
<1>3. IsFiniteSet(U)
  BY FS_Interval
<1> HIDE DEF F, U
<1>4. PICK A \in F : \A B \in F : B \subseteq A => B = A
  BY <1>2, <1>3, SmallestSet
<1>5. PICK k \in T : k =< n /\ A = 0..k
  BY <1>4 DEF F
<1>6. ASSUME NEW y \in T PROVE k =< y
  <2>1. CASE y < k
    <3>1. 0..y \in F
      BY <1>1, <1>5, <2>1 DEF F
    <3>2. 0..y \subseteq A
      BY <1>5, <2>1
    <3>3. 0..y = 0..k
      BY <1>4, <1>5, <3>1, <3>2
    <3>4. k \in 0..y
      BY <3>3
    <3> QED BY <2>1, <3>4
  <2> QED BY <2>1
<1> QED BY <1>6

\* A finite set of numbers has a greatest one.
LEMMA Newest ==
    ASSUME NEW T \in SUBSET Nat, IsFiniteSet(T), T # {}
    PROVE  \E x \in T : {y \in T : y > x} = {}
<1> DEFINE Above(x) == {y \in T : y > x}
           F == {Above(x) : x \in T}
           U == T
<1>1. F \subseteq SUBSET U /\ F # {} /\ IsFiniteSet(U)
  OBVIOUS
<1> HIDE DEF F, U
<1>2. PICK A \in F : \A B \in F : B \subseteq A => B = A
  BY <1>1, SmallestSet
<1>3. PICK x \in T : A = Above(x)
  BY <1>2 DEF F
<1>4. ASSUME NEW y \in Above(x) PROVE FALSE
  <2>1. y \in T /\ y \in Above(x)
    BY <1>4
  <2>2. y \notin Above(y) /\ Above(y) \in F
    BY <2>1 DEF F
  <2>3. Above(y) \subseteq Above(x)
    <3>1. x \in Nat /\ y \in Nat /\ y > x /\ T \subseteq Nat
      BY <1>3, <2>1
    <3>2. \A z \in Nat : z > y => z > x
      BY <3>1
    <3> QED
      BY <3>1, <3>2
  <2> QED
    BY <1>2, <1>3, <2>1, <2>2, <2>3
<1> QED
  BY <1>4

\* One machine less on the fuller site.
Drain(c) == [c EXCEPT ![Fuller(c)] = @ - 1]

\* g is what n of these steps that begin with c make of it.
IsLoop(g, c, n) == g = [i \in 0..n |-> IF i = 0 THEN c ELSE Drain(g[i - 1])]

\* There is such a function, so that the one the LET of Kept chooses is one.
LEMMA LoopExists ==
    ASSUME NEW c, NEW n \in Nat PROVE \E g : IsLoop(g, c, n)
<1> DEFINE Bad == {k \in 0..n : ~\E g : IsLoop(g, c, k)}
<1> SUFFICES ASSUME Bad # {} PROVE FALSE
  OBVIOUS
<1>1. PICK k \in Bad : \A j \in Bad : k =< j
  <2> Bad \in SUBSET Nat
    OBVIOUS
  <2> HIDE DEF Bad
  <2> QED BY LeastNumber
<1>2. k \in 0..n /\ ~\E g : IsLoop(g, c, k)
  BY <1>1
<1>3. k # 0
  <2>1. IsLoop([i \in 0..0 |-> c], c, 0)
    BY DEF IsLoop
  <2> QED BY <1>2, <2>1
<1>4. PICK g : IsLoop(g, c, k - 1)
  <2>1. k - 1 \in 0..n /\ ~(k =< k - 1)
    BY <1>2, <1>3
  <2> QED BY <1>1, <2>1
<1> DEFINE h == [i \in 0..k |-> IF i = k THEN Drain(g[k - 1]) ELSE g[i]]
<1>5. ASSUME NEW i \in 0..k PROVE h[i] = IF i = 0 THEN c ELSE Drain(h[i - 1])
  <2>1. \A j \in 0..(k - 1) : g[j] = IF j = 0 THEN c ELSE Drain(g[j - 1])
    BY <1>4 DEF IsLoop
  <2>2. k \in Nat /\ k - 1 \in 0..(k-1)
    BY <1>2, <1>3
  <2>3. CASE i = k
    <3>1. h[i] = Drain(g[k - 1]) /\ h[i - 1] = g[k - 1]
      BY <2>2, <2>3
    <3> QED BY <3>1, <2>3, <1>3
  <2>4. CASE i # k
    <3>1. i \in 0..(k-1) /\ h[i] = g[i]
      BY <2>2, <2>4
    <3>2. i # 0 => i - 1 \in 0..(k - 1) /\ i - 1 # k /\ i - 1 \in 0..k
      BY <3>1, <2>2
    <3>3. i # 0 => h[i - 1] = g[i - 1]
      BY <3>2
    <3> HIDE DEF h
    <3> QED BY <2>1, <3>1, <3>3
  <2> QED BY <2>3, <2>4
<1>6. IsLoop(h, c, k)
  <2> DEFINE H == [i \in 0..k |-> IF i = 0 THEN c ELSE Drain(h[i - 1])]
  <2>1. h = [i \in 0..k |-> h[i]]
    OBVIOUS
  <2> HIDE DEF h
  <2>2. h = H
     BY <2>1, <1>5
  <2> QED BY <2>2 DEF IsLoop
<1> QED BY <1>2, <1>6

\* The fuller site loses a machine in the first step, and is the only one that loses any
\* until the sites are even.
LEMMA LoopDrains ==
    ASSUME NEW c \in [Sites -> Nat], NEW n \in Nat, NEW g, IsLoop(g, c, n)
    PROVE  /\ g[n] \in [Sites -> Int]
           /\ n > 0 => g[n][Fuller(c)] < c[Fuller(c)]
           /\ n =< Apart(c) => g[n][Other(Fuller(c))] = c[Other(Fuller(c))]
<1> DEFINE f == Fuller(c)
           Good(i) ==
             /\ g[i] \in [Sites -> Int]
             /\ i > 0 => g[i][f] < c[f]
             /\ i =< Apart(c) => g[i][Other(f)] = c[Other(f)] /\ g[i][f] = c[f] - i
           Bad == {i \in 0..n : ~Good(i)}
<1>1. Apart(c) \in Nat /\ c[0] \in Nat /\ c[1] \in Nat
  BY DEF Apart, Sites
<1>2. g[0] = c /\ \A i \in 1..n : g[i] = Drain(g[i - 1])
  <2>1. \A i \in 0..n : g[i] = IF i = 0 THEN c ELSE Drain(g[i - 1])
    BY DEF IsLoop
  <2> QED BY <2>1
<1>3. Good(0)
  BY <1>1, <1>2 DEF Fuller, Sites, Other
<1>4. ASSUME NEW i \in 1..n, Good(i - 1) PROVE Good(i)
  <2> DEFINE b == g[i - 1]
  <2>1. b \in [Sites -> Int] /\ b[0] \in Int /\ b[1] \in Int
    BY <1>4 DEF Sites
  <2>2. g[i] = [b EXCEPT ![Fuller(b)] = @ - 1]
    BY <1>2 DEF Drain
  <2>3. /\ i - 1 > 0 => b[f] < c[f]
        /\ i - 1 =< Apart(c) => b[Other(f)] = c[Other(f)] /\ b[f] = c[f] - (i - 1)
        /\ i - 1 = 0 => b = c
    BY <1>2, <1>4
  <2> HIDE DEF b
  <2>4. g[i] \in [Sites -> Int]
    BY <2>1, <2>2 DEF Fuller, Sites
  <2>5. i > 0 => g[i][f] < c[f]
    BY <1>1, <2>1, <2>2, <2>3 DEF Fuller, Sites
  <2>6. ASSUME i =< Apart(c)
        PROVE  g[i][Other(f)] = c[Other(f)] /\ g[i][f] = c[f] - i
    <3>1. b[Other(f)] = c[Other(f)] /\ b[f] = c[f] - (i - 1)
      BY <1>1, <2>3, <2>6
    <3>2. Fuller(b) = f
      BY <1>1, <2>1, <2>6, <3>1 DEF Fuller, Apart, Other
    <3> QED
      BY <1>1, <2>1, <2>2, <3>1, <3>2 DEF Fuller, Other, Sites
  <2> QED BY <2>4, <2>5, <2>6
<1>5. Good(n)
  <2> SUFFICES ASSUME Bad # {} PROVE FALSE
    OBVIOUS
  <2>1. PICK k \in Bad : \A j \in Bad : k =< j
    <3> Bad \in SUBSET Nat
      OBVIOUS
    <3> HIDE DEF Bad
    <3> QED BY LeastNumber
  <2> HIDE DEF Good
  <2>2. k \in 1..n
    BY <1>3, <2>1
  <2>3. k - 1 \in 0..n /\ k - 1 \notin Bad
    BY <2>1, <2>2
  <2> QED BY <1>4, <2>1, <2>2, <2>3
<1> QED
  BY <1>5

\* What Kept keeps is what such a loop ends with.
LEMMA KeptLoops ==
    ASSUME NEW v, HowMany(v) \in Nat
    PROVE  \E g : IsLoop(g, Count(v), HowMany(v)) /\ Kept(v) = g[HowMany(v)]
<1> DEFINE c == Count(v)
           n == HowMany(v)
           after[i \in 0..n] == IF i = 0 THEN c ELSE [after[i - 1] EXCEPT ![Fuller(after[i - 1])] = @ - 1]
<1>1. \E g : g = [i \in 0..n |-> IF i = 0 THEN c
            ELSE [g[i - 1] EXCEPT ![Fuller(g[i - 1])] = @ - 1]]
  <2>1. \E g : IsLoop(g, c, n)
    BY LoopExists
  <2> HIDE DEF c, n
  <2> QED BY <2>1, Zenon DEF IsLoop, Drain
<1> HIDE DEF c, n
<1>2. after = [i \in 0..n |-> IF i = 0 THEN c
            ELSE [after[i - 1] EXCEPT ![Fuller(after[i - 1])] = @ - 1]]
  BY <1>1 DEF after
<1>3. IsLoop(after, c, n)
  BY <1>2 DEF IsLoop, Drain
<1>4. Kept(v) = after[n]
  BY DEF Kept, c, n
<1> HIDE DEF after
<1> QED
  BY <1>3, <1>4 DEF c, n

LEMMA KeptDrains ==
    ASSUME NEW v, Count(v) \in [Sites -> Nat], HowMany(v) \in Nat
    PROVE  /\ Kept(v) \in [Sites -> Int]
           /\ HowMany(v) > 0 => Kept(v)[Fuller(Count(v))] < Count(v)[Fuller(Count(v))]
           /\ HowMany(v) =< Apart(Count(v))
                => Kept(v)[Other(Fuller(Count(v)))] = Count(v)[Other(Fuller(Count(v)))]
<1>1. PICK g : IsLoop(g, Count(v), HowMany(v)) /\ Kept(v) = g[HowMany(v)]
  BY KeptLoops
<1> QED
  BY <1>1, LoopDrains

-----------------------------------------------------------------------------
(* The balance of a scale-down.                                            *)

\* What is left to delete of a scale-down that found its annotations up to date
\* is enough to bring the sites as close together as its goal says.
WithinGoal == goal # None => goal >= 1 /\ Apart(Count(Now)) - Surplus(Now) =< goal

\* The counts of the machines, as numbers.
LEMMA Numbers ==
    ASSUME NEW v \in View
    PROVE  /\ Count(v) \in [Sites -> Nat]
           /\ HowMany(v) \in Nat
           /\ \A S \in SUBSET Machines : IsFiniteSet(S) /\ Cardinality(S) \in Nat
<1>1. \A S \in SUBSET Machines : IsFiniteSet(S) /\ Cardinality(S) \in Nat
  BY FS_Subset, FS_CardinalityType
<1>2. ASSUME NEW s \in Sites
      PROVE  Cardinality({m \in Known(v) : v.site[m] = s}) \in Nat
  BY <1>1 DEF Known, Live
<1>3. Count(v) \in [Sites -> Nat]
  BY <1>2 DEF Count
<1>4. siteExcess(Count(v)) \in Nat
  BY Counted DEF siteExcess
<1>5. Cardinality(Known(v)) \in Nat
  BY <1>1 DEF Known, Live
<1>6. HowMany(v) \in Nat
  BY <1>4, <1>5, Counted DEF HowMany
<1> QED
  BY <1>1, <1>3, <1>6

\* A site that is to lose machines has one among the victims: its newest.
LEMMA SomeVictim ==
    ASSUME NEW v \in View, NEW s \in Sites, Count(v)[s] # 0,
           Kept(v) \in [Sites -> Int], Kept(v)[s] < Count(v)[s]
    PROVE  \E m \in selectVictims(v) : v.site[m] = s
<1> DEFINE T == {m \in Known(v) : v.site[m] = s}
<1>1. T \in SUBSET Machines /\ IsFiniteSet(T)
  BY Numbers DEF Known, Live
<1>2. Count(v)[s] = Cardinality(T)
  BY DEF Count
<1>3. T # {}
  <2> HIDE DEF T
  <2> QED
    BY <1>2, FS_EmptySet
<1>4. T \in SUBSET Nat
  BY <1>1
<1> HIDE DEF T
<1>5. PICK x \in T : {y \in T : y > x} = {}
  BY <1>1, <1>3, <1>4, Newest
<1> USE DEF T
<1>6. {n \in Known(v) : v.site[n] = v.site[x] /\ n > x} = {}
  BY <1>5
<1>7. Cardinality({n \in Known(v) : v.site[n] = v.site[x] /\ n > x}) = 0
  BY <1>6, FS_EmptySet
<1>8. Count(v)[s] - Kept(v)[s] > 0
  BY Numbers
<1> QED
  BY <1>5, <1>7, <1>8 DEF selectVictims

\* While the annotations are up to date and only the balancer's own, the machine
\* that a scale-down deletes is a victim, and one of the fuller site unless more
\* machines go than the sites are apart.
LEMMA VictimGoes ==
    ASSUME NEW v \in View, NEW m \in Live(v), Surplus(v) > 0, Settled(v), Known(v) = Live(v),
           \A n \in Live(v) : v.mark[n] # {"delete"},
           "delete" \in v.mark[m] \/ \A n \in Live(v) : "delete" \notin v.mark[n]
    PROVE  /\ v.site[m] \in Sites
           /\ v.site[m] = Fuller(Count(v)) \/ Surplus(v) > Apart(Count(v))
<1>1. HowMany(v) = Surplus(v)
  <2>1. Surplus(v) =< Cardinality(Live(v))
    BY Counted DEF Surplus, View
  <2> QED
    BY <2>1, Counted DEF HowMany
<1>2. /\ Kept(v) \in [Sites -> Int]
      /\ Kept(v)[Fuller(Count(v))] < Count(v)[Fuller(Count(v))]
      /\ Surplus(v) =< Apart(Count(v)) => Kept(v)[Other(Fuller(Count(v)))] = Count(v)[Other(Fuller(Count(v)))]
  BY <1>1, KeptDrains, Numbers
<1>3. ASSUME NEW n \in Live(v), "delete" \in v.mark[n]
      PROVE  n \in selectVictims(v)
  <2>1. v.mark[n] \subseteq {"delete", "managed"} /\ v.mark[n] # {"delete"}
    BY DEF Live, View
  <2>2. "managed" \in v.mark[n]
    BY <1>3, <2>1
  <2> QED
    BY <2>2 DEF Settled
<1>4. PICK x \in selectVictims(v) : v.site[x] = Fuller(Count(v))
  <2>1. Fuller(Count(v)) \in Sites
    BY DEF Fuller, Sites
  <2>2. v.site[m] \in Sites
    BY DEF Known, Live, View
  <2>3. Count(v)[v.site[m]] # 0
    <3> DEFINE T == {n \in Known(v) : v.site[n] = v.site[m]}
    <3>1. IsFiniteSet(T) /\ m \in T
      BY Numbers DEF Known, Live
    <3>2. Count(v)[v.site[m]] = Cardinality(T)
      BY <2>2 DEF Count
    <3> HIDE DEF T
    <3> QED
      BY <3>1, <3>2, FS_EmptySet
  <2>4. Count(v)[Fuller(Count(v))] # 0
    BY <2>2, <2>3, Numbers DEF Fuller, Sites
  <2> QED
    BY <1>2, <2>1, <2>4, SomeVictim
<1>5. x \in Live(v) /\ "delete" \in v.mark[x]
  BY <1>4 DEF Settled, selectVictims, Known
<1>6. m \in selectVictims(v)
  BY <1>3, <1>5
<1>7. v.site[m] \in Sites
  BY <1>6 DEF selectVictims, Known, Live, View
<1>8. Kept(v)[v.site[m]] # Count(v)[v.site[m]]
  <2> DEFINE T == {n \in Known(v) : v.site[n] = v.site[m] /\ n > m}
  <2>1. T \in SUBSET Machines
    BY DEF Known, Live
  <2>2. Cardinality(T) \in Nat
    BY <2>1, Numbers
  <2>3. Cardinality(T) < Count(v)[v.site[m]] - Kept(v)[v.site[m]]
    BY <1>6 DEF selectVictims
  <2> HIDE DEF T
  <2> QED
    BY <2>2, <2>3, <1>2, <1>7, Numbers
<1>9. v.site[m] # Fuller(Count(v)) => v.site[m] = Other(Fuller(Count(v)))
  BY <1>7 DEF Sites, Fuller, Other
<1> QED
  BY <1>2, <1>7, <1>8, <1>9, Counted

\* A placed machine that goes is one less on its site and one less in all.
LEMMA OneLess ==
    ASSUME NEW v \in View, NEW w \in View, NEW m \in Live(v), v.site[m] \in Sites, Surplus(v) > 0,
           w.st = [v.st EXCEPT ![m] = "gone"], w.site = v.site, w.replicas = v.replicas
    PROVE  /\ Count(w) = [Count(v) EXCEPT ![v.site[m]] = @ - 1]
           /\ Surplus(w) = Surplus(v) - 1
<1>1. m \in Machines /\ Live(w) = Live(v) \ {m} /\ Known(w) = Known(v) \ {m} /\ m \in Known(v)
  BY NoneAssumption DEF Live, Known, View
<1> DEFINE At(s) == {n \in Known(v) : v.site[n] = s}
<1>2. \A s \in Sites : At(s) \in SUBSET Machines
  BY DEF Known, Live
<1>3. \A s \in Sites : {n \in Known(w) : w.site[n] = s} = At(s) \ {m}
  BY <1>1
<1>4. Count(w) = [s \in Sites |-> Cardinality(At(s) \ {m})]
  BY <1>3 DEF Count
<1>5. \A s \in Sites : Cardinality(At(s) \ {m})
                        = IF s = v.site[m] THEN Cardinality(At(s)) - 1 ELSE Cardinality(At(s))
  <2> TAKE s \in Sites
  <2>1. IsFiniteSet(At(s))
    BY <1>2, Numbers
  <2>2. m \in At(s) <=> s = v.site[m]
    BY <1>1
  <2> HIDE DEF At
  <2> QED
    BY <2>1, <2>2, FS_RemoveElement
<1>6. Count(v) = [s \in Sites |-> Cardinality(At(s))]
  BY DEF Count
<1>7. Count(w) = [Count(v) EXCEPT ![v.site[m]] = @ - 1]
  <2> DEFINE d == v.site[m]
             n(s) == Cardinality(At(s))
  <2>1. Count(w) = [s \in Sites |-> IF s = d THEN n(s) - 1 ELSE n(s)]
    BY <1>4, <1>5
  <2>2. d \in Sites /\ Count(v) = [s \in Sites |-> n(s)]
    BY <1>6
  <2> HIDE DEF n, d
  <2>3. [s \in Sites |-> IF s = d THEN n(s) - 1 ELSE n(s)]
          = [[s \in Sites |-> n(s)] EXCEPT ![d] = @ - 1]
    BY <2>2
  <2> QED
    BY <2>1, <2>2, <2>3 DEF d
<1>8. Cardinality(Live(w)) = Cardinality(Live(v)) - 1
  <2>1. Live(v) \in SUBSET Machines
    BY DEF Live
  <2>2. IsFiniteSet(Live(v))
    BY <2>1, Numbers
  <2>3. Cardinality(Live(v) \ {m}) = Cardinality(Live(v)) - 1
    BY <2>2, FS_RemoveElement
  <2> QED
    BY <1>1, <2>3
<1>9. v.replicas \in Nat /\ Cardinality(Live(v)) \in Nat
  BY Counted DEF View
<1>10. Surplus(w) = Surplus(v) - 1
  BY <1>8, <1>9 DEF Surplus
<1> QED
  BY <1>7, <1>10

\* A deletion on the fuller site, or one of more than the sites are apart, leaves
\* what remains to delete enough.
LEMMA Closer ==
    ASSUME NEW c \in [Sites -> Nat], NEW s \in Sites, NEW k \in Nat, k > 0,
           s = Fuller(c) \/ k > Apart(c)
    PROVE  LET d == [c EXCEPT ![s] = @ - 1]
               best == IF Apart(c) > k THEN Apart(c) - k ELSE 1
           IN Apart(d) - (k - 1) =< best
<1> DEFINE d == [c EXCEPT ![s] = @ - 1]
<1>1. c[0] \in Nat /\ c[1] \in Nat /\ s \in {0, 1}
  BY DEF Sites
<1>2. /\ d[0] = IF s = 0 THEN c[0] - 1 ELSE c[0]
      /\ d[1] = IF s = 1 THEN c[1] - 1 ELSE c[1]
  BY DEF Sites
<1> HIDE DEF d
<1>3. Apart(d) - (k - 1) =< IF Apart(c) > k THEN Apart(c) - k ELSE 1
  BY <1>1, <1>2 DEF Apart, Fuller
<1> QED
  BY <1>3 DEF d

LEMMA BalanceStep ==
    ASSUME IInv, WithinGoal, [Next]_vars
    PROVE  WithinGoal'
<1> USE DEF IInv
<1>1. CASE UNCHANGED <<replicas, st, site, goal>>
  <2>1. Count(Now') = Count(Now) /\ Surplus(Now') = Surplus(Now)
    BY <1>1 DEF Now, Count, Known, Live, Surplus
  <2> QED
    BY <1>1, <2>1 DEF WithinGoal, Apart
<1>2. CASE goal' = None
  BY <1>2 DEF WithinGoal
<1>3. ASSUME NEW m \in Machines, ScaleDown(m), goal' # None
      PROVE  WithinGoal'
  <2> DEFINE v == Now
             w == Now'
             best == IF Apart(Count(v)) > Surplus(v) THEN Apart(Count(v)) - Surplus(v) ELSE 1
  <2>1. /\ m \in Live(v) /\ Surplus(v) > 0 /\ Settled(v) /\ Known(v) = Live(v)
        /\ \A n \in Live(v) : mark[n] # {"delete"}
        /\ "delete" \in mark[m] \/ \A n \in Live(v) : "delete" \notin mark[n]
        /\ goal' = IF goal = None THEN best ELSE goal
    BY <1>3 DEF ScaleDown
  <2>2. /\ v \in View /\ w \in View /\ v.mark = mark
        /\ w.st = [v.st EXCEPT ![m] = "gone"] /\ w.site = v.site /\ w.replicas = v.replicas
    <3>1. v \in View /\ w \in View
      BY Step DEF TypeOK
    <3> QED
      BY <1>3, <3>1 DEF ScaleDown, Now
  <2> HIDE DEF v, w
  <2>3. v.site[m] \in Sites /\ (v.site[m] = Fuller(Count(v)) \/ Surplus(v) > Apart(Count(v)))
    BY <2>1, <2>2, VictimGoes
  <2>4. Count(w) = [Count(v) EXCEPT ![v.site[m]] = @ - 1] /\ Surplus(w) = Surplus(v) - 1
    BY <2>1, <2>2, <2>3, OneLess
  <2>5. Apart(Count(w)) - Surplus(w) =< best
    <3>1. Count(v) \in [Sites -> Nat] /\ Surplus(v) \in Nat
      BY <2>2, Numbers, Counted
    <3>2. Apart([Count(v) EXCEPT ![v.site[m]] = @ - 1]) - (Surplus(v) - 1) =< best
      BY <2>1, <2>3, <3>1, Closer
    <3> QED
      BY <2>4, <3>2
  <2>6. best \in Nat /\ best >= 1
    BY <2>1, <2>2, Counted
  <2>7. goal # None => goal \in Nat /\ goal >= 1 /\ best =< goal
    BY <2>1, <2>2, Counted DEF WithinGoal, TypeOK, v
  <2>8. Apart(Count(w)) \in Int /\ Surplus(w) \in Int
    BY <2>2, Counted
  <2> HIDE DEF best
  <2>9. goal' \in Nat /\ goal' >= 1 /\ Apart(Count(w)) - Surplus(w) =< goal'
    BY <2>1, <2>5, <2>6, <2>7, <2>8
  <2> QED
    BY <2>9 DEF WithinGoal, Apart, w
<1> QED
  BY <1>1, <1>2, <1>3
     DEF Next, vars, SyncSet, SyncMachines, SyncNutanixMachines, Reconcile, Patch, Scale, Unpause,
         DeleteSet, Add, Place, Vanish, OperatorMarks, Disturbed, server

\* A scale-down whose deletions all found the annotations up to date ends with
\* the sites as close together as its deletions could bring them, whatever the
\* machines and wherever they are.  selectVictims.
THEOREM ScaleDownEvens == Spec => []ScaleDownBalances
<1>1. Init => WithinGoal
  BY DEF Init, WithinGoal
<1>2. IInv /\ WithinGoal => ScaleDownBalances
  <2> SUFFICES ASSUME TypeOK, WithinGoal, goal # None, Cardinality(Live(Now)) = replicas
               PROVE  Apart(Count(Now)) =< goal
    BY DEF IInv, ScaleDownBalances
  <2>1. Now \in View /\ Now.replicas = replicas
    BY DEF TypeOK, Now
  <2>2. Surplus(Now) = 0
    BY <2>1, Counted DEF Surplus
  <2>3. goal \in Nat
    BY DEF TypeOK
  <2> QED
    BY <2>1, <2>2, <2>3, Counted DEF WithinGoal
<1> QED
  BY <1>1, <1>2, Start, Step, BalanceStep, PTL DEF Spec

-----------------------------------------------------------------------------
(* The victims are as many as asked for, and the right ones.               *)

\* Of a finite set of numbers as many as one likes are the largest.
LEMMA Largest ==
    ASSUME NEW T \in SUBSET Nat, IsFiniteSet(T), NEW d \in 0..Cardinality(T)
    PROVE  Cardinality({m \in T : Cardinality({n \in T : n > m}) < d}) = d
<1> DEFINE Above(m) == {n \in T : n > m}
           r == [m \in T |-> Cardinality(Above(m))]
           c == Cardinality(T)
           V == {m \in T : r[m] < d}
<1>1. c \in Nat
  BY FS_CardinalityType
<1>2. \A m \in T : IsFiniteSet(Above(m)) /\ Cardinality(Above(m)) \in Nat
  BY FS_Subset, FS_CardinalityType
<1>3. ASSUME NEW m \in T, NEW n \in T, n > m
      PROVE  Cardinality(Above(n)) < Cardinality(Above(m))
  <2>1. Above(n) \subseteq Above(m) /\ n \in Above(m) /\ n \notin Above(n)
    <3>1. n \in Nat /\ m \in Nat
      OBVIOUS
    <3>2. \A k \in T : k > n => k > m
      BY <1>3, <3>1
    <3>3. ~(n > n)
      BY <3>1
    <3>4. Above(n) \subseteq Above(m)
      BY <3>2
    <3> QED
      BY <1>3, <3>3, <3>4
  <2> HIDE DEF Above
  <2>2. Cardinality(Above(n)) =< Cardinality(Above(m)) /\ Cardinality(Above(n)) # Cardinality(Above(m))
    BY <1>2, <2>1, FS_Subset
  <2> QED
    BY <1>2, <2>2
<1>4. \A m \in T : Cardinality(Above(m)) < c
  <2> TAKE m \in T
  <2>1. Above(m) \subseteq T /\ m \notin Above(m)
    OBVIOUS
  <2> HIDE DEF Above
  <2>2. Cardinality(Above(m)) =< Cardinality(T) /\ Cardinality(Above(m)) # Cardinality(T)
    BY <2>1, FS_Subset
  <2> QED
    BY <1>1, <1>2, <2>2
<1>5. r \in [T -> 0..(c - 1)]
  BY <1>1, <1>2, <1>4
<1>6. r \in Injection(T, 0..(c - 1))
  <2>1. \A m, n \in T : r[m] = r[n] => m = n
    <3> SUFFICES ASSUME NEW m \in T, NEW n \in T, r[m] = r[n], m # n PROVE FALSE
      OBVIOUS
    <3>1. m > n \/ n > m
      OBVIOUS
    <3>2. r[m] = Cardinality(Above(m)) /\ r[n] = Cardinality(Above(n))
      OBVIOUS
    <3>3. Cardinality(Above(m)) = Cardinality(Above(n))
      BY <3>2
    <3> HIDE DEF r, Above
    <3>4. Cardinality(Above(m)) \in Nat
      BY <1>2
    <3>5. CASE m > n
      BY <1>3, <3>3, <3>4, <3>5
    <3>6. CASE n > m
      BY <1>3, <3>3, <3>4, <3>6
    <3> QED
      BY <3>1, <3>5, <3>6
  <2> HIDE DEF r
  <2> QED
    BY <1>5, <2>1 DEF Injection, IsInjective
<1> HIDE DEF r, Above
<1>7. r \in Surjection(T, 0..(c - 1))
  <2>1. IsFiniteSet(0..(c - 1)) /\ Cardinality(0..(c - 1)) = c
    <3> HIDE DEF c
    <3>1. c - 1 \in Int
      BY <1>1
    <3> QED
      BY <1>1, <3>1, FS_Interval
  <2> QED
    BY <1>6, <2>1, FS_Injection
<1> DEFINE f == [m \in V |-> r[m]]
<1>8. f \in Bijection(V, 0..(d - 1))
  <2>1. f \in [V -> 0..(d - 1)]
    <3>1. \A m \in V : r[m] \in 0..(c - 1) /\ r[m] < d
      BY <1>5
    <3> HIDE DEF V, c
    <3>2. \A m \in V : r[m] \in 0..(d - 1)
      BY <1>1, <3>1
    <3> QED
      BY <3>2
  <2>2. \A m, n \in V : f[m] = f[n] => m = n
    BY <1>6 DEF Injection, IsInjective
  <2>3. \A k \in 0..(d - 1) : \E m \in V : f[m] = k
    <3> TAKE k \in 0..(d - 1)
    <3>1. k \in 0..(c - 1)
      BY <1>1
    <3>2. PICK m \in T : r[m] = k
      BY <1>7, <3>1 DEF Surjection
    <3> QED
      BY <3>2
  <2> HIDE DEF f, V
  <2> QED
    BY <2>1, <2>2, <2>3 DEF Bijection, Injection, IsInjective, Surjection
<1>9. IsFiniteSet(V)
  BY FS_Subset
<1>10. Cardinality(0..(d - 1)) = d
  BY <1>1, FS_Interval
<1>11. Cardinality(V) = d
  <2> HIDE DEF f, V
  <2> QED
    BY <1>8, <1>9, <1>10, FS_Bijection DEF ExistsBijection
<1> QED
  BY <1>11 DEF r, Above

\* Each step takes one machine from a site that has one, until there are none, and
\* brings the sites closer together while they are more than one apart.
LEMMA LoopEven ==
    ASSUME NEW c \in [Sites -> Nat], NEW n \in 0..(c[0] + c[1]), NEW g, IsLoop(g, c, n)
    PROVE  /\ g[n] \in [Sites -> Nat] /\ g[n][0] + g[n][1] = c[0] + c[1] - n
           /\ g[n][0] =< c[0] /\ g[n][1] =< c[1]
           /\ Apart(g[n]) =< IF Apart(c) > n THEN Apart(c) - n ELSE 1
<1> DEFINE Good(i) ==
             /\ g[i] \in [Sites -> Nat] /\ g[i][0] + g[i][1] = c[0] + c[1] - i
             /\ g[i][0] =< c[0] /\ g[i][1] =< c[1]
             /\ Apart(g[i]) =< IF Apart(c) > i THEN Apart(c) - i ELSE 1
           Bad == {i \in 0..n : ~Good(i)}
<1>1. c[0] \in Nat /\ c[1] \in Nat
  BY DEF Sites
<1>2. g[0] = c /\ \A i \in 1..n : g[i] = Drain(g[i - 1])
  <2>1. \A i \in 0..n : g[i] = IF i = 0 THEN c ELSE Drain(g[i - 1])
    BY DEF IsLoop
  <2> QED BY <1>1, <2>1
<1>3. Good(0)
  BY <1>1, <1>2 DEF Apart
<1>4. ASSUME NEW i \in 1..n, Good(i - 1) PROVE Good(i)
  <2> DEFINE b == g[i - 1]
             d == g[i]
  <2>1. /\ b \in [Sites -> Nat] /\ b[0] \in Nat /\ b[1] \in Nat
        /\ b[0] + b[1] = c[0] + c[1] - (i - 1) /\ b[0] =< c[0] /\ b[1] =< c[1]
        /\ Apart(b) =< IF Apart(c) > i - 1 THEN Apart(c) - (i - 1) ELSE 1
    BY <1>4 DEF Sites
  <2>2. d = [b EXCEPT ![Fuller(b)] = @ - 1]
    BY <1>2 DEF Drain
  <2> HIDE DEF b, d
  <2>3. b[0] + b[1] > 0
    BY <1>1, <2>1
  <2>4. /\ d[0] = IF b[1] > b[0] THEN b[0] ELSE b[0] - 1
        /\ d[1] = IF b[1] > b[0] THEN b[1] - 1 ELSE b[1]
    BY <2>1, <2>2 DEF Fuller, Sites
  <2>5. d \in [Sites -> Nat]
    <3>1. d \in [Sites -> Int]
      BY <2>1, <2>2 DEF Fuller, Sites
    <3>2. d[0] \in Nat /\ d[1] \in Nat
      BY <2>1, <2>3, <2>4
    <3> QED BY <3>1, <3>2 DEF Sites
  <2>6. d[0] + d[1] = c[0] + c[1] - i /\ d[0] =< c[0] /\ d[1] =< c[1]
    BY <1>1, <2>1, <2>4
  <2>7. Apart(d) =< IF Apart(c) > i THEN Apart(c) - i ELSE 1
    <3>1. Apart(c) \in Nat
      BY <1>1 DEF Apart
    <3>2. Apart(d) =< IF Apart(b) > 1 THEN Apart(b) - 1 ELSE 1
      BY <2>1, <2>4 DEF Apart
    <3>3. Apart(b) \in Nat /\ Apart(d) \in Nat
      BY <2>1, <2>4, <2>5 DEF Apart, Sites
    <3> QED BY <2>1, <3>1, <3>2, <3>3
  <2> QED BY <2>5, <2>6, <2>7 DEF d
<1>5. Good(n)
  <2> SUFFICES ASSUME Bad # {} PROVE FALSE
    BY <1>1
  <2>1. PICK k \in Bad : \A j \in Bad : k =< j
    <3> Bad \in SUBSET Nat
      OBVIOUS
    <3> HIDE DEF Bad
    <3> QED BY LeastNumber
  <2> HIDE DEF Good
  <2>2. k \in 1..n
    BY <1>1, <1>3, <2>1
  <2>3. k - 1 \in 0..n /\ k - 1 \notin Bad
    BY <1>1, <2>1, <2>2
  <2> QED BY <1>4, <2>1, <2>2, <2>3
<1> QED
  BY <1>5

\* What the sites have, and what they keep.
LEMMA KeptEven ==
    ASSUME NEW v \in View
    PROVE  /\ Kept(v) \in [Sites -> Nat] /\ Kept(v)[0] =< Count(v)[0] /\ Kept(v)[1] =< Count(v)[1]
           /\ Kept(v)[0] + Kept(v)[1] = Count(v)[0] + Count(v)[1] - HowMany(v)
           /\ Apart(Kept(v)) =< IF Apart(Count(v)) > HowMany(v) THEN Apart(Count(v)) - HowMany(v) ELSE 1
<1> DEFINE At(s) == {m \in Known(v) : v.site[m] = s}
<1>1. \A s \in Sites : IsFiniteSet(At(s)) /\ Count(v)[s] = Cardinality(At(s))
  BY Numbers DEF Known, Live, Count
<1>2. Known(v) = At(0) \cup At(1) /\ At(0) \cap At(1) = {}
  <2>1. \A m \in Known(v) : v.site[m] \in {0, 1}
    BY DEF Known, Live, View, Sites
  <2> QED BY <2>1
<1> HIDE DEF At
<1>3. Cardinality(Known(v)) = Count(v)[0] + Count(v)[1]
  <2>1. Cardinality(At(0) \cap At(1)) = 0
    BY <1>2, FS_EmptySet
  <2>2. Cardinality(Known(v)) = Cardinality(At(0)) + Cardinality(At(1)) - Cardinality(At(0) \cap At(1))
    BY <1>1, <1>2, FS_Union DEF Sites
  <2>3. Cardinality(At(0)) = Count(v)[0] /\ Cardinality(At(1)) = Count(v)[1]
    BY <1>1 DEF Sites
  <2> QED BY <2>1, <2>2, <2>3, Numbers DEF Sites
<1>4. HowMany(v) \in 0..(Count(v)[0] + Count(v)[1])
  <2>1. HowMany(v) =< Cardinality(Known(v))
    <3>1. siteExcess(Count(v)) \in Nat /\ Surplus(v) \in Nat /\ Cardinality(Known(v)) \in Nat
      BY <1>3, Counted, Numbers DEF siteExcess, Sites
    <3> QED BY <3>1 DEF HowMany
  <2> QED BY <1>3, <2>1, Numbers DEF Sites
<1>5. PICK g : IsLoop(g, Count(v), HowMany(v)) /\ Kept(v) = g[HowMany(v)]
  BY Numbers, KeptLoops
<1> QED
  BY <1>4, <1>5, Numbers, LoopEven

LEMMA Fits ==
    ASSUME NEW v \in View
    PROVE  LET left == [s \in Sites |->
                          Cardinality({m \in Known(v) \ selectVictims(v) : v.site[m] = s})]
           IN /\ Cardinality(selectVictims(v)) = HowMany(v)
              /\ Apart(left) =< IF Apart(Count(v)) > HowMany(v)
                                THEN Apart(Count(v)) - HowMany(v) ELSE 1
              /\ Surplus(v) = 0 => \A s \in Sites : Count(v)[s] > 0 => left[s] > 0
<1> DEFINE At(s) == {m \in Known(v) : v.site[m] = s}
           Goes(s) == {m \in At(s) : Cardinality({n \in At(s) : n > m}) < Count(v)[s] - Kept(v)[s]}
           left == [s \in Sites |-> Cardinality({m \in Known(v) \ selectVictims(v) : v.site[m] = s})]
<1>1. \A s \in Sites : /\ Count(v)[s] \in Nat /\ Kept(v)[s] \in Nat /\ Kept(v)[s] =< Count(v)[s]
                       /\ Count(v)[s] - Kept(v)[s] \in 0..Count(v)[s]
  BY Numbers, KeptEven DEF Sites
<1>2. \A s \in Sites : At(s) \in SUBSET Nat /\ IsFiniteSet(At(s)) /\ Count(v)[s] = Cardinality(At(s))
  BY Numbers DEF Known, Live, Count
<1>3. \A s \in Sites : /\ IsFiniteSet(Goes(s)) /\ Goes(s) \subseteq At(s)
                       /\ Cardinality(Goes(s)) = Count(v)[s] - Kept(v)[s]
  <2> TAKE s \in Sites
  <2> HIDE DEF At
  <2>1. Cardinality(Goes(s)) = Count(v)[s] - Kept(v)[s]
    BY <1>1, <1>2, Largest
  <2> QED
    BY <1>2, <2>1, FS_Subset
<1>4. \A s \in Sites : {m \in selectVictims(v) : v.site[m] = s} = Goes(s)
  <2> TAKE s \in Sites
  <2>1. \A m \in At(s) : {n \in Known(v) : v.site[n] = v.site[m] /\ n > m} = {n \in At(s) : n > m}
    OBVIOUS
  <2> QED
    BY <2>1 DEF selectVictims
<1>5. \A s \in Sites : {m \in Known(v) \ selectVictims(v) : v.site[m] = s} = At(s) \ Goes(s)
  BY <1>4
<1>6. selectVictims(v) = Goes(0) \cup Goes(1) /\ Goes(0) \cap Goes(1) = {}
  <2>1. \A m \in selectVictims(v) : m \in Known(v) /\ v.site[m] \in Sites
    BY DEF selectVictims, Known, Live, View
  <2>2. \A m \in selectVictims(v) : m \in Goes(0) \/ m \in Goes(1)
    BY <1>4, <2>1 DEF Sites
  <2>3. Goes(0) \subseteq selectVictims(v) /\ Goes(1) \subseteq selectVictims(v)
    BY <1>4 DEF Sites
  <2>4. Goes(0) \cap Goes(1) = {}
    OBVIOUS
  <2> HIDE DEF Goes
  <2> QED
    BY <2>2, <2>3, <2>4
<1> HIDE DEF Goes, At
<1>7. Cardinality(selectVictims(v)) = HowMany(v)
  <2>1. Cardinality(Goes(0) \cap Goes(1)) = 0
    BY <1>6, FS_EmptySet
  <2>2. Cardinality(selectVictims(v))
          = Cardinality(Goes(0)) + Cardinality(Goes(1)) - Cardinality(Goes(0) \cap Goes(1))
    BY <1>3, <1>6, FS_Union DEF Sites
  <2>3. /\ Cardinality(Goes(0)) = Count(v)[0] - Kept(v)[0]
        /\ Cardinality(Goes(1)) = Count(v)[1] - Kept(v)[1]
    BY <1>3 DEF Sites
  <2> QED BY <1>1, <2>1, <2>2, <2>3, KeptEven, Numbers DEF Sites
<1>8. \A s \in Sites : left[s] = Kept(v)[s]
  <2> TAKE s \in Sites
  <2>1. At(s) = (At(s) \ Goes(s)) \cup Goes(s) /\ (At(s) \ Goes(s)) \cap Goes(s) = {}
    BY <1>3
  <2>2. IsFiniteSet(At(s) \ Goes(s)) /\ Cardinality(At(s) \ Goes(s)) \in Nat
    BY <1>2, FS_Subset, FS_CardinalityType
  <2>3. Cardinality(At(s)) = Cardinality(At(s) \ Goes(s)) + Cardinality(Goes(s)) - 0
    <3>1. Cardinality((At(s) \ Goes(s)) \cap Goes(s)) = 0
      BY <2>1, FS_EmptySet
    <3> QED BY <1>3, <2>1, <2>2, <3>1, FS_Union
  <2>4. left[s] = Cardinality(At(s) \ Goes(s))
    BY <1>5
  <2> QED BY <1>1, <1>2, <1>3, <2>2, <2>3, <2>4
<1>9. Apart(left) = Apart(Kept(v))
  <2> HIDE DEF left
  <2> QED BY <1>8 DEF Apart, Sites
<1>10. ASSUME Surplus(v) = 0, NEW s \in Sites, Count(v)[s] > 0
       PROVE  Kept(v)[s] > 0
  <2>1. HowMany(v) =< siteExcess(Count(v))
    <3>1. siteExcess(Count(v)) \in Nat
      BY Counted DEF siteExcess
    <3>2. Cardinality(Known(v)) \in Nat
      BY Numbers DEF Known, Live
    <3> QED BY <1>10, <3>1, <3>2 DEF HowMany
  <2>2. CASE siteExcess(Count(v)) = 0
    BY <1>1, <1>10, <2>1, <2>2, KeptEven, Numbers DEF Sites
  <2>3. CASE siteExcess(Count(v)) # 0
    <3>1. siteExcess(Count(v)) = Apart(Count(v)) /\ Count(v)[0] > 0 /\ Count(v)[1] > 0
      BY <1>1, <2>3 DEF siteExcess, Sites
    <3>2. Kept(v)[Other(Fuller(Count(v)))] = Count(v)[Other(Fuller(Count(v)))]
      BY <2>1, <3>1, KeptDrains, Numbers
    <3>3. Kept(v)[0] + Kept(v)[1] >= Count(v)[0] + Count(v)[1] - Apart(Count(v))
      BY <1>1, <2>1, <3>1, Counted, KeptEven, Numbers DEF Sites
    <3>4. /\ Count(v)[0] \in Nat /\ Kept(v)[0] \in Nat /\ Count(v)[1] \in Nat /\ Kept(v)[1] \in Nat
          /\ s = 0 \/ s = 1
      BY <1>1 DEF Sites
    <3>5. CASE Count(v)[1] > Count(v)[0]
      <4>1. Kept(v)[0] = Count(v)[0]
        BY <3>2, <3>5 DEF Fuller, Other
      <4> QED BY <3>1, <3>3, <3>4, <3>5, <4>1 DEF Apart
    <3>6. CASE ~(Count(v)[1] > Count(v)[0])
      <4>1. Kept(v)[1] = Count(v)[1]
        BY <3>2, <3>6 DEF Fuller, Other
      <4> QED BY <3>1, <3>3, <3>4, <3>6, <4>1 DEF Apart
    <3> QED BY <3>5, <3>6
  <2> QED BY <2>2, <2>3
<1>11. \A s \in Sites : Surplus(v) = 0 /\ Count(v)[s] > 0 => left[s] > 0
  BY <1>8, <1>10
<1> QED
  BY <1>7, <1>9, <1>11, KeptEven

\* Whatever machines the cache has and wherever it has them, the balancer asks for as
\* many deletions as there would be to come, of machines whose loss brings the sites
\* together, and when none would it leaves a machine on each site that has one.
\* selectVictims.
THEOREM VictimsAlwaysFit == Spec => []VictimsFit
<1>1. TypeOK => VictimsFit
  BY Fits DEF TypeOK, VictimsFit
<1> QED
  BY <1>1, TypeCorrect, PTL
=============================================================================
