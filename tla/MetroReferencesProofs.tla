------------------------ MODULE MetroReferencesProofs ------------------------
(***************************************************************************)
(* Theorems about MetroReferences: types, and that what is in use is held, *)
(* for any number of objects and users and however much the caches lag.    *)
(***************************************************************************)
EXTENDS MetroReferences, TLAPS

\* What the caches do in a step: nothing, unless it is a watch that delivers,
\* which changes nothing in the API server.
LEMMA CachesFollow ==
    ASSUME Step
    PROVE  \/ shown' = shown
           \/ store' = store /\ \E x \in Things : shown' = [shown EXCEPT ![x] = store[x]]
  <1>1. CASE \E o \in Objects : Reconcile(o)
    BY <1>1 DEF Reconcile, AddFinalizer, reconcileDelete, reconcileNormal,
                PatchFinalizer, PatchValidated
  <1>2. CASE \E x \in Things : Sync(x)
    BY <1>2 DEF Sync
  <1>3. CASE \E x \in Things : Create(x) \/ Delete(x)
    BY <1>3 DEF Create, Delete
  <1>4. CASE \E w \in Owners : Retarget(w)
    BY <1>4 DEF Retarget
  <1>5. CASE \E x \in Users : Leave(x)
    BY <1>5 DEF Leave
  <1> QED
    BY <1>1, <1>2, <1>3, <1>4, <1>5 DEF Step

\* The updates the actions make leave an item an item.
LEMMA ItemUpdates ==
    ASSUME NEW i \in Item, NEW st \in {"absent", "live", "gone"}, NEW fin \in BOOLEAN,
           NEW N \in SUBSET Objects
    PROVE  /\ [i EXCEPT !.st = st] \in Item
           /\ [i EXCEPT !.names = N] \in Item
           /\ [i EXCEPT !.st = st, !.names = N] \in Item
           /\ [i EXCEPT !.fin = fin, !.st = st] \in Item
           /\ [i EXCEPT !.del = TRUE, !.st = st] \in Item
           /\ [Absent EXCEPT !.st = st] \in Item
  BY DEF Item, Absent

\* Nothing that is stored leaves its type.
LEMMA StoreType ==
    ASSUME TypeOK, Step
    PROVE  store' \in [Things -> Item]
  <1>1. ASSUME NEW x \in Things, NEW i \in Item, store' = [store EXCEPT ![x] = i]
        PROVE  store' \in [Things -> Item]
    BY <1>1 DEF TypeOK
  <1>2. \A x \in Things : store[x] \in Item
    BY DEF TypeOK
  <1>3. \A x \in Objects \cup Owners \cup Users : x \in Things
    BY DEF Things, Users
  <1>4. CASE \E o \in Objects : Reconcile(o)
    <2> PICK o \in Objects : Reconcile(o)
      BY <1>4
    <2>1. ASSUME NEW fin \in BOOLEAN, PatchFinalizer(o, fin)
          PROVE  store' \in [Things -> Item]
      <3> DEFINE st == IF store[o].del /\ ~fin THEN "gone" ELSE "live"
                 new == [store[o] EXCEPT !.fin = fin, !.st = st]
      <3>1. st \in {"absent", "live", "gone"}
        OBVIOUS
      <3>2. new \in Item
        BY <1>2, <1>3, <3>1, ItemUpdates
      <3>3. store' = [store EXCEPT ![o] = new]
        BY <2>1 DEF PatchFinalizer
      <3> QED
        BY <1>1, <1>3, <3>2, <3>3
    <2> QED
      BY <2>1 DEF Reconcile, AddFinalizer, reconcileDelete, reconcileNormal,
                  PatchValidated, TypeOK
  <1>5. CASE \E x \in Things : Sync(x)
    BY <1>5 DEF TypeOK, Sync
  <1>6. CASE \E x \in Things : Create(x)
    <2> PICK x \in Things : Create(x)
      BY <1>6
    <2>1. CASE store' = [store EXCEPT ![x] = [store[x] EXCEPT !.st = "live"]]
      BY <1>1, <1>2, <2>1, ItemUpdates
    <2>2. ASSUME NEW N \in NamesFor(x),
                 store' = [store EXCEPT ![x] = [store[x] EXCEPT !.st = "live", !.names = N]]
          PROVE  store' \in [Things -> Item]
      <3>1. N \in SUBSET Objects
        BY DEF NamesFor
      <3> QED
        BY <1>1, <1>2, <2>2, <3>1, ItemUpdates
    <2> QED
      BY <2>1, <2>2 DEF Create
  <1>7. CASE \E x \in Things : Delete(x)
    <2> PICK x \in Things : Delete(x)
      BY <1>7
    <2> DEFINE st == IF x \in Objects /\ ~store[x].fin THEN "gone" ELSE "live"
    <2>1. st \in {"absent", "live", "gone"}
      OBVIOUS
    <2>2. store' = [store EXCEPT ![x] = [store[x] EXCEPT !.del = TRUE, !.st = st]]
      BY DEF Delete
    <2> QED
      BY <1>1, <1>2, <2>1, <2>2, ItemUpdates
  <1>8. CASE \E w \in Owners : Retarget(w)
    <2> PICK w \in Owners : \E N \in NamesFor(w) :
               store' = [store EXCEPT ![w] = [store[w] EXCEPT !.names = N]]
      BY <1>8 DEF Retarget
    <2> PICK N \in NamesFor(w) : store' = [store EXCEPT ![w] = [store[w] EXCEPT !.names = N]]
      OBVIOUS
    <2>1. N \in SUBSET Objects
      BY DEF NamesFor
    <2> QED
      BY <1>1, <1>2, <1>3, <2>1, ItemUpdates
  <1>9. CASE \E x \in Users : Leave(x)
    <2> PICK x \in Users : store' = [store EXCEPT ![x] = [Absent EXCEPT !.st = "gone"]]
      BY <1>9 DEF Leave
    <2>1. Absent \in Item
      BY DEF Absent, Item
    <2> QED
      BY <1>1, <1>3, <2>1, ItemUpdates
  <1> QED
    BY <1>4, <1>5, <1>6, <1>7, <1>8, <1>9 DEF Step

\* Types, of every object, cache and history.
THEOREM TypeCorrect == Spec => []TypeOK
  <1>1. Init => TypeOK
    BY DEF Init, TypeOK, Item, Absent
  <1>2. ASSUME TypeOK, [Next]_vars
        PROVE  TypeOK'
    <2>1. CASE UNCHANGED vars
      BY <1>2, <2>1 DEF TypeOK, vars
    <2>2. CASE Next
      <3>1. Step /\ Track
        BY <2>2 DEF Next
      <3>2. store' \in [Things -> Item]
        BY <1>2, <3>1, StoreType
      <3>3. shown' \in [Things -> Item]
        BY <1>2, <3>1, CachesFollow DEF TypeOK
      <3>4. valid' \in SUBSET (Metros \cup Sites)
        BY <1>2, <3>1 DEF TypeOK, Step, Reconcile, AddFinalizer, reconcileDelete,
           reconcileNormal, PatchFinalizer, PatchValidated, Sync, Create, Delete,
           Retarget, Leave
      <3>5. since' \in [Objects -> SUBSET (Things \X Objects)]
        BY <3>1 DEF Track
      <3> QED
        BY <3>2, <3>3, <3>4, <3>5 DEF TypeOK
    <2> QED
      BY <1>2, <2>1, <2>2
  <1> QED
    BY <1>1, <1>2, PTL DEF Spec

-----------------------------------------------------------------------------
\* A use that counts is there in the API server and in the caches.
SinceInv ==
    \A o \in Objects : \A u \in since[o] :
        /\ u \in Things \X Objects
        /\ Uses(store, u[1], u[2], o)
        /\ Uses(shown, u[1], u[2], o)

\* A use that is stored and shown is still shown when a watch delivers.
LEMMA SyncKeepsUses ==
    ASSUME TypeOK, NEW x \in Things, shown' = [shown EXCEPT ![x] = store[x]],
           NEW y \in Things, NEW r \in Objects, NEW o \in Objects,
           Uses(store, y, r, o), Uses(shown, y, r, o)
    PROVE  Uses(shown', y, r, o)
  <1>1. shown'[y] \in {shown[y], store[y]} /\ shown'[r] \in {shown[r], store[r]}
    BY DEF TypeOK, Things
  <1>2. shown'[y].st = "live" /\ ~shown'[y].del
    BY <1>1 DEF Uses
  <1>3. r \in Names(shown', y)
    BY <1>1 DEF Uses, Names
  <1>4. LeadsTo(shown', r, o)
    BY <1>1 DEF Uses, LeadsTo
  <1> QED
    BY <1>2, <1>3, <1>4 DEF Uses

LEMMA SinceStep ==
    ASSUME TypeOK, SinceInv, [Next]_vars
    PROVE  SinceInv'
  <1>1. CASE UNCHANGED vars
    BY <1>1 DEF SinceInv, vars
  <1>2. CASE Next
    <2>1. Step /\ Track
      BY <1>2 DEF Next
    <2> SUFFICES ASSUME NEW o \in Objects, NEW u \in since'[o]
                 PROVE  /\ u \in Things \X Objects
                        /\ Uses(store', u[1], u[2], o)
                        /\ Uses(shown', u[1], u[2], o)
      BY DEF SinceInv
    <2>2. /\ u \in Things \X Objects
          /\ store'[o].del
          /\ IF store[o].del THEN u \in since[o] ELSE Settled(u[1], u[2], o)
          /\ Uses(store', u[1], u[2], o)
      BY <2>1 DEF Track
    <2>3. CASE shown' = shown
      <3>1. Uses(shown, u[1], u[2], o)
        BY <2>2 DEF SinceInv, Settled
      <3> QED
        BY <2>2, <2>3, <3>1
    <2>4. CASE store' = store /\ \E x \in Things : shown' = [shown EXCEPT ![x] = store[x]]
      <3>1. u \in since[o]
        BY <2>2, <2>4
      <3>2. Uses(store, u[1], u[2], o) /\ Uses(shown, u[1], u[2], o)
        BY <3>1 DEF SinceInv
      <3>3. u[1] \in Things /\ u[2] \in Objects
        BY <2>2
      <3>4. Uses(shown', u[1], u[2], o)
        BY <2>4, <3>2, <3>3, SyncKeepsUses
      <3> QED
        BY <2>2, <3>4
    <2> QED
      BY <2>1, <2>3, <2>4, CachesFollow
  <1> QED
    BY <1>1, <1>2

\* What the caches show to use an object is found by its reconciler's lists.
LEMMA ListsFindUses ==
    ASSUME NEW o \in Objects, NEW x \in Things, NEW r \in Objects,
           Uses(shown, x, r, o), Holds(x, o)
    PROVE  InUse(o)
  <1>1. Counts(x) /\ r \in Names(shown, x) /\ LeadsTo(shown, r, o)
    BY DEF Uses, Counts
  <1>2. x \in Users => r \in shown[x].names
    <2> SUFFICES ASSUME x \in Users
                 PROVE  r \in shown[x].names
      OBVIOUS
    <2>1. x \notin Metros /\ x \notin Sites
      BY KindsAssumption DEF Objects
    <2>2. Names(shown, x) = shown[x].names
      BY <2>1 DEF Names
    <2> QED
      BY <1>1, <2>2
  <1>3. x \in Metros => r \in FDsOf[x]
    BY <1>1, KindsAssumption DEF Names, Objects
  <1>4. x \in Sites => r = MetroOf[x] \/ r = PreferredOf[x]
    BY <1>1, KindsAssumption DEF Names, Objects
  <1>5. x \notin FDs
    BY <1>1, KindsAssumption DEF Names, Objects
  <1>6. CASE o \in FDs
    <2>1. r = o
      BY <1>1, <1>6, KindsAssumption, SpecAssumption DEF LeadsTo
    <2>2. x \in Sites => o = PreferredOf[x]
      BY <1>4, <1>6, <2>1, KindsAssumption, SpecAssumption
    <2> QED
      BY <1>1, <1>2, <1>3, <1>5, <1>6, <2>1, <2>2
         DEF InUse, FDInUse, Holds, Things, Objects, Users
  <1>7. CASE o \in Metros
    <2>1. failureDomainReferencesMetro(r, o)
      BY <1>1 DEF LeadsTo, failureDomainReferencesMetro
    <2>2. CASE x \in Users
      <3>1. MetroInUse(o)
        BY <1>1, <1>2, <2>1, <2>2 DEF MetroInUse
      <3> QED
        BY <1>7, <3>1 DEF InUse
    <2>3. CASE x \in Sites
      <3>1. o = MetroOf[x]
        BY <1>4, <1>7, <2>1, <2>3, KindsAssumption, SpecAssumption
           DEF failureDomainReferencesMetro
      <3> QED
        BY <1>1, <1>7, <2>3, <3>1 DEF InUse, MetroInUse
    <2>4. x \notin Metros
      BY <1>3, <1>7, <2>1, KindsAssumption, SpecAssumption DEF failureDomainReferencesMetro
    <2> QED
      BY <1>5, <2>2, <2>3, <2>4 DEF Things, Objects
  <1>8. CASE o \in Sites
    <2>1. r = o
      BY <1>1, <1>8, KindsAssumption, SpecAssumption DEF LeadsTo
    <2>2. x \in Users
      BY <1>3, <1>4, <1>5, <1>8, <2>1, KindsAssumption, SpecAssumption DEF Things, Objects
    <2> QED
      BY <1>1, <1>2, <1>8, <2>1, <2>2 DEF InUse, SiteInUse
  <1> QED
    BY <1>6, <1>7, <1>8 DEF Objects

\* Only a pass that found the object in deletion and unused releases it.
LEMMA OnlyDeleteReleases ==
    ASSUME TypeOK, Step, NEW o \in Objects, Releases(o)
    PROVE  ~InUse(o)
  <1>1. CASE \E p \in Objects : Reconcile(p)
    <2> PICK p \in Objects : Reconcile(p)
      BY <1>1
    <2>1. CASE AddFinalizer(p)
      BY <2>1 DEF AddFinalizer, PatchFinalizer, TypeOK, Item, Things, Releases
    <2>2. CASE reconcileDelete(p)
      <3>1. p = o
        BY <2>2 DEF reconcileDelete, PatchFinalizer, TypeOK, Item, Things, Releases
      <3> QED
        BY <2>2, <3>1 DEF reconcileDelete
    <2>3. CASE reconcileNormal(p)
      BY <2>3 DEF reconcileNormal, PatchValidated, Releases
    <2> QED
      BY <2>1, <2>2, <2>3 DEF Reconcile
  <1>2. CASE \E x \in Things : Sync(x)
    BY <1>2 DEF Sync, Releases
  <1>3. CASE \E x \in Things : Create(x)
    <2> PICK x \in Things : Create(x)
      BY <1>3
    <2>1. CASE store' = [store EXCEPT ![x] = [store[x] EXCEPT !.st = "live"]]
      BY <2>1 DEF TypeOK, Item, Things, Releases
    <2>2. CASE \E N \in NamesFor(x) :
                 store' = [store EXCEPT ![x] = [store[x] EXCEPT !.st = "live", !.names = N]]
      BY <2>2 DEF TypeOK, Item, Things, Releases
    <2> QED
      BY <2>1, <2>2 DEF Create
  <1>4. CASE \E x \in Things : Delete(x)
    BY <1>4 DEF Delete, TypeOK, Item, Things, Releases
  <1>5. CASE \E w \in Owners : Retarget(w)
    BY <1>5 DEF Retarget, TypeOK, Item, Things, Releases
  <1>6. CASE \E x \in Users : Leave(x)
    <2> PICK x \in Users : Leave(x)
      BY <1>6
    <2>1. o # x
      BY KindsAssumption
    <2> QED
      BY <2>1 DEF Leave, TypeOK, Item, Things, Releases
  <1> QED
    BY <1>1, <1>2, <1>3, <1>4, <1>5, <1>6 DEF Step

\* No object is released while something that used it when its deletion was
\* asked for uses it still.
THEOREM Held == Spec => HeldWhileUsed
  <1>1. Init => SinceInv
    BY DEF Init, SinceInv
  <1>2. TypeOK /\ SinceInv /\ [Next]_vars => SinceInv'
    BY SinceStep
  <1>3. TypeOK /\ SinceInv /\ [Next]_vars
           => [\A o \in Objects : Releases(o) => ~\E u \in since[o] : Holds(u[1], o)]_vars
    <2> SUFFICES ASSUME TypeOK, SinceInv, Next,
                        NEW o \in Objects, Releases(o), NEW u \in since[o]
                 PROVE  ~Holds(u[1], o)
      OBVIOUS
    <2>1. ~InUse(o)
      BY OnlyDeleteReleases DEF Next
    <2>2. u[1] \in Things /\ u[2] \in Objects /\ Uses(shown, u[1], u[2], o)
      BY DEF SinceInv
    <2> QED
      BY <2>1, <2>2, ListsFindUses
  <1> QED
    BY <1>1, <1>2, <1>3, TypeCorrect, PTL DEF Spec, HeldWhileUsed
=============================================================================
