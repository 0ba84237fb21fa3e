----------------------- MODULE NutanixVHADomainProofs -----------------------
(***************************************************************************)
(* Proofs about the vHADomains of ClusterTeardown: a vHADomain goes after  *)
(* the resources it records, and the protection of machines is taken down  *)
(* after the machines.                                                     *)
(***************************************************************************)
EXTENDS ClusterTeardownProofs

USE ClusterAssumption

-----------------------------------------------------------------------------
(* What a vHADomain records is gone before the vHADomain.                  *)

Objects == Kinds \ Cats

GoneIn(m, spec, ks) == \A k \in ks : spec[k] # None => res[m][k] # spec[k]
Cleared(m) == GoneIn(m, vha[m].spec, Objects)

\* The vHADomain is as the pass has read it.
Steady(m) ==
    /\ vha[m].live /\ vha[m].fin /\ dbase[m].fin
    /\ dmem[m].spec = vha[m].spec /\ dbase[m].spec = vha[m].spec

\* Without its finalizer a vHADomain records nothing that is there.
StoredInv(m) ==
    /\ ~(vha[m].live /\ vha[m].fin) => Cleared(m)
    /\ vha[m].live /\ vha[m].del => vha[m].fin

\* A pass drops the finalizer when it has been through what it has read, and brings a
\* new spec only to a vHADomain with a finalizer.
WorkInv(m) ==
    /\ dpc[m] \in {"resolve", "metro"} =>
          /\ dbase[m].fin = dmem[m].fin /\ (dmem[m].del => dmem[m].fin)
          /\ dbase[m].spec = dmem[m].spec
          /\ dmem[m].fin => Steady(m)
    /\ dpc[m] \in {"validate", "ensure", "cleanup"} => dmem[m].fin /\ Steady(m)
    /\ dpc[m] \notin {"ensure", "cleanup"} => di[m] = 1
    /\ dpc[m] = "cleanup" =>
          GoneIn(m, dmem[m].spec, {DeleteOrder[i] : i \in 1..(di[m] - 1)} \ Cats)
    /\ dpc[m] = "deferSpec" =>
          /\ dbase[m].fin /\ ~dmem[m].fin => dmem[m].spec = dbase[m].spec /\ Cleared(m)
          /\ dbase[m].spec # dmem[m].spec =>
                vha[m].live /\ vha[m].fin /\ dbase[m].fin /\ dmem[m].fin

RecordInv == \A m \in Metros : StoredInv(m) /\ WorkInv(m)

LEMMA InitRecord == Init => RecordInv
<1> SUFFICES ASSUME Init, NEW m \in Metros PROVE StoredInv(m) /\ WorkInv(m)
  BY DEF RecordInv
<1>1. dpc[m] = "idle" /\ vha[m] = Absent /\ di[m] = 1
  BY DEF Init, ObjectsInit, DomainInit
<1>2. \A k \in Kinds : Absent.spec[k] = None
  BY DEF Absent, NewVHA, NoResources
<1> QED
  BY <1>1, <1>2, NewType DEF StoredInv, WorkInv, Cleared, GoneIn, Objects

\* While the pass stands still: resources may go, the vHADomain may be deleted, and
\* one that is gone may be created anew.
LEMMA OutsideRecord ==
    ASSUME TypeOK, NEW m \in Metros, StoredInv(m), WorkInv(m),
           UNCHANGED <<dpc[m], dmem[m], dbase[m], di[m]>>,
           \A k \in Kinds : res'[m][k] \in {res[m][k], None},
           \/ vha'[m] = vha[m] \/ vha'[m] = Deleted(vha[m])
           \/ ~vha[m].live /\ vha'[m] = NewVHA
    PROVE  StoredInv(m)' /\ WorkInv(m)'
<1>1. vha[m] \in VHA
  BY DEF TypeOK, ObjectsTypeOK
<1>2. \A spec, ks : ks \subseteq Kinds /\ GoneIn(m, spec, ks) => GoneIn(m, spec, ks)'
  BY DEF GoneIn
<1>3. {DeleteOrder[i] : i \in 1..(di[m] - 1)} \ Cats \subseteq Kinds
  BY DEF DeleteOrder, Kinds, TypeOK, DomainTypeOK, Order
<1>4. CASE vha'[m].spec = vha[m].spec /\ (vha'[m].live => vha[m].live)
           /\ (vha[m].live /\ vha[m].fin => vha'[m].live) /\ vha'[m].fin = vha[m].fin
           /\ (vha'[m].live /\ vha'[m].del => vha'[m].fin)
  <2>1. Cleared(m) => Cleared(m)'
    BY <1>2, <1>4 DEF Cleared, Objects
  <2>2. Steady(m) => Steady(m)'
    BY <1>4 DEF Steady
  <2>3. StoredInv(m)'
    BY <1>4, <2>1 DEF StoredInv
  <2>4. dpc[m] = "cleanup" =>
           GoneIn(m, dmem[m].spec, {DeleteOrder[i] : i \in 1..(di[m] - 1)} \ Cats)'
    BY <1>2, <1>3 DEF WorkInv
  <2>5. WorkInv(m)'
    BY <1>4, <2>1, <2>2, <2>4 DEF WorkInv
  <2> QED
    BY <2>3, <2>5
<1>5. CASE ~vha[m].live /\ vha'[m] = NewVHA
  <2>1. \A k \in Kinds : vha'[m].spec[k] = None
    BY <1>5 DEF NewVHA, NoResources
  <2>2. Cleared(m)'
    BY <2>1 DEF Cleared, GoneIn, Objects
  <2>3. StoredInv(m)'
    BY <1>5, <2>2 DEF StoredInv, NewVHA
  <2>4. ~Steady(m)
    BY <1>5 DEF Steady
  <2>5. WorkInv(m)'
    BY <1>5, <2>2, <2>4 DEF WorkInv
  <2> QED
    BY <2>3, <2>5
<1>6. CASE vha'[m] = vha[m]
  BY <1>4, <1>6 DEF StoredInv
<1>7. CASE vha'[m] = Deleted(vha[m])
  <2>1. /\ vha'[m].spec = vha[m].spec /\ vha'[m].live = (vha[m].live /\ vha[m].fin)
        /\ vha'[m].fin = vha[m].fin
    BY <1>1, <1>7 DEF Deleted, VHA
  <2> QED
    BY <1>4, <2>1
<1> QED
  BY <1>5, <1>6, <1>7

LEMMA CopiesType ==
    ASSUME TypeOK, NEW m \in Metros
    PROVE  /\ vha[m] \in VHA /\ dmem[m] \in VHA /\ dbase[m] \in VHA /\ NotReady(m) \in VHA
           /\ NotReady(m).fin = dmem[m].fin /\ NotReady(m).spec = dbase[m].spec
<1>1. vha[m] \in VHA /\ dmem[m] \in VHA /\ dbase[m] \in VHA
  BY DEF TypeOK, ObjectsTypeOK, DomainTypeOK
<1>2. dbase[m].spec \in Resources
  BY <1>1 DEF VHA
<1>3. \A d \in VHA, spec \in Resources :
         LET o == [d EXCEPT !.ready = FALSE, !.spec = spec]
         IN o \in VHA /\ o.fin = d.fin /\ o.spec = spec
  BY DEF VHA
<1> QED
  BY <1>1, <1>2, <1>3 DEF NotReady

\* The end of a pass before the deferred patch.
LEMMA ReturnRecord ==
    ASSUME TypeOK, NEW m \in Metros, StoredInv(m), WorkInv(m), UNCHANGED vha,
           NEW o \in VHA, DReturn(m, o),
           res' = res \/ (vha[m].live /\ vha[m].fin),
           dbase[m].fin /\ ~o.fin => o.spec = dbase[m].spec /\ Cleared(m)',
           dbase[m].spec # o.spec => vha[m].live /\ vha[m].fin /\ dbase[m].fin /\ o.fin
    PROVE  StoredInv(m)' /\ WorkInv(m)'
<1>1. dpc'[m] = "deferSpec" /\ dmem'[m] = o /\ di'[m] = 1 /\ dbase' = dbase
  BY DEF DReturn, DGoto, DSet, TypeOK, DomainTypeOK
<1>2. res' = res => (Cleared(m) => Cleared(m)')
  BY DEF Cleared, GoneIn
<1>3. StoredInv(m)'
  BY <1>2 DEF StoredInv
<1>4. WorkInv(m)'
  BY <1>1 DEF WorkInv
<1> QED
  BY <1>3, <1>4

\* A return that keeps the finalizer and the spec the pass has read.
LEMMA KeptRecord ==
    ASSUME TypeOK, NEW m \in Metros, StoredInv(m), WorkInv(m), UNCHANGED vha,
           NEW o \in VHA, DReturn(m, o),
           dpc[m] \in {"resolve", "metro", "validate", "ensure", "cleanup"},
           res' = res \/ dpc[m] \in {"validate", "ensure", "cleanup"},
           o.fin = dmem[m].fin, o.spec = dmem[m].spec \/ o.spec = dbase[m].spec
    PROVE  StoredInv(m)' /\ WorkInv(m)'
<1>1. res' = res \/ (vha[m].live /\ vha[m].fin)
  BY DEF WorkInv, Steady
<1>2. dbase[m].spec = dmem[m].spec /\ ~(dbase[m].fin /\ ~o.fin)
  BY DEF WorkInv, Steady
<1> QED
  BY <1>1, <1>2, ReturnRecord

\* Every part of the pass.
LEMMA NormalRecord ==
    ASSUME TypeOK, NEW m \in Metros, StoredInv(m), WorkInv(m),
           \/ StartDomain(m) \/ DomainCallFails(m) \/ Resolve(m)
           \/ AddFinalizer(m) \/ FetchMetro(m) \/ Validate(m)
    PROVE  StoredInv(m)' /\ WorkInv(m)'
<1>1. UNCHANGED <<vha, res>> /\ (Cleared(m)' <=> Cleared(m)) /\ StoredInv(m)'
  BY DEF StartDomain, DomainCallFails, Resolve, AddFinalizer, FetchMetro, Validate, apiVars,
     worldVars, StoredInv, Cleared, GoneIn
<1>2. vha[m] \in VHA /\ dmem[m] \in VHA /\ dbase[m] \in VHA /\ NotReady(m) \in VHA
      /\ NotReady(m).fin = dmem[m].fin /\ NotReady(m).spec = dbase[m].spec
  BY CopiesType
<1>3. ASSUME DGoto(m, "validate") \/ DGoto(m, "ensure") \/ DGoto(m, "metro") \/ DGoto(m, "cleanup"),
             dpc[m] \in {"resolve", "metro"}, UNCHANGED <<dmem, dbase, di>>,
             dpc'[m] = "metro" \/ dmem[m].fin
      PROVE  WorkInv(m)'
  <2>1. dpc'[m] \in {"metro", "validate", "ensure", "cleanup"} /\ di[m] = 1
    BY <1>3 DEF DGoto, TypeOK, DomainTypeOK, WorkInv
  <2>2. Steady(m)' <=> Steady(m)
    BY <1>1, <1>3 DEF Steady
  <2>3. GoneIn(m, dmem[m].spec, {DeleteOrder[i] : i \in 1..(di[m] - 1)} \ Cats)'
    <3>1. {DeleteOrder[i] : i \in 1..(1 - 1)} = {}
      OBVIOUS
    <3> QED
      BY <1>3, <2>1, <3>1 DEF GoneIn
  <2> QED
    BY <1>3, <2>1, <2>2, <2>3 DEF WorkInv
<1>4. CASE StartDomain(m)
  <2>1. dpc'[m] = "resolve" /\ dmem'[m] = vha[m] /\ dbase'[m] = vha[m] /\ di' = di
        /\ vha[m].live /\ dpc[m] = "idle"
    BY <1>4 DEF StartDomain, DGoto, DSet, TypeOK, DomainTypeOK
  <2>2. vha[m].fin => Steady(m)'
    BY <1>1, <2>1 DEF Steady
  <2> QED
    BY <1>1, <2>1, <2>2 DEF WorkInv, StoredInv
<1>5. CASE DomainCallFails(m)
  <2>1. Failed(m) \in {dmem[m], NotReady(m)} /\ DReturn(m, Failed(m))
        /\ dpc[m] \in {"resolve", "metro", "validate", "ensure", "cleanup"}
    BY <1>5 DEF DomainCallFails, Failed
  <2>2. CASE Failed(m) = dmem[m]
    BY <1>1, <1>2, <2>1, <2>2, KeptRecord
  <2>3. CASE Failed(m) = NotReady(m)
    BY <1>1, <1>2, <2>1, <2>3, KeptRecord
  <2> QED
    BY <2>1, <2>2, <2>3
<1>6. CASE Resolve(m)
  <2>1. CASE DReturn(m, dmem[m])
    BY <1>1, <1>2, <1>6, <2>1, KeptRecord DEF Resolve
  <2>2. CASE ~DReturn(m, dmem[m])
    <3>1. dpc[m] = "resolve" /\ DGoto(m, IF dmem[m].del THEN "cleanup" ELSE "metro")
          /\ UNCHANGED <<dmem, dbase, di>>
      BY <1>6, <2>2 DEF Resolve
    <3>2. dmem[m].del => dmem[m].fin
      BY <3>1 DEF WorkInv
    <3>3. dpc'[m] = (IF dmem[m].del THEN "cleanup" ELSE "metro")
      BY <3>1 DEF DGoto, TypeOK, DomainTypeOK
    <3> QED
      BY <1>1, <1>3, <3>1, <3>2, <3>3
  <2> QED
    BY <2>1, <2>2
<1>7. CASE AddFinalizer(m)
  <2> DEFINE o == [dmem[m] EXCEPT !.fin = TRUE]
  <2>1. o \in VHA /\ o.fin /\ o.spec = dmem[m].spec
    BY <1>2 DEF VHA
  <2>2. DReturn(m, o) /\ dpc[m] = "metro"
    BY <1>7 DEF AddFinalizer
  <2>3. dbase[m].spec = o.spec
    BY <2>1, <2>2 DEF WorkInv
  <2> HIDE DEF o
  <2> QED
    BY <1>1, <2>1, <2>2, <2>3, ReturnRecord
<1>8. CASE FetchMetro(m)
  BY <1>1, <1>3, <1>8 DEF FetchMetro
<1>9. CASE Validate(m)
  <2> DEFINE o == IF Intact(m, dmem[m].spec)
                  THEN [dmem[m] EXCEPT !.ready = Complete(dmem[m].spec)]
                  ELSE NotReady(m)
  <2>1. o \in VHA /\ o.fin = dmem[m].fin /\ o.spec \in {dmem[m].spec, dbase[m].spec}
    BY <1>2 DEF VHA, Complete
  <2>2. DReturn(m, o) /\ dpc[m] = "validate"
    BY <1>9 DEF Validate
  <2> HIDE DEF o
  <2> QED
    BY <1>1, <2>1, <2>2, KeptRecord
<1> QED
  BY <1>4, <1>5, <1>6, <1>7, <1>8, <1>9

LEMMA EnsureRecord ==
    ASSUME TypeOK, NEW m \in Metros, StoredInv(m), WorkInv(m), Ensure(m)
    PROVE  StoredInv(m)' /\ WorkInv(m)'
<1>1. dpc[m] = "ensure" /\ UNCHANGED vha /\ dmem[m].fin /\ Steady(m)
  BY DEF Ensure, apiVars, WorkInv
<1>2. vha[m] \in VHA /\ dmem[m] \in VHA /\ dbase[m] \in VHA /\ NotReady(m) \in VHA
      /\ NotReady(m).fin = dmem[m].fin /\ NotReady(m).spec = dbase[m].spec
  BY CopiesType
<1>3. (\E u \in UUIDs \cup {ByName, None} : Ensured(m, u)) \/ DReturn(m, NotReady(m))
  <2>1. ASSUME NEW k \in Kinds, NEW u \in Identities(m, k) PROVE u \in UUIDs \cup {ByName, None}
    BY <2>1 DEF Identities
  <2>2. Order[di[m]] \in Kinds
    BY DEF TypeOK, DomainTypeOK, Order, Kinds
  <2>3. res[m][Order[di[m]]] \in UUIDs \cup {ByName, None}
    BY <2>2 DEF TypeOK, ObjectsTypeOK, Resources
  <2> QED
    BY <2>1, <2>2, <2>3 DEF Ensure
<1>4. CASE DReturn(m, NotReady(m))
  BY <1>1, <1>2, <1>4, KeptRecord
<1>5. ASSUME NEW u \in UUIDs \cup {ByName, None}, Ensured(m, u)
      PROVE  StoredInv(m)' /\ WorkInv(m)'
  <2>1. CASE di[m] < Len(Order)
    <3>1. UNCHANGED <<dpc, dmem, dbase>>
      BY <1>5, <2>1 DEF Ensured
    <3> QED
      BY <1>1, <3>1 DEF StoredInv, WorkInv, Steady
  <2>2. CASE ~(di[m] < Len(Order))
    <3>1. PICK o \in VHA : DReturn(m, o) /\ o.fin
      <4> DEFINE d == [draft[m] EXCEPT ![Order[di[m]]] = u]
                 o == [dmem[m] EXCEPT !.spec = d, !.ready = TRUE]
      <4>1. d \in Resources
        BY DEF Resources, TypeOK, DomainTypeOK
      <4>2. o \in VHA /\ o.fin
        BY <1>1, <1>2, <4>1 DEF VHA
      <4>3. DReturn(m, o)
        BY <1>5, <2>2 DEF Ensured
      <4> QED
        BY <4>2, <4>3
    <3> QED
      BY <1>1, <3>1, ReturnRecord DEF Steady
  <2> QED
    BY <2>1, <2>2
<1> QED
  BY <1>3, <1>4, <1>5

\* The clean-up goes through all that is recorded before it drops the finalizer: only
\* a category lets it end early, and the categories come last.
LEMMA CleanupRecord ==
    ASSUME TypeOK, NEW m \in Metros, StoredInv(m), WorkInv(m), Cleanup(m)
    PROVE  StoredInv(m)' /\ WorkInv(m)'
<1> DEFINE Behind(n) == {DeleteOrder[i] : i \in 1..n} \ Cats
<1>1. dpc[m] = "cleanup" /\ UNCHANGED vha /\ dmem[m].fin /\ Steady(m)
      /\ GoneIn(m, dmem[m].spec, Behind(di[m] - 1))
  BY DEF Cleanup, apiVars, WorkInv
<1>2. vha[m] \in VHA /\ dmem[m] \in VHA /\ dbase[m] \in VHA /\ di[m] \in 1..5
      /\ res \in [Metros -> Resources]
  BY DEF TypeOK, ObjectsTypeOK, DomainTypeOK, Order
<1>3. PICK n \in 1..5 : n = di[m]
  BY <1>2
<1>4. PICK k \in Kinds : k = DeleteOrder[n]
  BY DEF DeleteOrder, Kinds
<1>5. PICK q \in Resources : q = dmem[m].spec
  BY <1>2 DEF VHA
<1>6. CASE DReturn(m, dmem[m])
  BY <1>1, <1>2, <1>6, KeptRecord
<1>7. CASE ~DReturn(m, dmem[m])
  <2>1. /\ (Cleaned(m, TRUE) /\ k \in Cats) \/ Cleaned(m, FALSE)
        /\ \/ res' = res /\ (q[k] = None \/ q[k] # res[m][k] \/ k \in Cats)
           \/ res' = [res EXCEPT ![m][k] = None] /\ q[k] # None
    BY <1>3, <1>4, <1>5, <1>7 DEF Cleanup, InUse
  <2>2. /\ \A j \in Kinds : res'[m][j] \in {res[m][j], None}
        /\ k \notin Cats /\ q[k] # None => res'[m][k] # q[k]
    <3>1. CASE res' = res /\ (q[k] = None \/ q[k] # res[m][k] \/ k \in Cats)
      BY <3>1
    <3>2. CASE res' = [res EXCEPT ![m][k] = None] /\ q[k] # None
      <4>1. res'[m] = [res[m] EXCEPT ![k] = None]
        BY <1>2, <3>2
      <4>2. res[m] \in [Kinds -> UUIDs \cup {ByName, None}]
        BY <1>2 DEF Resources
      <4>3. res'[m][k] = None /\ \A j \in Kinds \ {k} : res'[m][j] = res[m][j]
        BY <4>1, <4>2
      <4> QED
        BY <3>2, <4>3
    <3> QED
      BY <2>1, <3>1, <3>2
  <2>3. Behind(n) \subseteq Behind(n - 1) \cup ({k} \ Cats)
    BY <1>4
  <2>4. GoneIn(m, q, Behind(n - 1))
    BY <1>1, <1>3, <1>5
  <2>5. Behind(n - 1) \subseteq Kinds
    BY DEF DeleteOrder, Kinds
  <2> HIDE DEF Behind
  <2>6. GoneIn(m, q, Behind(n))'
    BY <2>2, <2>3, <2>4, <2>5 DEF GoneIn
  <2>7. CASE n < 5 /\ UNCHANGED <<dpc, dmem, dbase>> /\ di' = [di EXCEPT ![m] = @ + 1]
    <3>1. di'[m] - 1 = n
      BY <1>2, <1>3, <2>7 DEF TypeOK, DomainTypeOK
    <3>2. GoneIn(m, dmem[m].spec, Behind(di[m] - 1))'
      BY <1>5, <2>6, <2>7, <3>1
    <3>3. Steady(m)' /\ dmem'[m].fin /\ dpc'[m] = "cleanup"
      BY <1>1, <2>7 DEF Steady
    <3>4. StoredInv(m)' /\ WorkInv(m)'
      BY <1>1, <3>2, <3>3 DEF StoredInv, WorkInv, Steady, Behind
    <3> QED
      BY <3>4
  <2>8. CASE DReturn(m, [dmem[m] EXCEPT !.fin = FALSE]) /\ (n = 5 \/ k \in Cats)
    <3>1. Objects \subseteq Behind(n)
      <4>1. n \in {4, 5}
        BY <1>4, <2>8 DEF DeleteOrder, Cats
      <4>2. DeleteOrder[1] = "plan0" /\ DeleteOrder[2] = "plan1" /\ DeleteOrder[3] = "policy"
        BY DEF DeleteOrder
      <4>3. \A i \in 1..3 : DeleteOrder[i] \notin Cats => DeleteOrder[i] \in Behind(n)
        BY <4>1 DEF Behind
      <4> QED
        BY <4>2, <4>3 DEF Objects, Kinds, Cats
    <3>2. GoneIn(m, q, Objects)'
      BY <2>6, <3>1 DEF GoneIn
    <3>3. Cleared(m)'
      BY <1>1, <1>5, <3>2 DEF Cleared, Steady
    <3>4. PICK o \in VHA : DReturn(m, o) /\ o.spec = dmem[m].spec
      <4>1. [dmem[m] EXCEPT !.fin = FALSE] \in VHA
            /\ [dmem[m] EXCEPT !.fin = FALSE].spec = dmem[m].spec
        BY <1>2 DEF VHA
      <4> QED
        BY <2>8, <4>1
    <3> QED
      BY <1>1, <3>3, <3>4, ReturnRecord DEF Steady
  <2> QED
    BY <1>3, <2>1, <2>7, <2>8 DEF Cleaned, DeleteOrder
<1> QED
  BY <1>6, <1>7

\* The deferred patch: the finalizer goes when all that is recorded is gone, and the
\* spec changes under the finalizer.
LEMMA PatchRecord ==
    ASSUME TypeOK, NEW m \in Metros, StoredInv(m), WorkInv(m), DPatchSpec(m) \/ DPatchStatus(m)
    PROVE  StoredInv(m)' /\ WorkInv(m)'
<1>1. vha \in [Metros -> VHA] /\ dmem[m] \in VHA /\ dbase[m] \in VHA /\ vha[m] \in VHA
  BY DEF TypeOK, ObjectsTypeOK, DomainTypeOK
<1>2. res' = res /\ di' = di /\ di[m] = 1 /\ dpc'[m] \in {"deferStatus", "idle"}
  BY DEF DPatchSpec, DPatchStatus, worldVars, WorkInv, DGoto, TypeOK, DomainTypeOK
<1>3. WorkInv(m)'
  BY <1>2 DEF WorkInv
<1>4. vha'[m] = vha[m] => StoredInv(m)'
  BY <1>2 DEF StoredInv, Cleared, GoneIn
<1>5. CASE DPatchStatus(m)
  <2>1. vha'[m].spec = vha[m].spec /\ vha'[m].live = vha[m].live /\ vha'[m].fin = vha[m].fin
        /\ vha'[m].del = vha[m].del
    BY <1>1, <1>5 DEF DPatchStatus, VHA
  <2> QED
    BY <1>2, <1>3, <2>1 DEF StoredInv, Cleared, GoneIn
<1>6. CASE DPatchSpec(m)
  <2> DEFINE f == IF dbase[m].fin # dmem[m].fin THEN dmem[m].fin ELSE vha[m].fin
             recorded == IF dbase[m].spec # dmem[m].spec THEN dmem[m].spec ELSE vha[m].spec
             w == WithFin(vha[m], f)
  <2>1. dpc[m] = "deferSpec"
    BY <1>6 DEF DPatchSpec
  <2>2. CASE vha'[m] # vha[m]
    <3>1. vha'[m] = [w EXCEPT !.spec = recorded]
      <4>1. vha' = [vha EXCEPT ![m] = [w EXCEPT !.spec = recorded]]
        BY <1>6, <2>2 DEF DPatchSpec
      <4> QED
        BY <1>1, <4>1
    <3>2. f \in BOOLEAN /\ recorded \in Resources /\ w \in VHA /\ w.del = vha[m].del
          /\ w.live = (vha[m].live /\ (f \/ ~vha[m].del))
          /\ w.fin = (f /\ (vha[m].fin \/ ~vha[m].del))
      BY <1>1 DEF VHA, WithFin
    <3>3. vha'[m].spec = recorded /\ vha'[m].live = w.live /\ vha'[m].fin = w.fin
          /\ vha'[m].del = w.del
      BY <3>1, <3>2 DEF VHA
    <3>4. vha'[m].live /\ vha'[m].del => vha'[m].fin
      BY <3>2, <3>3 DEF StoredInv
    <3>5. ~(vha'[m].live /\ vha'[m].fin) => Cleared(m)'
      <4> SUFFICES ASSUME ~(vha'[m].live /\ vha'[m].fin) PROVE Cleared(m)'
        OBVIOUS
      <4>1. CASE dbase[m].fin /\ ~dmem[m].fin
        <5>1. recorded = vha[m].spec /\ Cleared(m)
          BY <2>1, <4>1 DEF WorkInv
        <5> QED
          BY <1>2, <3>3, <5>1 DEF Cleared, GoneIn
      <4>2. CASE ~(dbase[m].fin /\ ~dmem[m].fin)
        <5>1. ~(vha[m].live /\ vha[m].fin)
          BY <1>1, <3>2, <3>3, <4>2 DEF VHA
        <5>2. recorded = vha[m].spec /\ Cleared(m)
          BY <2>1, <5>1 DEF WorkInv, StoredInv
        <5> QED
          BY <1>2, <3>3, <5>2 DEF Cleared, GoneIn
      <4> QED
        BY <4>1, <4>2
    <3> QED
      BY <1>3, <3>4, <3>5 DEF StoredInv
  <2> QED
    BY <1>3, <1>4, <2>2
<1> QED
  BY <1>5, <1>6

\* The workers of two vHADomains do not meet.
LEMMA DomainApart ==
    ASSUME TypeOK, NEW n \in Metros, ReconcileDomain(n), NEW m \in Metros, n # m
    PROVE  /\ UNCHANGED <<dpc[m], dmem[m], dbase[m], di[m]>>
           /\ vha'[m] = vha[m] /\ res'[m] = res[m]
<1>1. UNCHANGED <<dpc[m], dmem[m], dbase[m], di[m]>>
  <2>1. \A l : DGoto(n, l) => dpc'[m] = dpc[m]
    BY DEF TypeOK, DomainTypeOK, DGoto
  <2>2. \A o : DSet(n, o) => dmem'[m] = dmem[m]
    BY DEF TypeOK, DomainTypeOK, DSet
  <2>3. \A o : DReturn(n, o) => UNCHANGED <<dpc[m], dmem[m], dbase[m], di[m]>>
    BY <2>1, <2>2 DEF TypeOK, DomainTypeOK, DReturn
  <2>4. CASE StartDomain(n) \/ DPatchSpec(n) \/ DPatchStatus(n)
    BY <2>1, <2>2, <2>4 DEF TypeOK, DomainTypeOK, StartDomain, DPatchSpec, DPatchStatus
  <2>5. CASE DomainCallFails(n) \/ Resolve(n) \/ AddFinalizer(n) \/ FetchMetro(n) \/ Validate(n)
    BY <2>1, <2>3, <2>5 DEF DomainCallFails, Resolve, AddFinalizer, FetchMetro, Validate
  <2>6. CASE Ensure(n)
    <3>1. (\E u : Ensured(n, u)) \/ \E o : DReturn(n, o)
      BY <2>6 DEF Ensure
    <3>2. ASSUME NEW u, Ensured(n, u) PROVE UNCHANGED <<dpc[m], dmem[m], dbase[m], di[m]>>
      BY <2>3, <3>2 DEF Ensured, TypeOK, DomainTypeOK
    <3> QED
      BY <2>3, <3>1, <3>2
  <2>7. CASE Cleanup(n)
    <3>1. (\E last \in BOOLEAN : Cleaned(n, last)) \/ \E o : DReturn(n, o)
      BY <2>7 DEF Cleanup
    <3>2. ASSUME NEW last \in BOOLEAN, Cleaned(n, last)
          PROVE  UNCHANGED <<dpc[m], dmem[m], dbase[m], di[m]>>
      BY <2>3, <3>2 DEF Cleaned, TypeOK, DomainTypeOK
    <3> QED
      BY <2>3, <3>1, <3>2
  <2> QED
    BY <2>4, <2>5, <2>6, <2>7 DEF ReconcileDomain
<1>2. vha'[m] = vha[m]
  BY DEF TypeOK, ObjectsTypeOK, ReconcileDomain, StartDomain, DomainCallFails, Resolve,
     AddFinalizer, FetchMetro, Validate, Ensure, Cleanup, DPatchSpec, DPatchStatus, apiVars
<1>3. res'[m] = res[m]
  BY DEF TypeOK, ObjectsTypeOK, ReconcileDomain, StartDomain, DomainCallFails, Resolve,
     AddFinalizer, FetchMetro, Validate, Ensure, Cleanup, DPatchSpec, DPatchStatus, worldVars
<1> QED
  BY <1>1, <1>2, <1>3

LEMMA RecordStep ==
    ASSUME TypeOK, RecordInv, [Next]_vars
    PROVE  RecordInv'
<1> SUFFICES ASSUME NEW m \in Metros PROVE StoredInv(m)' /\ WorkInv(m)'
  BY DEF RecordInv
<1>1. StoredInv(m) /\ WorkInv(m)
  BY DEF RecordInv
<1>2. vha \in [Metros -> VHA] /\ res \in [Metros -> Resources]
  BY DEF TypeOK, ObjectsTypeOK
<1>3. CASE ClusterStep
  <2>1. UNCHANGED domainVars /\ UNCHANGED res
    BY <1>3 DEF ClusterStep, ReconcileCluster, StartCluster, ClusterCallFails, ReconcileRef,
       Dispatch, ListMissing, CreateDomain, ClusterReady, WaitForMachines, ListDomains,
       DeleteDomain, RequeueForDomains, DeleteCategories, ReleaseRef, RemoveRef, PatchCond,
       PatchSpec, PatchStatus, worldVars
  <2>2. \/ vha'[m] = vha[m] \/ vha'[m] = Deleted(vha[m])
        \/ ~vha[m].live /\ vha'[m] = NewVHA
    <3>1. CASE CreateDomain
      <4>1. vha' = vha \/ \E n \in Metros : ~vha[n].live /\ vha' = [vha EXCEPT ![n] = NewVHA]
        BY <3>1 DEF CreateDomain, TypeOK, ClusterTypeOK
      <4> QED
        BY <1>2, <4>1
    <3>2. CASE DeleteDomain
      <4>1. vha' = vha \/ \E n \in Metros : vha' = [vha EXCEPT ![n] = Deleted(@)]
        BY <3>2 DEF DeleteDomain, TypeOK, ClusterTypeOK
      <4> QED
        BY <1>2, <4>1
    <3>3. CASE UNCHANGED vha
      BY <3>3
    <3> QED
      BY <1>3, <3>1, <3>2, <3>3 DEF ClusterStep, ReconcileCluster, StartCluster,
         ClusterCallFails, ReconcileRef, Dispatch, ListMissing, ClusterReady, WaitForMachines,
         ListDomains, RequeueForDomains, DeleteCategories, ReleaseRef, RemoveRef, PatchCond,
         PatchSpec, PatchStatus, apiVars
  <2> QED
    BY <1>1, <2>1, <2>2, OutsideRecord DEF domainVars
<1>4. CASE WorldStep
  <2>1. UNCHANGED domainVars
    BY <1>4 DEF WorldStep
  <2>2. vha'[m] = vha[m] \/ vha'[m] = Deleted(vha[m])
    BY <1>2, <1>4 DEF WorldStep, World, DeleteCluster, DeleteNutanixCluster, StrayDelete,
       CollectGarbage, DomainListSyncs, MachineListSyncs, Drift, MachineAppears,
       MachineCreates, MachineGone, apiVars
  <2>3. \A k \in Kinds : res'[m][k] \in {res[m][k], None}
    <3>1. CASE Drift
      <4>1. PICK n \in Metros, j \in Kinds : res' = [res EXCEPT ![n][j] = None]
        BY <3>1 DEF Drift
      <4>2. res[n] \in [Kinds -> UUIDs \cup {ByName, None}]
        BY <1>2 DEF Resources
      <4>3. res'[m] = res[m] \/ res'[m] = [res[m] EXCEPT ![j] = None]
        BY <1>2, <4>1
      <4>4. res[m] \in [Kinds -> UUIDs \cup {ByName, None}]
        BY <1>2 DEF Resources
      <4> QED
        BY <4>3, <4>4
    <3>2. CASE UNCHANGED res
      BY <3>2
    <3> QED
      BY <1>4, <3>1, <3>2 DEF WorldStep, World, DeleteCluster, DeleteNutanixCluster,
         StrayDelete, CollectGarbage, DomainListSyncs, MachineListSyncs, MachineAppears,
         MachineCreates, MachineGone,
         worldVars
  <2> QED
    BY <1>1, <2>1, <2>2, <2>3, OutsideRecord DEF domainVars
<1>5. ASSUME NEW n \in Metros, DomainStep(n) PROVE StoredInv(m)' /\ WorkInv(m)'
  <2>1. ReconcileDomain(n)
    BY <1>5 DEF DomainStep
  <2>2. CASE n = m
    BY <1>1, <2>1, <2>2, NormalRecord, EnsureRecord, CleanupRecord, PatchRecord
       DEF ReconcileDomain
  <2>3. CASE n # m
    <3>1. /\ UNCHANGED <<dpc[m], dmem[m], dbase[m], di[m]>>
          /\ vha'[m] = vha[m] /\ res'[m] = res[m]
      BY <1>2, <2>1, <2>3, DomainApart
    <3> QED
      BY <1>1, <3>1, OutsideRecord
  <2> QED
    BY <2>2, <2>3
<1>6. CASE Crash
  <2>1. dpc'[m] = "idle" /\ di'[m] = 1 /\ vha' = vha /\ res' = res
    BY <1>6 DEF Crash, worldVars
  <2> QED
    BY <1>1, <2>1 DEF StoredInv, WorkInv, Cleared, GoneIn
<1>7. CASE UNCHANGED vars
  BY <1>1, <1>7, OutsideRecord DEF vars, apiVars, worldVars, domainVars
<1> QED
  BY <1>3, <1>4, <1>5, <1>6, <1>7 DEF Next

\* A vHADomain leaves the API server after the policy and the plans it records have
\* left Prism Central: whatever else fails, is lost, stops, drifts or is deleted by
\* mistake.  deleteVHADomainPCResources before the finalizer.
THEOREM RecordedGoesFirst == Spec => []RecordedResourcesGone
<1>1. RecordInv => RecordedResourcesGone
  BY DEF RecordInv, StoredInv, Cleared, GoneIn, Objects, RecordedResourcesGone
<1>2. Spec => []RecordInv
  BY InitRecord, TypeCorrect, RecordStep, PTL DEF Spec
<1> QED
  BY <1>1, <1>2, PTL
-----------------------------------------------------------------------------
(* The protection of the machines.                                         *)

\* Cluster API deletes the NutanixCluster after its machines, and only then does a
\* vHADomain clean up.
CleanInv ==
    /\ nc.del => capiDel /\ ~mach
    /\ \A m \in Metros : dpc[m] = "cleanup" => nc.del

LEMMA DeletionStays ==
    ASSUME TypeOK, [Next]_vars
    PROVE  \/ UNCHANGED <<nc, mach, capiDel>>
           \/ nc'.del = nc.del /\ UNCHANGED <<mach, capiDel, dpc>>
           \/ (DeleteNutanixCluster \/ MachineAppears \/ DeleteCluster \/ MachineGone)
              /\ (nc.del => nc'.del) /\ UNCHANGED dpc
<1>1. nc \in NC /\ cmem \in NC
  BY DEF TypeOK, ObjectsTypeOK, ClusterTypeOK
<1>2. CASE ClusterStep
  <2>1. UNCHANGED <<mach, capiDel, dpc>>
    BY <1>2 DEF ClusterStep, domainVars, ReconcileCluster, StartCluster, ClusterCallFails,
       ReconcileRef, Dispatch, ListMissing, CreateDomain, ClusterReady, WaitForMachines,
       ListDomains, DeleteDomain, RequeueForDomains, DeleteCategories, ReleaseRef, RemoveRef,
       PatchCond, PatchSpec, PatchStatus, worldVars
  <2>2. nc' \in {nc, WithFin(nc, TRUE), WithFin(nc, FALSE), [nc EXCEPT !.cat = cmem.cat],
               [nc EXCEPT !.ready = cmem.ready]}
    <3>1. CASE PatchCond \/ PatchSpec \/ PatchStatus
      BY <1>1, <3>1 DEF PatchCond, PatchSpec, PatchStatus, Patch, NC
    <3>2. CASE UNCHANGED nc
      BY <3>2
    <3> QED
      BY <1>2, <3>1, <3>2 DEF ClusterStep, ReconcileCluster, StartCluster, ClusterCallFails,
         ReconcileRef, Dispatch, ListMissing, CreateDomain, ClusterReady, WaitForMachines,
         ListDomains, DeleteDomain, RequeueForDomains, DeleteCategories, ReleaseRef, RemoveRef,
         apiVars
  <2>3. nc'.del = nc.del
    BY <1>1, <2>2 DEF WithFin, NC
  <2> QED
    BY <2>1, <2>3
<1>3. CASE WorldStep
  <2>1. UNCHANGED dpc
    BY <1>3 DEF WorldStep, domainVars
  <2>2. CASE DeleteNutanixCluster \/ MachineAppears \/ DeleteCluster \/ MachineGone
    <3>1. nc' = nc \/ nc' = Deleted(nc)
      BY <2>2 DEF DeleteNutanixCluster, MachineAppears, DeleteCluster, MachineGone, apiVars
    <3>2. nc.del => nc'.del
      BY <1>1, <3>1 DEF Deleted, NC
    <3> QED
      BY <2>1, <2>2, <3>2
  <2>3. CASE MachineCreates
    <3>1. nc' \in {nc, [nc EXCEPT !.cat = "created"]} /\ UNCHANGED <<mach, capiDel>>
      BY <2>3 DEF MachineCreates
    <3>2. nc'.del = nc.del
      BY <1>1, <3>1 DEF NC
    <3> QED
      BY <2>1, <3>1, <3>2
  <2>4. CASE \/ StrayDelete \/ CollectGarbage
            \/ DomainListSyncs \/ MachineListSyncs \/ Drift
    BY <2>4 DEF StrayDelete, CollectGarbage, DomainListSyncs, MachineListSyncs, Drift, apiVars,
       worldVars
  <2> QED
    BY <1>3, <2>2, <2>3, <2>4 DEF WorldStep, World
<1>4. ASSUME NEW m \in Metros, DomainStep(m) PROVE UNCHANGED <<nc, mach, capiDel>>
  BY <1>4 DEF DomainStep, ReconcileDomain, StartDomain, DomainCallFails, Resolve, AddFinalizer,
     FetchMetro, Validate, Ensure, Cleanup, DPatchSpec, DPatchStatus, apiVars, worldVars
<1>5. CASE Crash \/ UNCHANGED vars
  BY <1>5 DEF Crash, vars, apiVars, worldVars
<1> QED
  BY <1>2, <1>3, <1>4, <1>5 DEF Next

\* A clean-up begins in a cluster that is being deleted.
LEMMA CleanupBegins ==
    ASSUME TypeOK, [Next]_vars, NEW m \in Metros, dpc'[m] = "cleanup", dpc[m] # "cleanup"
    PROVE  nc.del
<1>1. PICK n \in Metros : ReconcileDomain(n)
  <2>1. ~(UNCHANGED dpc)
    OBVIOUS
  <2>2. ~Crash
    BY DEF Crash
  <2> QED
    BY <2>1, <2>2 DEF Next, ClusterStep, WorldStep, DomainStep, vars, domainVars
<1>2. n = m
  BY <1>1, DomainApart
<1>3. \A l : DGoto(m, l) => dpc'[m] = l
  BY DEF DGoto, TypeOK, DomainTypeOK
<1>4. \A o : ~DReturn(m, o)
  BY <1>3 DEF DReturn
<1>5. Resolve(m)
  <2>1. ~StartDomain(m) /\ ~DPatchSpec(m) /\ ~DPatchStatus(m) /\ ~FetchMetro(m)
    BY <1>3 DEF StartDomain, DPatchSpec, DPatchStatus, FetchMetro
  <2>2. ~DomainCallFails(m) /\ ~AddFinalizer(m) /\ ~Validate(m)
    BY <1>4 DEF DomainCallFails, AddFinalizer, Validate
  <2>3. ~Ensure(m)
    <3> SUFFICES ASSUME Ensure(m) PROVE FALSE
      OBVIOUS
    <3>1. PICK u : Ensured(m, u)
      BY <1>4 DEF Ensure
    <3> QED
      BY <1>4, <3>1 DEF Ensured
  <2>4. ~Cleanup(m)
    BY DEF Cleanup
  <2> QED
    BY <1>1, <1>2, <2>1, <2>2, <2>3, <2>4 DEF ReconcileDomain
<1> QED
  BY <1>3, <1>4, <1>5 DEF Resolve

LEMMA CleanStep ==
    ASSUME ~DirectDelete, TypeOK, CleanInv, [Next]_vars
    PROVE  CleanInv'
<1>1. nc \in NC
  BY DEF TypeOK, ObjectsTypeOK
<1>2. nc.del => nc'.del
  BY DeletionStays
<1>3. nc'.del => capiDel' /\ ~mach'
  <2>1. CASE DeleteNutanixCluster
    BY <2>1 DEF DeleteNutanixCluster, CleanInv, worldVars
  <2>2. CASE MachineAppears
    BY <2>2 DEF MachineAppears, CleanInv, apiVars
  <2>3. CASE DeleteCluster \/ MachineGone
    BY <2>3 DEF DeleteCluster, MachineGone, CleanInv, apiVars
  <2> QED
    BY <2>1, <2>2, <2>3, DeletionStays DEF CleanInv
<1>4. \A m \in Metros : dpc'[m] = "cleanup" => nc'.del
  BY <1>2, CleanupBegins DEF CleanInv
<1> QED
  BY <1>3, <1>4 DEF CleanInv

\* The controller takes a resource of a vHADomain down only when no machine is left,
\* where the NutanixCluster is deleted by Cluster API, which waits for the machines:
\* also if the vHADomain was deleted by mistake before.  The check of both owners.
THEOREM ProtectionStays == ~DirectDelete => (Spec => ProtectedWhileUsed)
<1> SUFFICES ASSUME ~DirectDelete PROVE Spec => ProtectedWhileUsed
  OBVIOUS
<1>1. Init => CleanInv
  BY DEF Init, ObjectsInit, DomainInit, NewNC, CleanInv
<1>2. Spec => []CleanInv
  BY <1>1, CleanStep, TypeCorrect, PTL DEF Spec
<1>3. CleanInv /\ [Next]_vars =>
         [\A m \in Metros, k \in Kinds :
             dpc[m] = "cleanup" /\ res[m][k] # None /\ res'[m][k] = None => ~mach]_vars
  BY DEF CleanInv
<1> QED
  BY <1>2, <1>3, PTL DEF Spec, ProtectedWhileUsed
=============================================================================
