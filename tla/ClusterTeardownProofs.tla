------------------------ MODULE ClusterTeardownProofs ------------------------
(***************************************************************************)
(* Proofs about ClusterTeardown, for any metros, UUIDs and faults: its      *)
(* types, and that neither machines nor vHADomains outlive what is needed   *)
(* to remove them.                                                         *)
(***************************************************************************)
EXTENDS ClusterTeardown, TLAPS

USE ClusterAssumption

-----------------------------------------------------------------------------
(* Helpers.                                                                *)

LEMMA RefsType ==
    /\ Len(RefSeq) \in {1, 2} /\ DOMAIN RefSeq = 1..Len(RefSeq)
    /\ \A i \in 1..Len(RefSeq) : RefSeq[i] \in Refs
    /\ \A o \in Refs : \E i \in 1..Len(RefSeq) : o = RefSeq[i]
<1>1. CASE UseBundle
  BY <1>1 DEF RefSeq, Refs
<1>2. CASE ~UseBundle
  BY <1>2 DEF RefSeq, Refs
<1> QED
  BY <1>1, <1>2

\* What Delete and the patch of a finalizer do to each kind of object.
LEMMA NCOps ==
    ASSUME NEW o \in NC, NEW f \in BOOLEAN
    PROVE  /\ Deleted(o) \in NC /\ WithFin(o, f) \in NC
           /\ Deleted(o).del /\ Deleted(o).live = (o.live /\ o.fin)
           /\ Deleted(o).fin = o.fin /\ Deleted(o).ready = o.ready
           /\ WithFin(o, f).del = o.del /\ WithFin(o, f).ready = o.ready
           /\ WithFin(o, f).live = (o.live /\ (f \/ ~o.del))
BY DEF NC, Deleted, WithFin

LEMMA RefOps ==
    ASSUME NEW o \in Ref, NEW f \in BOOLEAN
    PROVE  /\ Deleted(o) \in Ref /\ WithFin(o, f) \in Ref
           /\ Deleted(o).del /\ Deleted(o).live = (o.live /\ o.fin)
           /\ Deleted(o).fin = o.fin /\ Deleted(o).owner = o.owner
           /\ WithFin(o, f).del = o.del /\ WithFin(o, f).owner = o.owner
           /\ WithFin(o, f).live = (o.live /\ (f \/ ~o.del))
           /\ WithFin(o, f).fin = (f /\ (o.fin \/ ~o.del))
BY DEF Ref, Deleted, WithFin

LEMMA VHAOps ==
    ASSUME NEW o \in VHA, NEW f \in BOOLEAN
    PROVE  /\ Deleted(o) \in VHA /\ WithFin(o, f) \in VHA
           /\ Deleted(o).live => o.live
           /\ WithFin(o, f).live => o.live
BY DEF VHA, Deleted, WithFin

LEMMA NewType ==
    /\ NoResources \in Resources /\ NewNC \in NC /\ NewVHA \in VHA /\ Absent \in VHA
    /\ \A w \in {"free", "this", "other"} : NewRef(w) \in Ref
    /\ NewNC.live /\ ~NewNC.fin /\ ~NewNC.del /\ ~NewNC.ready
    /\ ~Absent.live
BY DEF NoResources, Resources, NewNC, NC, NewVHA, VHA, Absent, NewRef, Ref, Kinds

LEMMA FaultType ==
    ASSUME faults \in 0..MaxFaults, Fault \/ Done
    PROVE  faults' \in 0..MaxFaults
BY DEF Fault, Done

-----------------------------------------------------------------------------
(* Types.                                                                  *)

LEMMA InitType == Init => TypeOK
<1> SUFFICES ASSUME Init PROVE TypeOK
  OBVIOUS
<1>1. ObjectsTypeOK
  <2>1. refs \in [Refs -> Ref]
    BY NewType DEF Init, ObjectsInit
  <2>2. vha \in [Metros -> VHA] /\ res \in [Metros -> Resources] /\ nc \in NC
    BY NewType DEF Init, ObjectsInit
  <2>3. {tag, mach, capiDel} \subseteq BOOLEAN
    BY DEF Init, ObjectsInit
  <2>4. listed \in Listed /\ past \in SUBSET Events /\ faults \in 0..MaxFaults
    BY DEF Init, ObjectsInit, Listed
  <2> QED
    BY <2>1, <2>2, <2>3, <2>4 DEF ObjectsTypeOK
<1>2. ClusterTypeOK
  BY NewType, RefsType DEF Init, ClusterInit, ClusterTypeOK, ClusterPCs
<1>3. DomainTypeOK
  BY NewType DEF Init, DomainInit, DomainTypeOK, Order
<1> QED
  BY <1>1, <1>2, <1>3 DEF TypeOK

LEMMA WorldType ==
    ASSUME ObjectsTypeOK, World
    PROVE  ObjectsTypeOK'
<1> USE DEF ObjectsTypeOK
<1>0. \A o \in Refs : Deleted(refs[o]) \in Ref
  BY RefOps
<1>00. \A m \in Metros : Deleted(vha[m]) \in VHA
  BY VHAOps
<1>1. CASE DeleteCluster
  BY <1>1 DEF DeleteCluster, apiVars
<1>2. CASE DeleteNutanixCluster
  BY <1>2, NCOps DEF DeleteNutanixCluster, Noted, Events
<1>3. CASE StrayDelete
  BY <1>3, <1>0, <1>00, FaultType DEF StrayDelete, worldVars
<1>4. CASE CollectGarbage
  BY <1>4, <1>0, <1>00 DEF CollectGarbage, worldVars
<1>5. CASE DomainListSyncs \/ MachineListSyncs
  BY <1>5 DEF DomainListSyncs, MachineListSyncs, Domains, Listed, worldVars
<1>6. CASE Drift
  BY <1>6, FaultType DEF Drift, apiVars, Resources
<1>7. CASE MachineAppears
  BY <1>7 DEF MachineAppears, Noted, Events, apiVars
<1>8. CASE MachineCreates
  <2>1. nc' \in NC
    BY <1>8 DEF MachineCreates, NC
  <2> QED
    BY <1>8, <2>1, FaultType DEF MachineCreates, Done, NotDone
<1>9. CASE MachineGone
  BY <1>9 DEF MachineGone, apiVars
<1> QED
  BY <1>1, <1>2, <1>3, <1>4, <1>5, <1>6, <1>7, <1>8, <1>9 DEF World

\* What a step of the NutanixCluster's pass leaves in its variables.
LEMMA ClusterPassType ==
    ASSUME TypeOK, ReconcileCluster
    PROVE  ClusterTypeOK'
<1> USE DEF TypeOK, ClusterTypeOK, ClusterPCs
<1>0. ci \in 1..Len(RefSeq) /\ cmem \in NC /\ cbase \in NC /\ todo \in SUBSET Metros /\ nc \in NC
  BY DEF ObjectsTypeOK
<1>1. ASSUME NEW l \in ClusterPCs, CGoto(l)
      PROVE  ClusterTypeOK'
  BY <1>1 DEF CGoto
<1>2. ASSUME CReturn PROVE ClusterTypeOK'
  BY <1>1, <1>2 DEF CReturn
<1>3. ASSUME NEW a \in ClusterPCs, NEW l \in ClusterPCs, NextRef(a, l), cmem' \in NC
      PROVE  ClusterTypeOK'
  BY <1>3, RefsType DEF NextRef
<1>4. ASSUME NEW f \in BOOLEAN PROVE [cmem EXCEPT !.fin = f] \in NC
  BY DEF NC
<1>5. CASE StartCluster
  BY <1>5, <1>0, RefsType DEF StartCluster
<1>6. CASE ClusterCallFails
  BY <1>6, <1>2 DEF ClusterCallFails
<1>7. CASE ReconcileRef
  <2>1. CReturn \/ (NextRef("ref", "dispatch") /\ cmem' = cmem)
    BY <1>7 DEF ReconcileRef
  <2> QED
    BY <1>2, <1>3, <2>1
<1>8. CASE Dispatch
  BY <1>8, <1>0, NCOps DEF Dispatch, NC
<1>9. CASE ListMissing \/ ListDomains
  <2>1. listed.domains \subseteq Metros
    BY DEF Listed, ObjectsTypeOK
  <2>2. /\ cpc' \in ClusterPCs /\ todo' \subseteq Metros
        /\ UNCHANGED <<cmem, cbase, ci>>
    BY <1>9, <2>1 DEF ListMissing, ListDomains
  <2> QED
    BY <2>2
<1>10. CASE CreateDomain
  BY <1>10, <1>2 DEF CreateDomain
<1>11. CASE ClusterReady
  BY <1>11 DEF ClusterReady, NC
<1>12. CASE WaitForMachines
  BY <1>12, <1>1 DEF WaitForMachines
<1>13. CASE DeleteDomain
  BY <1>13, <1>2 DEF DeleteDomain
<1>14. CASE RequeueForDomains
  BY <1>14, <1>2 DEF RequeueForDomains
<1>15. CASE DeleteCategories
  <2>1. /\ cmem' \in {[cmem EXCEPT !.cat = "deleting"], [cmem EXCEPT !.cat = "deletionFailed"]}
        /\ cpc' \in {"release", "deferCond"} /\ UNCHANGED <<cbase, ci, todo>>
    BY <1>15 DEF DeleteCategories
  <2>2. cmem' \in NC
    BY <2>1 DEF NC
  <2> QED
    BY <2>1, <2>2
<1>16. ASSUME NEW a \in ClusterPCs, Released(a) PROVE ClusterTypeOK'
  <2>1. cmem' \in NC
    BY <1>4, <1>16 DEF Released, NC
  <2> QED
    BY <1>3, <1>16, <2>1 DEF Released
<1>17. CASE ReleaseRef
  BY <1>17, <1>1, <1>2, <1>16 DEF ReleaseRef
<1>18. CASE RemoveRef
  BY <1>18, <1>2, <1>16 DEF RemoveRef
<1>19. CASE PatchCond \/ PatchSpec
  BY <1>19, <1>1 DEF PatchCond, PatchSpec
<1>20. CASE PatchStatus
  BY <1>20, RefsType, NewType DEF PatchStatus, ClusterRest
<1> QED
  BY <1>5, <1>6, <1>7, <1>8, <1>9, <1>10, <1>11, <1>12, <1>13, <1>14, <1>15, <1>17, <1>18,
     <1>19, <1>20 DEF ReconcileCluster

\* What it does to the objects: one of them, or the tag, and the faults.
LEMMA ClusterObjectsType ==
    ASSUME TypeOK, ReconcileCluster
    PROVE  ObjectsTypeOK'
<1> USE DEF TypeOK, ObjectsTypeOK, ClusterTypeOK
<1>0. RefSeq[ci] \in Refs
  BY RefsType
<1>1. faults' \in 0..MaxFaults
  BY FaultType DEF ReconcileCluster, StartCluster, ClusterCallFails, ReconcileRef, Dispatch,
     ListMissing, CreateDomain, ClusterReady, WaitForMachines, ListDomains, DeleteDomain,
     RequeueForDomains, DeleteCategories, ReleaseRef, RemoveRef, PatchCond, PatchSpec,
     PatchStatus, Lost, NotDone
<1>2. CASE UNCHANGED <<apiVars, worldVars>>
  BY <1>1, <1>2 DEF apiVars, worldVars
<1>3. CASE ReconcileRef \/ ReleaseRef \/ RemoveRef
  <2>1. UNCHANGED <<nc, vha, listed, worldVars>>
    BY <1>3 DEF ReconcileRef, ReleaseRef, RemoveRef
  <2>2. \A f \in BOOLEAN : WithFin(refs[RefSeq[ci]], f) \in Ref /\ Deleted(refs[RefSeq[ci]]) \in Ref
    BY <1>0, RefOps
  <2>3. [WithFin(refs[RefSeq[ci]], TRUE) EXCEPT !.owner = "this"] \in Ref
    BY <2>2 DEF Ref
  <2>4. refs' \in [Refs -> Ref]
    <3>1. CASE ReconcileRef
      BY <1>0, <2>3, <3>1 DEF ReconcileRef
    <3>2. CASE ReleaseRef
      BY <1>0, <2>2, <3>2 DEF ReleaseRef
    <3>3. CASE RemoveRef
      BY <1>0, <2>2, <3>3 DEF RemoveRef
    <3> QED
      BY <1>3, <3>1, <3>2, <3>3
  <2> QED
    BY <1>1, <2>1, <2>4 DEF worldVars
<1>4. CASE CreateDomain \/ DeleteDomain
  <2>1. UNCHANGED <<nc, refs, listed, worldVars>>
    BY <1>4 DEF CreateDomain, DeleteDomain
  <2>2. \A m \in Metros : Deleted(vha[m]) \in VHA
    BY VHAOps
  <2>3. vha' \in [Metros -> VHA]
    BY <1>4, <2>2, NewType DEF CreateDomain, DeleteDomain
  <2> QED
    BY <1>1, <2>1, <2>3 DEF worldVars
<1>5. CASE DeleteCategories
  <2>1. UNCHANGED <<apiVars, res, mach, capiDel, past>> /\ tag' \in {tag, FALSE}
    BY <1>5 DEF DeleteCategories
  <2> QED
    BY <1>1, <2>1 DEF apiVars
<1>6. CASE PatchCond \/ PatchSpec \/ PatchStatus
  <2>1. UNCHANGED <<refs, vha, listed, worldVars>>
    BY <1>6 DEF PatchCond, PatchSpec, PatchStatus
  <2>2. WithFin(nc, cmem.fin) \in NC
    BY NCOps DEF NC
  <2>3. [nc EXCEPT !.cat = cmem.cat] \in NC /\ [nc EXCEPT !.ready = cmem.ready] \in NC
    BY DEF NC
  <2>4. nc' \in NC
    BY <1>6, <2>2, <2>3 DEF PatchCond, PatchSpec, PatchStatus, Patch
  <2> QED
    BY <1>1, <2>1, <2>4 DEF worldVars
<1>7. CASE WaitForMachines \/ ListDomains
  BY <1>1, <1>7 DEF WaitForMachines, ListDomains, Noted, Events, apiVars
<1>8. \/ UNCHANGED <<apiVars, worldVars>> \/ ReconcileRef \/ ReleaseRef \/ RemoveRef
      \/ WaitForMachines \/ ListDomains
      \/ CreateDomain \/ DeleteDomain \/ DeleteCategories
      \/ PatchCond \/ PatchSpec \/ PatchStatus
  BY DEF ReconcileCluster, StartCluster, ClusterCallFails, Dispatch, ListMissing,
     ClusterReady, RequeueForDomains
<1> QED
  BY <1>2, <1>3, <1>4, <1>5, <1>6, <1>7, <1>8

\* A step of a vHADomain's pass.
LEMMA DomainType ==
    ASSUME TypeOK, NEW m \in Metros, ReconcileDomain(m)
    PROVE  DomainTypeOK' /\ ObjectsTypeOK'
<1> USE DEF TypeOK, ObjectsTypeOK, DomainTypeOK
<1> DEFINE DPCs == {"idle", "resolve", "metro", "validate", "ensure", "cleanup",
                    "deferSpec", "deferStatus"}
<1>0. /\ vha[m] \in VHA /\ dmem[m] \in VHA /\ dbase[m] \in VHA /\ draft[m] \in Resources
      /\ di[m] \in 1..5 /\ Len(Order) = 5 /\ Len(DeleteOrder) = 5
      /\ \A i \in 1..5 : Order[i] \in Kinds /\ DeleteOrder[i] \in Kinds
  BY DEF Order, DeleteOrder, Kinds
<1>1. ASSUME NEW o \in VHA, DReturn(m, o) PROVE DomainTypeOK'
  BY <1>0, <1>1, NewType DEF DReturn, DGoto, DSet
<1>2. ASSUME NEW l \in DPCs, DGoto(m, l), UNCHANGED <<dmem, dbase, di, draft>>
      PROVE  DomainTypeOK'
  BY <1>2 DEF DGoto
<1>3. /\ NotReady(m) \in VHA /\ Failed(m) \in VHA
      /\ \A f \in BOOLEAN : /\ [dmem[m] EXCEPT !.fin = f] \in VHA
                            /\ [dmem[m] EXCEPT !.ready = f] \in VHA
      /\ \A d \in Resources : [dmem[m] EXCEPT !.spec = d, !.ready = TRUE] \in VHA
  BY <1>0 DEF NotReady, Failed, VHA
<1>4. faults' \in 0..MaxFaults
  <2>1. UNCHANGED faults \/ Fault
    BY DEF ReconcileDomain, StartDomain, DomainCallFails, Resolve, AddFinalizer, FetchMetro,
       Validate, Ensure, Cleanup, DPatchSpec, DPatchStatus, Done, Lost, NotDone
  <2> QED
    BY <2>1, FaultType
<1>5. CASE StartDomain(m)
  BY <1>0, <1>4, <1>5 DEF StartDomain, DGoto, DSet, apiVars, worldVars
<1>6. CASE DomainCallFails(m) \/ AddFinalizer(m)
  <2>1. \E o \in VHA : DReturn(m, o)
    BY <1>3, <1>6 DEF DomainCallFails, AddFinalizer
  <2> QED
    BY <1>1, <1>4, <1>6, <2>1 DEF DomainCallFails, AddFinalizer, apiVars, worldVars
<1>7. CASE Resolve(m) \/ FetchMetro(m)
  <2>1. DomainTypeOK'
    BY <1>0, <1>1, <1>2, <1>7 DEF Resolve, FetchMetro
  <2> QED
    BY <1>4, <1>7, <2>1 DEF Resolve, FetchMetro, apiVars, worldVars
<1>8. CASE Validate(m)
  <2>1. \E o \in VHA : DReturn(m, o)
    BY <1>3, <1>8 DEF Validate, Complete
  <2> QED
    BY <1>1, <1>4, <1>8, <2>1 DEF Validate, apiVars, worldVars
<1>9. ASSUME NEW u \in UUIDs \cup {ByName, None}, Ensured(m, u) PROVE DomainTypeOK'
  <2>1. [draft[m] EXCEPT ![Order[di[m]]] = u] \in Resources
    BY <1>0 DEF Resources
  <2>2. CASE di[m] < Len(Order)
    <3>1. /\ di' = [di EXCEPT ![m] = @ + 1] /\ UNCHANGED <<dpc, dmem, dbase>>
          /\ draft' = [draft EXCEPT ![m] = [draft[m] EXCEPT ![Order[di[m]]] = u]]
      BY <1>9, <2>2 DEF Ensured
    <3>2. di[m] + 1 \in 1..Len(Order)
      BY <1>0, <2>2
    <3> QED
      BY <2>1, <3>1, <3>2
  <2>3. CASE ~(di[m] < Len(Order))
    BY <1>1, <1>3, <1>9, <2>1, <2>3 DEF Ensured
  <2> QED
    BY <2>2, <2>3
<1>10. CASE Ensure(m)
  <2> DEFINE k == Order[di[m]]
             with(u) == [j \in Kinds |-> IF j = k THEN u
                                   ELSE IF k = "policy" /\ j \in Cats THEN ByName
                                   ELSE res[m][j]]
  <2>1. Identities(m, k) \subseteq UUIDs \cup {ByName, None}
    BY DEF Identities
  <2>2. k \in Kinds /\ res[m][k] \in UUIDs \cup {ByName, None}
    BY <1>0 DEF Resources
  <2>3. \A u \in UUIDs \cup {ByName, None} : with(u) \in Resources
    BY <2>2 DEF Resources
  <2>4. res' = res \/ \E u \in UUIDs \cup {ByName, None} : res' = [res EXCEPT ![m] = with(u)]
    BY <1>10, <2>1 DEF Ensure
  <2>5. res' \in [Metros -> Resources]
    BY <2>3, <2>4
  <2>6. DReturn(m, NotReady(m)) \/ \E u \in UUIDs \cup {ByName, None} : Ensured(m, u)
    BY <1>10, <2>1, <2>2 DEF Ensure
  <2>7. DomainTypeOK'
    BY <1>1, <1>3, <1>9, <2>6
  <2> QED
    BY <1>4, <1>10, <2>5, <2>7 DEF Ensure, apiVars
<1>11. CASE Cleanup(m)
  <2>1. res' \in {res, [res EXCEPT ![m][DeleteOrder[di[m]]] = None]}
    BY <1>11 DEF Cleanup
  <2>2. res' \in [Metros -> Resources]
    <3>1. [res[m] EXCEPT ![DeleteOrder[di[m]]] = None] \in Resources
      BY <1>0 DEF Resources
    <3> QED
      BY <2>1, <3>1
  <2>3. \/ DReturn(m, dmem[m]) \/ DReturn(m, [dmem[m] EXCEPT !.fin = FALSE])
        \/ /\ di[m] < Len(DeleteOrder) /\ di' = [di EXCEPT ![m] = @ + 1]
           /\ UNCHANGED <<dpc, dmem, dbase, draft>>
    BY <1>11 DEF Cleanup, Cleaned
  <2>4. DomainTypeOK'
    <3>1. CASE /\ di[m] < Len(DeleteOrder) /\ di' = [di EXCEPT ![m] = @ + 1]
               /\ UNCHANGED <<dpc, dmem, dbase, draft>>
      <4>1. di[m] + 1 \in 1..Len(Order)
        BY <1>0, <3>1
      <4> QED
        BY <3>1, <4>1
    <3> QED
      BY <1>0, <1>1, <1>3, <2>3, <3>1
  <2> QED
    BY <1>4, <1>11, <2>2, <2>4 DEF Cleanup, apiVars
<1>12. CASE DPatchSpec(m)
  <2>1. \A w \in VHA, d \in Resources : [w EXCEPT !.spec = d] \in VHA
    BY DEF VHA
  <2>2. \A f \in BOOLEAN, d \in Resources : [WithFin(vha[m], f) EXCEPT !.spec = d] \in VHA
    BY <1>0, <2>1, VHAOps
  <2>3. \E f \in BOOLEAN, d \in Resources :
           vha' = vha \/ vha' = [vha EXCEPT ![m] = [WithFin(vha[m], f) EXCEPT !.spec = d]]
    <3>1. /\ (IF dbase[m].fin # dmem[m].fin THEN dmem[m].fin ELSE vha[m].fin) \in BOOLEAN
          /\ (IF dbase[m].spec # dmem[m].spec THEN dmem[m].spec ELSE vha[m].spec) \in Resources
      BY <1>0 DEF VHA
    <3> QED
      BY <1>12, <3>1 DEF DPatchSpec
  <2>4. vha' \in [Metros -> VHA]
    <3>1. PICK o \in VHA : vha' = vha \/ vha' = [vha EXCEPT ![m] = o]
      BY <2>2, <2>3
    <3> QED
      BY <3>1
  <2> QED
    BY <1>2, <1>4, <1>12, <2>4 DEF DPatchSpec, worldVars
<1>13. CASE DPatchStatus(m)
  <2>1. vha' \in [Metros -> VHA]
    <3>1. [vha[m] EXCEPT !.ready = dmem[m].ready] \in VHA
      BY <1>0 DEF VHA
    <3>2. vha' = vha \/ vha' = [vha EXCEPT ![m] = [vha[m] EXCEPT !.ready = dmem[m].ready]]
      BY <1>13 DEF DPatchStatus
    <3> QED
      BY <3>1, <3>2
  <2>2. DomainTypeOK'
    BY <1>13, NewType DEF DPatchStatus, DGoto, DSet
  <2> QED
    BY <1>4, <1>13, <2>1, <2>2 DEF DPatchStatus, worldVars
<1> QED
  BY <1>5, <1>6, <1>7, <1>8, <1>10, <1>11, <1>12, <1>13 DEF ReconcileDomain

LEMMA NextType ==
    ASSUME TypeOK, [Next]_vars
    PROVE  TypeOK'
<1>1. CASE ClusterStep
  BY <1>1, ClusterPassType, ClusterObjectsType DEF ClusterStep, TypeOK, DomainTypeOK, domainVars
<1>2. ASSUME NEW m \in Metros, DomainStep(m) PROVE TypeOK'
  BY <1>2, DomainType DEF DomainStep, TypeOK, ClusterTypeOK, clusterVars
<1>3. CASE WorldStep
  <2>1. ObjectsTypeOK'
    BY <1>3, WorldType DEF WorldStep, TypeOK
  <2> QED
    BY <1>3, <2>1 DEF WorldStep, TypeOK, ClusterTypeOK, DomainTypeOK, clusterVars, domainVars
<1>4. CASE Crash
  <2>1. ClusterTypeOK'
    BY <1>4, NewType, RefsType DEF Crash, ClusterRest, ClusterTypeOK, ClusterPCs
  <2>2. DomainTypeOK'
    BY <1>4, NewType DEF Crash, DomainTypeOK, Order
  <2>3. ObjectsTypeOK'
    BY <1>4, FaultType DEF Crash, TypeOK, ObjectsTypeOK, Domains, Listed, worldVars
  <2> QED
    BY <2>1, <2>2, <2>3 DEF TypeOK
<1>5. CASE UNCHANGED vars
  BY <1>5 DEF vars, apiVars, worldVars, clusterVars, domainVars, TypeOK, ObjectsTypeOK,
     ClusterTypeOK, DomainTypeOK
<1> QED
  BY <1>1, <1>2, <1>3, <1>4, <1>5 DEF Next

\* The type invariant of the two reconcilers together, for any metros, UUIDs and
\* faults.
THEOREM TypeCorrect == Spec => []TypeOK
BY InitType, NextType, PTL DEF Spec

-----------------------------------------------------------------------------
(* The invariant behind CredentialsOutliveDomains and MachinesKeepCluster.  *)

Hasty == "hasty" \in past

Held(o) == refs[o].live /\ refs[o].fin /\ refs[o].owner = "this"
Secured == \A o \in Refs : Held(o)

\* What a deletion waits for: not what its lists miss, nor what comes after them.
MachinesAwaited == mach /\ past \cap {"missedMachine", "late"} = {}
DomainsAwaited == "missedDomain" \notin past /\ \E m \in Metros : vha[m].live
Used == MachinesAwaited \/ DomainsAwaited
Unused == nc.del /\ "checked" \in past /\ ~Used

\* What is in use has its credentials, held by a finalizer, and its NutanixCluster.
UseInv ==
    /\ Used => Secured /\ nc.live
    /\ nc.ready => Secured \/ Unused
    /\ ~nc.live => nc.del /\ "checked" \in past
    /\ \A o \in Refs : refs[o].live /\ refs[o].del => refs[o].fin

\* A pass of the NutanixCluster: it secures the credentials before anything else,
\* and in deletion gives them up when nothing is in use any more.
PassInv ==
    /\ cpc \notin {"idle", "deferStatus"} => nc.live
    /\ cpc \in {"dispatch", "list", "create", "machines", "delete", "categories"} => Secured
    /\ cpc = "ref" => \A i \in 1..(ci - 1) : Held(RefSeq[i])
    /\ cmem.del => nc.del
    /\ cpc \in {"machines", "delete", "categories", "release", "remove"} => cmem.del
    /\ cpc = "create" => ~cmem.del
    /\ cpc \in {"list", "create"} => cmem.fin \/ cmem.del
    /\ cpc \in {"list", "delete"} /\ cmem.del => "checked" \in past /\ ~MachinesAwaited
    /\ cpc \in {"categories", "release", "remove"} => Unused
    /\ cbase.fin /\ ~cmem.fin => Unused
    /\ cmem.ready => Secured \/ Unused

IInv == TypeOK /\ UseInv /\ PassInv

\* What is noted stays noted.
LEMMA PastGrows ==
    ASSUME [Next]_vars
    PROVE  past \subseteq past'
<1>1. CASE ClusterStep
  BY <1>1 DEF ClusterStep, ReconcileCluster, StartCluster, ClusterCallFails, ReconcileRef,
     Dispatch, ListMissing, CreateDomain, ClusterReady, WaitForMachines, ListDomains,
     DeleteDomain, RequeueForDomains, DeleteCategories, ReleaseRef, RemoveRef, PatchCond,
     PatchSpec, PatchStatus, worldVars
<1>2. ASSUME NEW m \in Metros, DomainStep(m) PROVE past \subseteq past'
  BY <1>2 DEF DomainStep, ReconcileDomain, StartDomain, DomainCallFails, Resolve, AddFinalizer,
     FetchMetro, Validate, Ensure, Cleanup, DPatchSpec, DPatchStatus, worldVars
<1>3. CASE WorldStep
  BY <1>3 DEF WorldStep, World, DeleteCluster, DeleteNutanixCluster, StrayDelete,
     CollectGarbage, DomainListSyncs, MachineListSyncs, Drift, MachineAppears, MachineCreates,
     MachineGone, worldVars
<1>4. CASE Crash \/ UNCHANGED vars
  BY <1>4 DEF Crash, vars, worldVars
<1> QED
  BY <1>1, <1>2, <1>3, <1>4 DEF Next

LEMMA InitUse == Init => UseInv /\ PassInv
<1> SUFFICES ASSUME Init PROVE UseInv /\ PassInv
  OBVIOUS
<1>1. ~Used /\ nc = NewNC
  BY NewType DEF Init, ObjectsInit, Used, MachinesAwaited, DomainsAwaited
<1>2. \A o \in Refs : ~refs[o].del
  BY DEF Init, ObjectsInit, NewRef
<1>3. cpc = "idle" /\ cmem = NewNC /\ cbase = NewNC
  BY DEF Init, ClusterInit
<1> QED
  BY <1>1, <1>2, <1>3, NewType DEF UseInv, PassInv

\* What is gone has no users.
LEMMA GoneIsUnused ==
    ASSUME UseInv, PassInv, ~nc.live
    PROVE  Unused /\ cpc \in {"idle", "deferStatus"}
BY DEF UseInv, PassInv, Unused

\* A step that leaves the pass alone, keeps what is held while the NutanixCluster is
\* there, and adds no use but to a ready cluster before a deletion has looked for any.
LEMMA OthersKeep ==
    ASSUME IInv, UNCHANGED clusterVars,
           nc'.live = nc.live, nc'.ready = nc.ready, nc.del => nc'.del,
           nc.live => \A o \in Refs : Held(o) => Held(o)',
           past \subseteq past',
           Used' => Used \/ (nc.ready /\ "checked" \notin past),
           MachinesAwaited' => MachinesAwaited \/ "checked" \notin past,
           \A o \in Refs : refs'[o].live /\ refs'[o].del => refs'[o].fin
    PROVE  UseInv' /\ PassInv'
<1> USE DEF IInv
<1>1. nc.live => (Secured => Secured')
  BY DEF Secured
<1>2. Unused => Unused'
  BY DEF Unused
<1>3. ~nc.live => Unused /\ cpc \in {"idle", "deferStatus"}
  BY GoneIsUnused
<1>4. UseInv'
  <2>1. Used' => Secured' /\ nc'.live
    BY <1>1, <1>3 DEF UseInv, Unused
  <2>2. nc'.ready => Secured' \/ Unused'
    BY <1>1, <1>2, <1>3 DEF UseInv
  <2> QED
    BY <2>1, <2>2 DEF UseInv
<1>5. PassInv'
  <2>1. UNCHANGED <<cpc, cmem, cbase, ci>>
    BY DEF clusterVars
  <2>2. cpc = "ref" => \A i \in 1..(ci - 1) : Held(RefSeq[i])'
    <3> SUFFICES ASSUME cpc = "ref", NEW i \in 1..(ci - 1) PROVE Held(RefSeq[i])'
      OBVIOUS
    <3>1. RefSeq[i] \in Refs
      BY RefsType DEF TypeOK, ClusterTypeOK
    <3> QED
      BY <3>1 DEF PassInv
  <2> QED
    BY <1>1, <1>2, <1>3, <2>1, <2>2 DEF PassInv
<1> QED
  BY <1>4, <1>5

LEMMA WorldUse ==
    ASSUME IInv, World, UNCHANGED clusterVars, past \subseteq past', ~Hasty'
    PROVE  UseInv' /\ PassInv'
<1> USE DEF IInv, TypeOK, ObjectsTypeOK
<1>1. /\ nc'.live = nc.live /\ nc'.ready = nc.ready /\ (nc.del => nc'.del)
  <2>1. CASE DeleteNutanixCluster
    BY <2>1, NCOps DEF DeleteNutanixCluster, Noted, Hasty
  <2>2. CASE MachineCreates
    <3>1. nc' \in {nc, [nc EXCEPT !.cat = "created"]}
      BY <2>2 DEF MachineCreates
    <3> QED
      BY <3>1 DEF NC
  <2>3. CASE UNCHANGED nc
    BY <2>3
  <2> QED
    BY <2>1, <2>2, <2>3 DEF World, DeleteCluster, StrayDelete, CollectGarbage,
       DomainListSyncs, MachineListSyncs, Drift, MachineAppears, MachineGone, apiVars
<1>2. CASE StrayDelete \/ CollectGarbage
  <2>1. \A m \in Metros : vha'[m].live => vha[m].live
    BY <1>2, VHAOps DEF StrayDelete, CollectGarbage
  <2>2. \A o \in Refs : refs'[o] = refs[o] \/ refs'[o] = Deleted(refs[o])
    BY <1>2 DEF StrayDelete, CollectGarbage
  <2>3. \A o \in Refs : /\ Held(o) => Held(o)'
                        /\ refs'[o].live /\ refs'[o].del => refs'[o].fin
    <3> SUFFICES ASSUME NEW o \in Refs
                 PROVE  /\ Held(o) => Held(o)'
                        /\ refs'[o].live /\ refs'[o].del => refs'[o].fin
      OBVIOUS
    <3>1. /\ Deleted(refs[o]).live = (refs[o].live /\ refs[o].fin)
          /\ Deleted(refs[o]).fin = refs[o].fin /\ Deleted(refs[o]).owner = refs[o].owner
      BY RefOps
    <3>2. CASE refs'[o] = refs[o]
      BY <3>2 DEF Held, UseInv
    <3>3. CASE refs'[o] = Deleted(refs[o])
      BY <3>1, <3>3 DEF Held
    <3> QED
      BY <2>2, <3>2, <3>3
  <2>4. UNCHANGED <<mach, past>>
    BY <1>2 DEF StrayDelete, CollectGarbage, worldVars
  <2>5. (Used' => Used) /\ (MachinesAwaited' => MachinesAwaited)
    BY <2>1, <2>4 DEF Used, MachinesAwaited, DomainsAwaited
  <2> QED
    BY <1>1, <2>3, <2>5, OthersKeep
<1>3. CASE UNCHANGED <<refs, vha>>
  <2>1. MachinesAwaited' => MachinesAwaited \/ (nc.ready /\ "checked" \notin past)
    <3>1. CASE MachineAppears
      BY <3>1 DEF MachineAppears, Noted, MachinesAwaited
    <3>2. CASE mach' => mach
      BY <3>2 DEF MachinesAwaited
    <3> QED
      BY <3>1, <3>2 DEF World, DeleteCluster, DeleteNutanixCluster, StrayDelete,
         CollectGarbage, DomainListSyncs, MachineListSyncs, Drift, MachineCreates,
         MachineGone, worldVars
  <2>2. Used' => Used \/ (nc.ready /\ "checked" \notin past)
    BY <1>3, <2>1 DEF Used, DomainsAwaited
  <2>3. \A o \in Refs : /\ Held(o) => Held(o)'
                        /\ refs'[o].live /\ refs'[o].del => refs'[o].fin
    BY <1>3 DEF Held, UseInv
  <2> QED
    BY <1>1, <2>1, <2>2, <2>3, OthersKeep
<1>4. StrayDelete \/ CollectGarbage \/ UNCHANGED <<refs, vha>>
  BY DEF World, DeleteCluster, DeleteNutanixCluster, DomainListSyncs, MachineListSyncs, Drift,
     MachineAppears, MachineCreates, MachineGone, apiVars
<1> QED
  BY <1>2, <1>3, <1>4

LEMMA DomainLeaves ==
    ASSUME NEW m \in Metros, ReconcileDomain(m)
    PROVE  UNCHANGED <<nc, refs, mach, past>>
BY DEF ReconcileDomain, StartDomain, DomainCallFails, Resolve, AddFinalizer, FetchMetro,
   Validate, Ensure, Cleanup, DPatchSpec, DPatchStatus, apiVars, worldVars

LEMMA DomainUse ==
    ASSUME IInv, NEW m \in Metros, ReconcileDomain(m), UNCHANGED clusterVars
    PROVE  UseInv' /\ PassInv'
<1> USE DEF IInv, TypeOK, ObjectsTypeOK
<1>1. UNCHANGED <<nc, refs, mach, past>>
  BY DomainLeaves
<1>2. \A n \in Metros : vha'[n].live => vha[n].live
  <2>1. CASE DPatchSpec(m)
    <3>1. vha' = vha \/ (vha[m].live /\ \A n \in Metros \ {m} : vha'[n] = vha[n])
      BY <2>1 DEF DPatchSpec
    <3> QED
      BY <3>1
  <2>2. CASE DPatchStatus(m)
    <3>1. vha' = vha \/ (vha[m].live /\ \A n \in Metros \ {m} : vha'[n] = vha[n])
      BY <2>2 DEF DPatchStatus
    <3> QED
      BY <3>1
  <2>3. DPatchSpec(m) \/ DPatchStatus(m) \/ UNCHANGED vha
    BY DEF ReconcileDomain, StartDomain, DomainCallFails, Resolve, AddFinalizer, FetchMetro,
       Validate, Ensure, Cleanup, apiVars
  <2> QED
    BY <2>1, <2>2, <2>3
<1>3. (Used' => Used) /\ (MachinesAwaited' => MachinesAwaited)
  BY <1>1, <1>2 DEF Used, MachinesAwaited, DomainsAwaited
<1>4. \A o \in Refs : /\ Held(o) => Held(o)'
                      /\ refs'[o].live /\ refs'[o].del => refs'[o].fin
  BY <1>1 DEF Held, UseInv
<1> QED
  BY <1>1, <1>3, <1>4, OthersKeep

LEMMA CrashUse ==
    ASSUME IInv, Crash
    PROVE  UseInv' /\ PassInv'
<1>1. UNCHANGED <<nc, refs, vha, mach, past>>
  BY DEF Crash, worldVars
<1>2. cpc' = "idle" /\ cmem' = NewNC /\ cbase' = NewNC
  BY DEF Crash, ClusterRest
<1> QED
  BY <1>1, <1>2, NewType DEF IInv, UseInv, PassInv, Secured, Held, Used, MachinesAwaited,
     DomainsAwaited, Unused

\* The end of a pass of the NutanixCluster whatever it has done to the objects.
LEMMA ReturnUse ==
    ASSUME IInv, CReturn, UNCHANGED nc, nc.live, Unused => Unused', Secured => Secured' \/ Unused'
    PROVE  PassInv'
<1>1. cpc' = "deferCond" /\ UNCHANGED <<cmem, cbase, ci>>
  BY DEF CReturn, CGoto
<1> QED
  BY <1>1 DEF PassInv, IInv

\* The steps that touch none of the objects in use.
LEMMA QuietUse ==
    ASSUME IInv, UNCHANGED <<nc, refs, vha, mach>>, past \subseteq past',
           \/ StartCluster \/ ClusterCallFails \/ Dispatch \/ ListMissing \/ ClusterReady
           \/ WaitForMachines \/ ListDomains \/ RequeueForDomains \/ DeleteCategories
    PROVE  UseInv' /\ PassInv'
<1> USE DEF IInv
<1>1. UseInv' /\ (Secured' <=> Secured) /\ (Unused => Unused')
      /\ (MachinesAwaited' => MachinesAwaited)
  <2>1. (MachinesAwaited' => MachinesAwaited) /\ (DomainsAwaited' => DomainsAwaited)
    BY DEF MachinesAwaited, DomainsAwaited
  <2>2. (Secured' <=> Secured) /\ (Unused => Unused')
    BY <2>1 DEF Secured, Held, Used, Unused
  <2> QED
    BY <2>1, <2>2 DEF UseInv, Used
<1>2. nc \in NC /\ cmem \in NC /\ cbase \in NC
  BY DEF TypeOK, ObjectsTypeOK, ClusterTypeOK
<1>3. CASE StartCluster
  <2>1. cpc' = "ref" /\ cmem' = nc /\ cbase' = nc /\ ci' = 1 /\ nc.live
    BY <1>3 DEF StartCluster
  <2> QED
    BY <1>1, <2>1 DEF PassInv, UseInv
<1>4. CASE CReturn /\ cpc \notin {"idle", "deferStatus"}
  <2>1. nc.live
    BY <1>4 DEF PassInv
  <2> QED
    BY <1>1, <1>4, <2>1, ReturnUse
<1>5. CASE ClusterCallFails \/ RequeueForDomains
  BY <1>1, <1>4, <1>5 DEF ClusterCallFails, RequeueForDomains
<1>6. CASE Dispatch
  <2>1. /\ cmem'.del = cmem.del /\ cmem'.ready = cmem.ready /\ cmem'.fin = (cmem.fin \/ ~cmem.del)
        /\ cpc = "dispatch" /\ cpc' = (IF cmem.del THEN "machines" ELSE "list")
        /\ cbase' = cbase
    BY <1>2, <1>6 DEF Dispatch, NC
  <2> QED
    BY <1>1, <2>1 DEF PassInv
<1>7. CASE ListMissing
  BY <1>1, <1>7 DEF ListMissing, PassInv
<1>8. CASE ClusterReady
  <2>1. /\ cmem'.del = cmem.del /\ cmem'.ready /\ cmem'.fin = cmem.fin
        /\ cpc = "create" /\ cpc' = "deferCond" /\ cbase' = cbase
    BY <1>2, <1>8 DEF ClusterReady, NC
  <2> QED
    BY <1>1, <2>1 DEF PassInv
<1>9. CASE WaitForMachines
  <2>1. CASE listed.machines
    BY <1>4, <1>9, <2>1, <1>1 DEF WaitForMachines, CReturn
  <2>2. CASE ~listed.machines
    <3>1. cpc = "machines" /\ cpc' = "list" /\ UNCHANGED <<cmem, cbase, ci>>
      BY <1>9, <2>2 DEF WaitForMachines, CGoto
    <3>2. "checked" \in past' /\ (mach => "missedMachine" \in past')
      BY <1>9, <2>2 DEF WaitForMachines, Noted
    <3>3. ~MachinesAwaited'
      BY <3>2 DEF MachinesAwaited
    <3> QED
      BY <1>1, <3>1, <3>2, <3>3 DEF PassInv
  <2> QED
    BY <2>1, <2>2
<1>10. CASE ListDomains
  <2>1. cpc = "list" /\ cmem.del /\ nc.del /\ "checked" \in past /\ ~MachinesAwaited
    BY <1>10 DEF ListDomains, PassInv
  <2>2. listed.domains = {} => Unused'
    <3> SUFFICES ASSUME listed.domains = {} PROVE Unused'
      OBVIOUS
    <3>1. Domains # {} => "missedDomain" \in past'
      BY <1>10 DEF ListDomains, Noted
    <3>2. ~DomainsAwaited'
      BY <3>1 DEF DomainsAwaited, Domains
    <3> QED
      BY <1>1, <2>1, <3>2 DEF Unused, Used
  <2>3. cpc' = (IF listed.domains = {} THEN "categories" ELSE "delete")
        /\ UNCHANGED <<cmem, cbase, ci>>
    BY <1>10 DEF ListDomains
  <2> QED
    BY <1>1, <2>1, <2>2, <2>3 DEF PassInv
<1>11. CASE DeleteCategories
  <2>1. /\ cmem' \in {[cmem EXCEPT !.cat = "deleting"], [cmem EXCEPT !.cat = "deletionFailed"]}
        /\ cpc = "categories" /\ cpc' \in {"release", "deferCond"} /\ cbase' = cbase
    BY <1>11 DEF DeleteCategories
  <2>2. cmem'.del = cmem.del /\ cmem'.ready = cmem.ready /\ cmem'.fin = cmem.fin
    BY <1>2, <2>1 DEF NC
  <2> QED
    BY <1>1, <2>1, <2>2 DEF PassInv
<1> QED
  BY <1>3, <1>5, <1>6, <1>7, <1>8, <1>9, <1>10, <1>11

\* The reference a pass works on is held when it goes on to the next.
LEMMA ReconcileRefUse ==
    ASSUME IInv, ReconcileRef
    PROVE  UseInv' /\ PassInv'
<1> USE DEF IInv
<1>1. PICK o \in Refs : o = RefSeq[ci]
  BY RefsType DEF TypeOK, ClusterTypeOK
<1>2. /\ cpc = "ref" /\ nc.live /\ UNCHANGED <<nc, vha, mach, past>>
      /\ refs \in [Refs -> Ref] /\ ci \in 1..Len(RefSeq) /\ Len(RefSeq) \in {1, 2}
  BY RefsType DEF ReconcileRef, PassInv, TypeOK, ObjectsTypeOK, ClusterTypeOK, worldVars
<1>3. /\ \A q \in Refs : /\ Held(q) => Held(q)'
                         /\ refs'[q].live /\ refs'[q].del => refs'[q].fin
      /\ CReturn \/ (Held(o)' /\ cmem' = cmem /\ NextRef("ref", "dispatch"))
  <2>1. CASE ~refs[o].live \/ refs[o].owner = "other"
    <3>1. CReturn /\ refs' = refs
      BY <1>1, <2>1 DEF ReconcileRef
    <3> QED
      BY <3>1 DEF Held, UseInv
  <2>2. CASE ~(~refs[o].live \/ refs[o].owner = "other")
    <3>1. /\ refs' = [refs EXCEPT ![o] = [WithFin(@, TRUE) EXCEPT !.owner = "this"]]
          /\ CReturn \/ (cmem' = cmem /\ NextRef("ref", "dispatch"))
      BY <1>1, <2>2 DEF ReconcileRef
    <3>2. refs'[o] = [WithFin(refs[o], TRUE) EXCEPT !.owner = "this"]
      BY <1>2, <3>1
    <3>3. refs'[o].live /\ refs'[o].owner = "this" /\ refs'[o].fin
      <4>1. refs[o].del => refs[o].fin
        BY <2>2 DEF UseInv
      <4>2. refs[o] \in Ref
        BY <1>2
      <4>3. WithFin(refs[o], TRUE) = [refs[o] EXCEPT !.fin = @ \/ ~refs[o].del]
        BY DEF WithFin
      <4> QED
        BY <2>2, <3>2, <4>1, <4>2, <4>3 DEF Ref
    <3>4. Held(o)'
      BY <3>3 DEF Held
    <3>5. \A q \in Refs \ {o} : refs'[q] = refs[q]
      BY <1>2, <3>1
    <3>6. \A q \in Refs \ {o} : /\ Held(q) => Held(q)'
                                /\ refs'[q].live /\ refs'[q].del => refs'[q].fin
      BY <3>5 DEF Held, UseInv
    <3> QED
      BY <3>1, <3>3, <3>4, <3>6
  <2> QED
    BY <2>1, <2>2
<1>4. (Secured => Secured') /\ (Unused' <=> Unused) /\ (Used' <=> Used)
  BY <1>2, <1>3 DEF Secured, Unused, Used, MachinesAwaited,
     DomainsAwaited
<1>5. UseInv'
  BY <1>2, <1>3, <1>4 DEF UseInv
<1>6. CASE CReturn
  BY <1>2, <1>4, <1>5, <1>6, ReturnUse
<1>7. CASE Held(o)' /\ cmem' = cmem /\ NextRef("ref", "dispatch")
  <2>1. \A i \in 1..ci : Held(RefSeq[i])'
    <3> SUFFICES ASSUME NEW i \in 1..ci PROVE Held(RefSeq[i])'
      OBVIOUS
    <3>1. RefSeq[i] \in Refs
      BY <1>2, RefsType
    <3>2. CASE i = ci
      <4>1. RefSeq[i] = o
        BY <1>1, <3>2
      <4> QED
        BY <1>7, <4>1 DEF Held
    <3>3. CASE i # ci
      <4>1. i \in 1..(ci - 1)
        BY <1>2, <3>3
      <4>2. Held(RefSeq[i])
        BY <1>2, <4>1 DEF PassInv
      <4> QED
        BY <1>3, <3>1, <4>2
    <3> QED
      BY <3>2, <3>3
  <2>2. CASE ci < Len(RefSeq)
    <3>1. ci' = ci + 1 /\ cpc' = "ref" /\ cbase' = cbase /\ cmem' = cmem
      BY <1>7, <2>2 DEF NextRef
    <3>2. ci' - 1 = ci
      BY <1>2, <3>1
    <3> QED
      BY <1>2, <1>4, <1>5, <2>1, <3>1, <3>2 DEF PassInv
  <2>3. CASE ~(ci < Len(RefSeq))
    <3>1. cpc' = "dispatch" /\ cbase' = cbase /\ cmem' = cmem
      BY <1>7, <2>3 DEF NextRef
    <3>2. ci = Len(RefSeq)
      BY <1>2, <2>3
    <3>3. Secured'
      BY <2>1, <3>2, RefsType DEF Secured
    <3> QED
      BY <1>2, <1>4, <1>5, <3>1, <3>3 DEF PassInv
  <2> QED
    BY <2>2, <2>3
<1> QED
  BY <1>3, <1>5, <1>6, <1>7

LEMMA DomainsUse ==
    ASSUME IInv, CreateDomain \/ DeleteDomain
    PROVE  UseInv' /\ PassInv'
<1> USE DEF IInv
<1>1. /\ UNCHANGED <<nc, refs, mach, past>> /\ cpc \in {"create", "delete"}
      /\ nc.live /\ Secured /\ Secured'
  BY DEF CreateDomain, DeleteDomain, worldVars, PassInv, Secured, Held
<1>2. CReturn \/ UNCHANGED <<cpc, cmem, cbase, ci>>
  BY DEF CreateDomain, DeleteDomain
<1>3. UseInv'
  BY <1>1 DEF UseInv
<1>4. CASE CreateDomain
  <2>1. cpc = "create" /\ cmem.fin
    BY <1>4 DEF CreateDomain, PassInv
  <2>2. cmem'.fin /\ cmem'.del = cmem.del
    BY <1>2, <2>1 DEF CReturn, CGoto
  <2>3. CASE CReturn
    <3>1. cpc' = "deferCond" /\ UNCHANGED <<cmem, cbase, ci>>
      BY <2>3 DEF CReturn, CGoto
    <3> QED
      BY <1>1, <1>3, <2>2, <3>1 DEF PassInv
  <2>4. CASE UNCHANGED <<cpc, cmem, cbase, ci>>
    BY <1>1, <1>3, <2>1, <2>4 DEF PassInv
  <2> QED
    BY <1>2, <2>3, <2>4
<1>5. CASE DeleteDomain
  <2>1. \A m \in Metros : vha'[m].live => vha[m].live
    BY <1>5, VHAOps DEF DeleteDomain, TypeOK, ObjectsTypeOK
  <2>2. (Unused => Unused') /\ (MachinesAwaited' => MachinesAwaited)
    BY <1>1, <2>1 DEF Unused, Used, MachinesAwaited, DomainsAwaited
  <2>3. CASE CReturn
    BY <1>1, <1>3, <2>2, <2>3, ReturnUse
  <2>4. CASE UNCHANGED <<cpc, cmem, cbase, ci>>
    <3>1. cpc = "delete"
      BY <1>5 DEF DeleteDomain
    <3> QED
      BY <1>1, <1>3, <2>2, <2>4, <3>1 DEF PassInv
  <2> QED
    BY <1>2, <2>3, <2>4
<1> QED
  BY <1>4, <1>5

\* The credentials are given up when nothing is in use any more.
LEMMA ReleaseUse ==
    ASSUME IInv, ReleaseRef \/ RemoveRef
    PROVE  UseInv' /\ PassInv'
<1> USE DEF IInv
<1>1. UNCHANGED <<nc, vha, mach, past>> /\ cpc \in {"release", "remove"}
  BY DEF ReleaseRef, RemoveRef, worldVars
<1>2. nc.live /\ Unused /\ cmem.del /\ nc.del
  BY <1>1 DEF PassInv, Unused
<1>3. Unused'
  BY <1>1, <1>2 DEF Unused, Used, MachinesAwaited, DomainsAwaited
<1>4. PICK o \in Refs : o = RefSeq[ci]
  BY RefsType DEF TypeOK, ClusterTypeOK
<1>5. refs \in [Refs -> Ref] /\ cmem \in NC
  BY DEF TypeOK, ObjectsTypeOK, ClusterTypeOK
<1>6. \A q \in Refs : refs'[q].live /\ refs'[q].del => refs'[q].fin
  <2>1. refs' \in {refs, [refs EXCEPT ![o] = WithFin(@, FALSE)], [refs EXCEPT ![o] = Deleted(@)]}
    <3>1. CASE ReleaseRef
      BY <1>4, <3>1 DEF ReleaseRef
    <3>2. CASE RemoveRef
      <4>1. CASE refs[o].live
        BY <1>4, <3>2, <4>1 DEF RemoveRef
      <4>2. CASE ~refs[o].live
        BY <1>4, <1>5, <3>2, <4>2 DEF RemoveRef
      <4> QED
        BY <4>1, <4>2
    <3> QED
      BY <3>1, <3>2
  <2>2. ~(WithFin(refs[o], FALSE).live /\ WithFin(refs[o], FALSE).del)
    BY <1>5, RefOps
  <2>3. Deleted(refs[o]).live => Deleted(refs[o]).fin
    BY <1>5 DEF Deleted, Ref
  <2> QED
    BY <1>5, <2>1, <2>2, <2>3 DEF UseInv
<1>7. UseInv'
  BY <1>1, <1>2, <1>3, <1>6 DEF UseInv, Unused
<1>8. cpc' \in {"release", "remove", "deferCond"} /\ cbase' = cbase
      /\ cmem'.del = cmem.del /\ cmem'.ready = cmem.ready
  <2>1. CReturn \/ CGoto("remove") \/ Released("release")
    BY DEF ReleaseRef, RemoveRef
  <2>2. CASE Released("release")
    BY <1>5, <2>2 DEF Released, NextRef, NC
  <2> QED
    BY <2>1, <2>2 DEF CReturn, CGoto
<1> QED
  BY <1>1, <1>2, <1>3, <1>7, <1>8 DEF PassInv

\* The deferred patch takes the finalizer from an unused NutanixCluster only, and
\* makes one ready only with its credentials held.
LEMMA PatchUse ==
    ASSUME IInv, PatchCond \/ PatchSpec \/ PatchStatus
    PROVE  UseInv' /\ PassInv'
<1> USE DEF IInv
<1>1. UNCHANGED <<refs, vha, mach, past>> /\ nc \in NC /\ cmem \in NC /\ cbase \in NC
  BY DEF PatchCond, PatchSpec, PatchStatus, worldVars, TypeOK, ObjectsTypeOK, ClusterTypeOK
<1>2. (Secured' <=> Secured) /\ (Used' <=> Used) /\ \A o \in Refs : refs'[o] = refs[o]
  BY <1>1 DEF Secured, Held, Used, MachinesAwaited, DomainsAwaited
<1>3. CASE PatchCond
  <2>1. /\ nc'.live = nc.live /\ nc'.del = nc.del /\ nc'.ready = nc.ready
        /\ cpc = "deferCond" /\ cpc' = "deferSpec" /\ UNCHANGED <<cmem, cbase, ci>>
    BY <1>1, <1>3 DEF PatchCond, Patch, CGoto, NC
  <2> QED
    BY <1>1, <1>2, <2>1 DEF UseInv, PassInv, Unused
<1>4. CASE PatchSpec
  <2>1. /\ cpc = "deferSpec" /\ cpc' = "deferStatus" /\ UNCHANGED <<cmem, cbase, ci>>
        /\ nc' = nc \/ (cbase.fin # cmem.fin /\ nc' = WithFin(nc, cmem.fin))
    BY <1>4 DEF PatchSpec, Patch, CGoto
  <2>2. cmem.fin \in BOOLEAN /\ cbase.fin \in BOOLEAN
    BY <1>1 DEF NC
  <2>3. nc'.del = nc.del /\ nc'.ready = nc.ready /\ (nc'.live = nc.live \/ (Unused /\ ~nc'.live))
    <3>1. CASE nc' = nc
      BY <3>1
    <3>2. CASE nc' = WithFin(nc, cmem.fin) /\ cmem.fin
      BY <1>1, <3>2 DEF WithFin, NC
    <3>3. CASE nc' = WithFin(nc, cmem.fin) /\ ~cmem.fin /\ cbase.fin
      <4>1. Unused /\ nc.del
        BY <3>3 DEF PassInv, Unused
      <4>2. nc'.del = nc.del /\ nc'.ready = nc.ready /\ nc'.live = (nc.live /\ ~nc.del)
        BY <1>1, <3>3 DEF WithFin, NC
      <4> QED
        BY <4>1, <4>2
    <3> QED
      BY <2>1, <2>2, <3>1, <3>2, <3>3
  <2>4. Unused' <=> Unused
    BY <1>1, <1>2, <2>3 DEF Unused
  <2>5. UseInv'
    BY <1>1, <1>2, <2>3, <2>4 DEF UseInv, Unused
  <2>6. PassInv'
    BY <1>2, <2>1, <2>3, <2>4 DEF PassInv
  <2> QED
    BY <2>5, <2>6
<1>5. CASE PatchStatus
  <2>1. /\ cpc' = "idle" /\ cmem' = NewNC /\ cbase' = NewNC
        /\ nc'.live = nc.live /\ nc'.del = nc.del /\ nc'.ready \in {nc.ready, cmem.ready}
    BY <1>1, <1>5 DEF PatchStatus, Patch, ClusterRest, NC
  <2>2. Unused' <=> Unused
    BY <1>1, <1>2, <2>1 DEF Unused
  <2>3. UseInv'
    BY <1>1, <1>2, <2>1, <2>2 DEF UseInv, PassInv
  <2> QED
    BY <2>1, <2>3, NewType DEF PassInv
<1> QED
  BY <1>3, <1>4, <1>5

LEMMA UseStep ==
    ASSUME IInv, [Next]_vars, ~Hasty'
    PROVE  IInv'
<1> SUFFICES UseInv' /\ PassInv'
  BY NextType DEF IInv
<1>0. past \subseteq past'
  BY PastGrows
<1>1. CASE ClusterStep
  <2>1. ReconcileCluster
    BY <1>1 DEF ClusterStep
  <2>2. \/ ReconcileRef \/ CreateDomain \/ DeleteDomain \/ ReleaseRef \/ RemoveRef
        \/ PatchCond \/ PatchSpec \/ PatchStatus
        \/ /\ UNCHANGED <<nc, refs, vha, mach>>
           /\ \/ StartCluster \/ ClusterCallFails \/ Dispatch \/ ListMissing \/ ClusterReady
              \/ WaitForMachines \/ ListDomains \/ RequeueForDomains \/ DeleteCategories
    BY <2>1 DEF ReconcileCluster, StartCluster, ClusterCallFails, Dispatch, ListMissing,
       ClusterReady, WaitForMachines, ListDomains, RequeueForDomains, DeleteCategories,
       apiVars, worldVars
  <2> QED
    BY <1>0, <2>2, ReconcileRefUse, DomainsUse, ReleaseUse, PatchUse, QuietUse
<1>2. ASSUME NEW m \in Metros, DomainStep(m) PROVE UseInv' /\ PassInv'
  BY <1>2, DomainUse DEF DomainStep
<1>3. CASE WorldStep
  BY <1>0, <1>3, WorldUse DEF WorldStep
<1>4. CASE UNCHANGED vars
  <2>1. UNCHANGED <<nc, refs, vha, mach, past, cpc, cmem, cbase, ci>>
    BY <1>4 DEF vars, apiVars, worldVars, clusterVars
  <2>2. /\ \A o \in Refs : Held(o)' <=> Held(o)
        /\ (Used' <=> Used) /\ (MachinesAwaited' <=> MachinesAwaited)
    BY <2>1 DEF Held, Used, MachinesAwaited, DomainsAwaited
  <2>3. /\ nc'.live = nc.live /\ nc'.ready = nc.ready /\ (nc.del => nc'.del)
        /\ UNCHANGED <<past, clusterVars>>
    BY <1>4, <2>1 DEF vars
  <2>4. \A o \in Refs : refs'[o].live /\ refs'[o].del => refs'[o].fin
    BY <2>1 DEF IInv, UseInv
  <2> QED
    BY <2>2, <2>3, <2>4, OthersKeep
<1>5. CASE Crash
  BY <1>5, CrashUse
<1> QED
  BY <1>1, <1>2, <1>3, <1>4, <1>5 DEF Next

\* Until the NutanixCluster is deleted before its finalizer is stored.
HInv == TypeOK /\ (~Hasty => IInv)

LEMMA HInvHolds == Spec => []HInv
<1>1. Init => HInv
  BY InitType, InitUse DEF HInv, IInv
<1>2. HInv /\ [Next]_vars => HInv'
  BY NextType, UseStep, PastGrows DEF HInv, Hasty
<1> QED
  BY <1>1, <1>2, PTL DEF Spec

\* Neither the NutanixCluster nor its credentials go while there are machines: whatever
\* passes fail, are lost or stop, whoever deletes what, and however old the lists are.
\* The exceptions are those of the property: a machine that a pass in deletion could not
\* see yet, one that came after the pass had looked, a deletion before the finalizer.
THEOREM MachinesCanLeave == Spec => []MachinesKeepCluster
<1>1. HInv => MachinesKeepCluster
  BY DEF HInv, IInv, UseInv, Used, MachinesAwaited, Hasty, MachinesKeepCluster, Secured, Held,
     CredentialsLive
<1> QED
  BY <1>1, HInvHolds, PTL

\* Nor while a vHADomain has something to clean up, but for one that a pass in deletion
\* could not see yet.  reconcileDelete of both.
THEOREM DomainsCanLeave == Spec => []CredentialsOutliveDomains
<1>1. HInv => CredentialsOutliveDomains
  BY DEF HInv, IInv, UseInv, Used, DomainsAwaited, Hasty, CredentialsOutliveDomains, Secured,
     Held, CredentialsLive
<1> QED
  BY <1>1, HInvHolds, PTL
-----------------------------------------------------------------------------
(* The composition implements TeardownOrder.                               *)

\* What a pass has given up stays given up until it ends, and the finalizer of the
\* NutanixCluster is only given up after all the credentials.
RelInv ==
    /\ cpc \in {"dispatch", "list", "create", "machines", "delete", "categories"} => ci = 1
    /\ cpc = "release" => \A i \in 1..(ci - 1) : ~Held(RefSeq[i])
    /\ cpc = "remove" => \A i \in 1..ci : ~Held(RefSeq[i])
    /\ cbase.fin /\ ~cmem.fin =>
          /\ cpc \in {"deferCond", "deferSpec", "deferStatus"}
          /\ \A o \in Refs : ~Held(o)

LEMMA OthersRel ==
    ASSUME RelInv, ClusterTypeOK, UNCHANGED clusterVars, \A o \in Refs : Held(o)' => Held(o)
    PROVE  RelInv'
<1>1. UNCHANGED <<cpc, cmem, cbase, ci>>
  BY DEF clusterVars
<1>2. \A i \in 1..ci : ~Held(RefSeq[i]) => ~Held(RefSeq[i])'
  BY RefsType DEF ClusterTypeOK
<1>3. \A i \in 1..(ci - 1) : i \in 1..ci
  BY RefsType DEF ClusterTypeOK
<1> QED
  BY <1>1, <1>2, <1>3 DEF RelInv

\* A pass that returns, or goes on without touching the credentials.
LEMMA QuietRel ==
    ASSUME IInv, RelInv, UNCHANGED refs,
           \/ StartCluster \/ ClusterCallFails \/ Dispatch \/ ListMissing \/ ClusterReady
           \/ WaitForMachines \/ ListDomains \/ RequeueForDomains \/ DeleteCategories
           \/ CreateDomain \/ DeleteDomain \/ PatchCond \/ PatchSpec \/ PatchStatus
    PROVE  RelInv'
<1>1. \A o \in Refs : Held(o)' <=> Held(o)
  BY DEF Held
<1>2. cmem \in NC /\ cbase \in NC
  BY DEF IInv, TypeOK, ClusterTypeOK
<1>3. CASE StartCluster \/ PatchStatus
  <2>1. cpc' \in {"ref", "idle"} /\ cmem' = cbase'
    BY <1>3 DEF StartCluster, PatchStatus, ClusterRest
  <2> QED
    BY <2>1 DEF RelInv
<1>4. ASSUME UNCHANGED <<cbase, ci>>, cmem'.fin = cmem.fin \/ cmem'.fin,
             \/ cpc' \in {"deferCond", "deferSpec", "deferStatus"}
             \/ /\ cpc \in {"dispatch", "list", "create", "machines", "delete", "categories"}
                /\ cpc' \in {"list", "create", "machines", "delete", "categories", "release"}
      PROVE  RelInv'
  BY <1>1, <1>4 DEF RelInv
<1>5. CASE PatchCond \/ PatchSpec
  BY <1>4, <1>5 DEF PatchCond, PatchSpec, CGoto
<1>6. CASE Dispatch
  <2>1. cmem'.fin = (cmem.fin \/ ~cmem.del)
    BY <1>2, <1>6 DEF Dispatch, NC
  <2>2. cmem'.fin = cmem.fin \/ cmem'.fin
    BY <1>2, <2>1 DEF NC
  <2> QED
    BY <1>4, <1>6, <2>2 DEF Dispatch
<1>7. CASE ClusterReady
  <2>1. cmem'.fin = cmem.fin
    BY <1>2, <1>7 DEF ClusterReady, NC
  <2> QED
    BY <1>4, <1>7, <2>1 DEF ClusterReady
<1>8. CASE DeleteCategories
  <2>1. cmem' \in {[cmem EXCEPT !.cat = "deleting"], [cmem EXCEPT !.cat = "deletionFailed"]}
        /\ cpc = "categories" /\ cpc' \in {"release", "deferCond"} /\ UNCHANGED <<cbase, ci>>
    BY <1>8 DEF DeleteCategories
  <2>2. cmem'.fin = cmem.fin
    BY <1>2, <2>1 DEF NC
  <2> QED
    BY <1>4, <2>1, <2>2
<1>9. CASE ClusterCallFails \/ ListMissing \/ WaitForMachines \/ ListDomains \/ RequeueForDomains
  BY <1>4, <1>9 DEF ClusterCallFails, ListMissing, WaitForMachines, ListDomains,
     RequeueForDomains, CReturn, CGoto
<1>10. CASE CreateDomain \/ DeleteDomain
  <2>1. \/ CReturn
        \/ cpc \in {"create", "delete"} /\ UNCHANGED <<cpc, cmem, cbase, ci>>
    BY <1>10 DEF CreateDomain, DeleteDomain
  <2> QED
    BY <1>4, <2>1 DEF CReturn, CGoto
<1> QED
  BY <1>3, <1>5, <1>6, <1>7, <1>8, <1>9, <1>10

LEMMA CredentialRel ==
    ASSUME IInv, RelInv, ReconcileRef \/ ReleaseRef \/ RemoveRef
    PROVE  RelInv'
<1>1. PICK o \in Refs : o = RefSeq[ci]
  BY RefsType DEF IInv, TypeOK, ClusterTypeOK
<1>2. /\ refs \in [Refs -> Ref] /\ cmem \in NC
      /\ ci \in 1..Len(RefSeq) /\ Len(RefSeq) \in {1, 2}
  BY RefsType DEF IInv, TypeOK, ObjectsTypeOK, ClusterTypeOK
<1>3. cpc \in {"ref", "release", "remove"} /\ (cbase.fin => cmem.fin)
  BY DEF ReconcileRef, ReleaseRef, RemoveRef, RelInv
<1>4. CASE CReturn
  BY <1>3, <1>4 DEF CReturn, CGoto, RelInv
<1>5. CASE ReconcileRef /\ ~CReturn
  <2>1. cmem' = cmem /\ NextRef("ref", "dispatch")
    BY <1>5 DEF ReconcileRef
  <2>2. cbase' = cbase /\ (cpc' = "ref" \/ (cpc' = "dispatch" /\ ci' = 1))
    BY <2>1 DEF NextRef
  <2> QED
    BY <1>3, <2>1, <2>2 DEF RelInv
<1>6. CASE (ReleaseRef \/ RemoveRef) /\ ~CReturn
  <2>1. cpc \in {"release", "remove"} /\ (CGoto("remove") \/ Released("release"))
    BY <1>6 DEF ReleaseRef, RemoveRef
  <2>2. /\ \A q \in Refs \ {o} : refs'[q] = refs[q]
        /\ \/ ~refs[o].live /\ refs' = refs
           \/ refs'[o] = WithFin(refs[o], FALSE)
           \/ cpc = "remove" /\ refs'[o] = Deleted(refs[o])
    <3>1. CASE ReleaseRef
      <4>1. \/ ~refs[o].live /\ refs' = refs
            \/ refs' = [refs EXCEPT ![o] = WithFin(@, FALSE)]
        BY <1>1, <3>1 DEF ReleaseRef
      <4> QED
        BY <1>2, <4>1
    <3>2. CASE RemoveRef
      <4>1. refs' = [refs EXCEPT ![o] = IF @.live THEN Deleted(@) ELSE @] /\ cpc = "remove"
        BY <1>1, <1>6, <3>2 DEF RemoveRef
      <4>2. refs'[o] = (IF refs[o].live THEN Deleted(refs[o]) ELSE refs[o])
        BY <1>2, <4>1
      <4>3. ~refs[o].live => refs' = refs
        BY <1>2, <4>1
      <4> QED
        BY <1>2, <4>1, <4>2, <4>3
    <3> QED
      BY <1>6, <3>1, <3>2
  <2>3. refs[o] \in Ref
    BY <1>2
  <2>4. ~WithFin(refs[o], FALSE).fin
    BY <2>3 DEF WithFin, Ref
  <2>5. Deleted(refs[o]).fin = refs[o].fin /\ Deleted(refs[o]).owner = refs[o].owner
        /\ (Deleted(refs[o]).live => refs[o].live)
    BY <2>3 DEF Deleted, Ref
  <2>6. cpc = "remove" => ~Held(o)
    BY <1>1, <1>2 DEF RelInv
  <2>7. ~Held(o)'
    BY <2>2, <2>4, <2>5, <2>6 DEF Held
  <2>8. \A i \in 1..ci : ~Held(RefSeq[i])'
    <3> SUFFICES ASSUME NEW i \in 1..ci PROVE ~Held(RefSeq[i])'
      OBVIOUS
    <3>1. CASE i = ci
      BY <1>1, <2>7, <3>1 DEF Held
    <3>2. CASE i # ci
      <4>1. i \in 1..(ci - 1) /\ RefSeq[i] \in Refs
        BY <1>2, <3>2, RefsType
      <4>2. ~Held(RefSeq[i])
        BY <2>1, <4>1 DEF RelInv
      <4>3. RefSeq[i] # o => refs'[RefSeq[i]] = refs[RefSeq[i]]
        BY <2>2, <4>1
      <4> QED
        BY <2>7, <4>2, <4>3 DEF Held
    <3> QED
      BY <3>1, <3>2
  <2>9. CASE CGoto("remove")
    BY <1>3, <2>8, <2>9 DEF CGoto, RelInv
  <2>10. CASE Released("release")
    <3>1. cbase' = cbase
      BY <2>10 DEF Released, NextRef
    <3>2. CASE ci < Len(RefSeq)
      <4>1. cpc' = "release" /\ ci' = ci + 1
        BY <2>10, <3>2 DEF Released, NextRef
      <4>2. cmem'.fin = cmem.fin
        BY <1>2, <2>10, <3>2 DEF Released, NC
      <4>3. ci' - 1 = ci
        BY <1>2, <4>1
      <4> QED
        BY <1>3, <2>8, <3>1, <4>1, <4>2, <4>3 DEF RelInv
    <3>3. CASE ~(ci < Len(RefSeq))
      <4>1. cpc' = "deferCond" /\ ci = Len(RefSeq)
        BY <1>2, <2>10, <3>3 DEF Released, NextRef
      <4>2. \A q \in Refs : ~Held(q)'
        BY <2>8, <4>1, RefsType
      <4> QED
        BY <3>1, <4>1, <4>2 DEF RelInv
    <3> QED
      BY <3>2, <3>3
  <2> QED
    BY <2>1, <2>9, <2>10
<1> QED
  BY <1>4, <1>5, <1>6

LEMMA HeldByWorld ==
    ASSUME refs \in [Refs -> Ref], World, NEW o \in Refs
    PROVE  Held(o)' <=> Held(o)
<1>1. refs'[o] = refs[o] \/ refs'[o] = Deleted(refs[o])
  BY DEF World, DeleteCluster, DeleteNutanixCluster, StrayDelete, CollectGarbage,
     DomainListSyncs, MachineListSyncs, Drift, MachineAppears, MachineCreates, MachineGone, apiVars
<1>2. refs[o] \in Ref
  OBVIOUS
<1>3. /\ Deleted(refs[o]).live = (refs[o].live /\ refs[o].fin)
      /\ Deleted(refs[o]).fin = refs[o].fin /\ Deleted(refs[o]).owner = refs[o].owner
  BY <1>2 DEF Deleted, Ref
<1>4. CASE refs'[o] = refs[o]
  BY <1>4 DEF Held
<1>5. CASE refs'[o] = Deleted(refs[o])
  BY <1>3, <1>5 DEF Held
<1> QED
  BY <1>1, <1>4, <1>5

LEMMA RelStep ==
    ASSUME IInv, RelInv, [Next]_vars
    PROVE  RelInv'
<1>1. ClusterTypeOK /\ refs \in [Refs -> Ref]
  BY DEF IInv, TypeOK, ObjectsTypeOK
<1>2. CASE ClusterStep
  <2>1. \/ ReconcileRef \/ ReleaseRef \/ RemoveRef
        \/ /\ UNCHANGED refs
           /\ \/ StartCluster \/ ClusterCallFails \/ Dispatch \/ ListMissing \/ ClusterReady
              \/ WaitForMachines \/ ListDomains \/ RequeueForDomains \/ DeleteCategories
              \/ CreateDomain \/ DeleteDomain \/ PatchCond \/ PatchSpec \/ PatchStatus
    BY <1>2 DEF ClusterStep, ReconcileCluster, StartCluster, ClusterCallFails, Dispatch,
       ListMissing, ClusterReady, WaitForMachines, ListDomains, RequeueForDomains,
       DeleteCategories, CreateDomain, DeleteDomain, PatchCond, PatchSpec, PatchStatus, apiVars
  <2> QED
    BY <2>1, QuietRel, CredentialRel
<1>3. CASE WorldStep
  <2>1. UNCHANGED clusterVars /\ \A o \in Refs : Held(o)' => Held(o)
    BY <1>1, <1>3, HeldByWorld DEF WorldStep
  <2> QED
    BY <1>1, <2>1, OthersRel
<1>4. ASSUME NEW m \in Metros, DomainStep(m) PROVE RelInv'
  <2>1. UNCHANGED clusterVars /\ \A o \in Refs : Held(o)' => Held(o)
    BY <1>4, DomainLeaves DEF DomainStep, Held
  <2> QED
    BY <1>1, <2>1, OthersRel
<1>5. CASE Crash
  <2>1. cpc' = "idle" /\ cmem' = NewNC /\ cbase' = NewNC
    BY <1>5 DEF Crash, ClusterRest
  <2> QED
    BY <2>1 DEF RelInv
<1>6. CASE UNCHANGED vars
  <2>1. UNCHANGED clusterVars /\ \A o \in Refs : Held(o)' => Held(o)
    BY <1>6 DEF vars, apiVars, Held
  <2> QED
    BY <1>1, <2>1, OthersRel
<1> QED
  BY <1>2, <1>3, <1>4, <1>5, <1>6 DEF Next

\* Where the parts of the order are.
LEMMA PartsAre ==
    /\ Refs \subseteq {"secret", "bundle"}
    /\ InPlace("cluster") = nc.live /\ InPlace("machines") = mach
    /\ \A o \in Refs : InPlace(o) = Held(o)
    /\ \A m \in Metros : InPlace(m) = (vha[m].live /\ vha[m].fin)
    /\ \A x \in OrderParts : \/ x \in {"cluster", "machines"} \/ x \in Refs
                              \/ x \in Metros
<1>1. Refs \subseteq {"secret", "bundle"}
  BY DEF Refs, RefSeq
<1>2. InPlace("cluster") = nc.live /\ InPlace("machines") = mach
  BY <1>1, PartsAssumption DEF InPlace
<1>3. ASSUME NEW o \in Refs PROVE InPlace(o) = Held(o)
  <2>1. o # "cluster" /\ o # "machines" /\ o \notin Metros
    BY <1>1, PartsAssumption
  <2> QED
    BY <2>1 DEF InPlace, Held
<1>4. ASSUME NEW m \in Metros PROVE InPlace(m) = (vha[m].live /\ vha[m].fin)
  <2>1. m # "cluster" /\ m # "machines" /\ m \notin Refs
    BY PartsAssumption
  <2> QED
    BY <2>1 DEF InPlace
<1> QED
  BY <1>1, <1>2, <1>3, <1>4 DEF OrderParts

LEMMA PartsMove ==
    /\ InPlace("cluster")' = nc'.live /\ InPlace("machines")' = mach'
    /\ \A o \in Refs : InPlace(o)' = Held(o)'
    /\ \A m \in Metros : InPlace(m)' = (vha'[m].live /\ vha'[m].fin)
<1>1. Refs \subseteq {"secret", "bundle"}
  BY DEF Refs, RefSeq
<1>2. InPlace("cluster")' = nc'.live /\ InPlace("machines")' = mach'
  BY <1>1, PartsAssumption DEF InPlace
<1>3. ASSUME NEW o \in Refs PROVE InPlace(o)' = Held(o)'
  <2>1. o # "cluster" /\ o # "machines" /\ o \notin Metros
    BY <1>1, PartsAssumption
  <2> QED
    BY <2>1 DEF InPlace, Held
<1>4. ASSUME NEW m \in Metros PROVE InPlace(m)' = (vha'[m].live /\ vha'[m].fin)
  <2>1. m # "cluster" /\ m # "machines" /\ m \notin Refs
    BY PartsAssumption
  <2> QED
    BY <2>1 DEF InPlace
<1> QED
  BY <1>1, <1>2, <1>3, <1>4

\* At most one part moves, in its order.
Moves ==
    \/ \E x \in OrderParts : Ordered!SetUp(x) \/ Ordered!Retire(x)
    \/ {y \in OrderParts : InPlace(y)}' = {y \in OrderParts : InPlace(y)}

\* Nothing was missed, late or hasty.
Straight == past \subseteq {"checked"}

\* A step that moves at most one part, in its order.
LEMMA OneMoves ==
    ASSUME NEW x \in OrderParts,
           \A y \in OrderParts \ {x} : InPlace(y)' <=> InPlace(y),
           InPlace(x)' /\ ~InPlace(x) => \A y \in OrderNeeds(x) : y \in OrderParts /\ InPlace(y),
           InPlace(x) /\ ~InPlace(x)' => \A y \in OrderParts : InPlace(y) => x \notin OrderNeeds(y)
    PROVE  Moves
<1>1. CASE InPlace(x)' <=> InPlace(x)
  <2>1. {y \in OrderParts : InPlace(y)}' = {y \in OrderParts : InPlace(y)}
    BY <1>1
  <2> QED
    BY <2>1 DEF Moves
<1>2. CASE InPlace(x)' /\ ~InPlace(x)
  <2>1. {y \in OrderParts : InPlace(y)}' = {y \in OrderParts : InPlace(y)} \cup {x}
    BY <1>2
  <2>2. Ordered!SetUp(x)
    BY <1>2, <2>1 DEF Ordered!SetUp
  <2> QED
    BY <2>2 DEF Moves
<1>3. CASE InPlace(x) /\ ~InPlace(x)'
  <2>1. {y \in OrderParts : InPlace(y)}' = {y \in OrderParts : InPlace(y)} \ {x}
    BY <1>3
  <2>2. Ordered!Retire(x)
    BY <1>3, <2>1 DEF Ordered!Retire
  <2> QED
    BY <2>2 DEF Moves
<1> QED
  BY <1>1, <1>2, <1>3

\* What each step moves.
LEMMA WorldMoves ==
    ASSUME IInv, World, Straight, Straight'
    PROVE  Moves
<1>1. refs \in [Refs -> Ref] /\ vha \in [Metros -> VHA] /\ nc \in NC
  BY DEF IInv, TypeOK, ObjectsTypeOK
<1>2. \A o \in Refs : Held(o)' <=> Held(o)
  BY <1>1, HeldByWorld
<1>3. nc'.live = nc.live
  <2>1. CASE DeleteNutanixCluster
    BY <1>1, <2>1 DEF DeleteNutanixCluster, Noted, Straight, Deleted, NC
  <2>2. CASE MachineCreates
    <3>1. nc' \in {nc, [nc EXCEPT !.cat = "created"]}
      BY <2>2 DEF MachineCreates
    <3> QED
      BY <1>1, <3>1 DEF NC
  <2> QED
    BY <2>1, <2>2 DEF World, DeleteCluster, StrayDelete, CollectGarbage, DomainListSyncs,
       MachineListSyncs, Drift, MachineAppears, MachineGone, apiVars
<1>4. \A m \in Metros : (vha'[m].live /\ vha'[m].fin) <=> (vha[m].live /\ vha[m].fin)
  <2> SUFFICES ASSUME NEW m \in Metros
               PROVE  (vha'[m].live /\ vha'[m].fin) <=> (vha[m].live /\ vha[m].fin)
    OBVIOUS
  <2>1. vha'[m] = vha[m] \/ vha'[m] = Deleted(vha[m])
    BY <1>1 DEF World, DeleteCluster, DeleteNutanixCluster, StrayDelete, CollectGarbage,
       DomainListSyncs, MachineListSyncs, Drift, MachineAppears, MachineCreates, MachineGone,
       apiVars
  <2>2. vha[m] \in VHA
    BY <1>1
  <2>3. Deleted(vha[m]).live = (vha[m].live /\ vha[m].fin) /\ Deleted(vha[m]).fin = vha[m].fin
    BY <2>2 DEF Deleted, VHA
  <2> QED
    BY <2>1, <2>2, <2>3 DEF VHA
<1>5. mach' => mach \/ (nc.live /\ Secured)
  <2>1. mach' => mach \/ (nc.ready /\ "checked" \notin past)
    <3>1. CASE MachineAppears
      BY <3>1 DEF MachineAppears, Noted, Straight
    <3> QED
      BY <3>1 DEF World, DeleteCluster, DeleteNutanixCluster, StrayDelete, CollectGarbage,
         DomainListSyncs, MachineListSyncs, Drift, MachineCreates, MachineGone, worldVars
  <2>2. "checked" \notin past => ~Unused /\ nc.live
    BY GoneIsUnused DEF IInv, Unused
  <2> QED
    BY <2>1, <2>2 DEF IInv, UseInv
<1>6. \A y \in OrderParts \ {"machines"} : InPlace(y)' <=> InPlace(y)
  BY <1>2, <1>3, <1>4, PartsAre, PartsMove
<1>7. InPlace("machines")' /\ ~InPlace("machines") =>
         \A y \in OrderNeeds("machines") : y \in OrderParts /\ InPlace(y)
  BY <1>5, PartsAre, PartsMove DEF OrderNeeds, OrderParts, Secured
<1>8. \A y \in OrderParts : "machines" \notin OrderNeeds(y)
  BY PartsAre DEF OrderNeeds
<1>9. "machines" \in OrderParts
  BY DEF OrderParts
<1> QED
  BY <1>6, <1>7, <1>8, <1>9, OneMoves

LEMMA DomainMoves ==
    ASSUME IInv, Straight, NEW m \in Metros, ReconcileDomain(m)
    PROVE  Moves
<1>1. UNCHANGED <<nc, refs, mach>>
  BY DomainLeaves
<1>2. /\ \A n \in Metros \ {m} : vha'[n] = vha[n]
      /\ vha' = vha \/ vha[m].live
  BY DEF ReconcileDomain, StartDomain, DomainCallFails, Resolve, AddFinalizer, FetchMetro,
     Validate, Ensure, Cleanup, DPatchSpec, DPatchStatus, apiVars, IInv, TypeOK, ObjectsTypeOK
<1>3. \A y \in OrderParts \ {m} : InPlace(y)' <=> InPlace(y)
  BY <1>1, <1>2, PartsAre, PartsMove DEF Held
<1>4. InPlace(m)' /\ ~InPlace(m) => \A y \in OrderNeeds(m) : y \in OrderParts /\ InPlace(y)
  <2> SUFFICES ASSUME InPlace(m)', ~InPlace(m)
               PROVE  \A y \in OrderNeeds(m) : y \in OrderParts /\ InPlace(y)
    OBVIOUS
  <2>1. vha[m].live
    BY <1>2, PartsAre, PartsMove
  <2>2. nc.live /\ Secured
    BY <2>1 DEF IInv, UseInv, Used, DomainsAwaited, Straight
  <2> QED
    BY <2>2, PartsAre DEF OrderNeeds, OrderParts, Secured
<1>5. \A y \in OrderParts : m \notin OrderNeeds(y)
  BY PartsAre, PartsAssumption DEF OrderNeeds
<1>6. m \in OrderParts
  BY DEF OrderParts
<1> QED
  BY <1>3, <1>4, <1>5, <1>6, OneMoves

\* Adopting a credential takes none away.
LEMMA ReconcileKeeps ==
    ASSUME IInv, ReconcileRef, NEW q \in Refs, Held(q)
    PROVE  Held(q)'
<1>1. PICK o \in Refs : o = RefSeq[ci]
  BY RefsType DEF IInv, TypeOK, ClusterTypeOK
<1>2. refs \in [Refs -> Ref]
  BY DEF IInv, TypeOK, ObjectsTypeOK
<1>3. refs' = refs \/ refs' = [refs EXCEPT ![o] = [WithFin(@, TRUE) EXCEPT !.owner = "this"]]
  BY <1>1 DEF ReconcileRef
<1>4. refs'[q] = refs[q] \/ refs'[q] = [WithFin(refs[q], TRUE) EXCEPT !.owner = "this"]
  BY <1>2, <1>3
<1>5. refs[q] \in Ref /\ WithFin(refs[q], TRUE) = [refs[q] EXCEPT !.fin = @ \/ ~refs[q].del]
  BY <1>2 DEF WithFin
<1> QED
  BY <1>4, <1>5 DEF Held, Ref

\* A credential comes while the cluster is there and goes when nothing is in use.
LEMMA CredentialMoves ==
    ASSUME IInv, Straight, ReconcileRef \/ ReleaseRef \/ RemoveRef
    PROVE  Moves
<1>1. PICK o \in Refs : o = RefSeq[ci]
  BY RefsType DEF IInv, TypeOK, ClusterTypeOK
<1>2. UNCHANGED <<nc, vha, mach>> /\ \A q \in Refs \ {o} : refs'[q] = refs[q]
  <2>1. refs \in [Refs -> Ref]
    BY DEF IInv, TypeOK, ObjectsTypeOK
  <2> QED
    BY <1>1, <2>1 DEF ReconcileRef, ReleaseRef, RemoveRef, worldVars
<1>3. \A y \in OrderParts \ {o} : InPlace(y)' <=> InPlace(y)
  BY <1>2, PartsAre, PartsMove DEF Held
<1>4. nc.live /\ (Unused \/ \A q \in Refs : Held(q) => Held(q)')
  <2>1. CASE ReconcileRef
    BY <2>1, ReconcileKeeps DEF ReconcileRef, IInv, PassInv
  <2>2. CASE ReleaseRef \/ RemoveRef
    BY <2>2 DEF ReleaseRef, RemoveRef, IInv, PassInv
  <2> QED
    BY <2>1, <2>2
<1>5. InPlace(o)' /\ ~InPlace(o) => \A y \in OrderNeeds(o) : y \in OrderParts /\ InPlace(y)
  BY <1>4, PartsAre DEF OrderNeeds, OrderParts
<1>6. InPlace(o) /\ ~InPlace(o)' => \A y \in OrderParts : InPlace(y) => o \notin OrderNeeds(y)
  <2> SUFFICES ASSUME InPlace(o), ~InPlace(o)', NEW y \in OrderParts, InPlace(y)
               PROVE  o \notin OrderNeeds(y)
    OBVIOUS
  <2>1. Unused
    BY <1>4, PartsAre, PartsMove
  <2>2. y # "machines" /\ y \notin Metros
    BY <2>1, PartsAre DEF Unused, Used, MachinesAwaited, DomainsAwaited, Straight
  <2>3. o # "cluster"
    BY PartsAre
  <2> QED
    BY <2>2, <2>3, PartsAre DEF OrderNeeds
<1>7. o \in OrderParts
  BY DEF OrderParts
<1> QED
  BY <1>3, <1>5, <1>6, <1>7, OneMoves

\* The NutanixCluster goes last.
LEMMA PatchMoves ==
    ASSUME IInv, RelInv, Straight, PatchCond \/ PatchSpec \/ PatchStatus
    PROVE  Moves
<1>1. UNCHANGED <<refs, vha, mach>> /\ nc \in NC /\ cmem \in NC /\ cbase \in NC
  BY DEF PatchCond, PatchSpec, PatchStatus, worldVars, IInv, TypeOK, ObjectsTypeOK, ClusterTypeOK
<1>2. \A y \in OrderParts \ {"cluster"} : InPlace(y)' <=> InPlace(y)
  BY <1>1, PartsAre, PartsMove DEF Held
<1>3. nc'.live = nc.live \/ (~nc'.live /\ cbase.fin /\ ~cmem.fin)
  <2>1. CASE PatchCond \/ PatchStatus
    BY <1>1, <2>1 DEF PatchCond, PatchStatus, Patch, NC
  <2>2. CASE PatchSpec
    <3>1. nc' = nc \/ (cbase.fin # cmem.fin /\ nc' = WithFin(nc, cmem.fin))
      BY <2>2 DEF PatchSpec, Patch
    <3>2. CASE cmem.fin
      BY <1>1, <3>1, <3>2 DEF WithFin, NC
    <3>3. CASE ~cmem.fin
      BY <1>1, <3>1, <3>3 DEF WithFin, NC
    <3> QED
      BY <3>2, <3>3
  <2> QED
    BY <2>1, <2>2
<1>4. ~(InPlace("cluster")' /\ ~InPlace("cluster"))
  BY <1>3, PartsAre, PartsMove
<1>5. InPlace("cluster") /\ ~InPlace("cluster")' =>
         \A y \in OrderParts : InPlace(y) => "cluster" \notin OrderNeeds(y)
  <2> SUFFICES ASSUME nc.live, ~nc'.live, NEW y \in OrderParts, InPlace(y)
               PROVE  "cluster" \notin OrderNeeds(y)
    BY PartsAre, PartsMove
  <2>1. cbase.fin /\ ~cmem.fin
    BY <1>3
  <2>2. ~Used /\ \A o \in Refs : ~Held(o)
    BY <2>1 DEF IInv, PassInv, RelInv, Unused
  <2>3. y = "cluster"
    BY <2>2, PartsAre DEF Used, MachinesAwaited, DomainsAwaited, Straight
  <2> QED
    BY <2>3 DEF OrderNeeds
<1>6. "cluster" \in OrderParts
  BY DEF OrderParts
<1> QED
  BY <1>2, <1>4, <1>5, <1>6, OneMoves

\* A step that moves nothing.
LEMMA NoneMoves ==
    ASSUME IInv, UNCHANGED <<nc, refs, mach>>,
           \A m \in Metros : (vha'[m].live /\ vha'[m].fin) <=> (vha[m].live /\ vha[m].fin)
    PROVE  Moves
<1>1. \A y \in OrderParts : InPlace(y)' <=> InPlace(y)
  BY PartsAre, PartsMove DEF Held
<1>2. "cluster" \in OrderParts
  BY DEF OrderParts
<1> QED
  BY <1>1, <1>2, OneMoves

LEMMA MovesStep ==
    ASSUME IInv, RelInv, [Next]_vars, Straight, Straight'
    PROVE  Moves
<1>1. vha \in [Metros -> VHA]
  BY DEF IInv, TypeOK, ObjectsTypeOK
<1>2. CASE ClusterStep
  <2>1. CASE ReconcileRef \/ ReleaseRef \/ RemoveRef
    BY <2>1, CredentialMoves
  <2>2. CASE PatchCond \/ PatchSpec \/ PatchStatus
    BY <2>2, PatchMoves
  <2>3. CASE CreateDomain \/ DeleteDomain
    <3>1. UNCHANGED <<nc, refs, mach>>
      BY <2>3 DEF CreateDomain, DeleteDomain, worldVars
    <3>2. \A m \in Metros : \/ vha'[m] = vha[m] \/ vha'[m] = Deleted(vha[m])
                            \/ ~vha[m].live /\ vha'[m] = NewVHA
      <4>1. CASE CreateDomain
        <5>1. vha' = vha \/ \E m \in Metros : ~vha[m].live /\ vha' = [vha EXCEPT ![m] = NewVHA]
          BY <4>1 DEF CreateDomain, IInv, TypeOK, ClusterTypeOK
        <5> QED
          BY <1>1, <5>1
      <4>2. CASE DeleteDomain
        <5>1. vha' = vha \/ \E m \in Metros : vha' = [vha EXCEPT ![m] = Deleted(@)]
          BY <4>2 DEF DeleteDomain, IInv, TypeOK, ClusterTypeOK
        <5> QED
          BY <1>1, <5>1
      <4> QED
        BY <2>3, <4>1, <4>2
    <3>3. ASSUME NEW m \in Metros
          PROVE  (vha'[m].live /\ vha'[m].fin) <=> (vha[m].live /\ vha[m].fin)
      <4>1. /\ Deleted(vha[m]).live = (vha[m].live /\ vha[m].fin)
            /\ Deleted(vha[m]).fin = vha[m].fin
        BY <1>1 DEF Deleted, VHA
      <4>2. ~NewVHA.fin
        BY DEF NewVHA
      <4> QED
        BY <3>2, <4>1, <4>2
    <3> QED
      BY <3>1, <3>3, NoneMoves
  <2>4. CASE /\ UNCHANGED <<nc, refs, vha, mach>>
             /\ \/ StartCluster \/ ClusterCallFails \/ Dispatch \/ ListMissing \/ ClusterReady
                \/ WaitForMachines \/ ListDomains \/ RequeueForDomains \/ DeleteCategories
    BY <2>4, NoneMoves
  <2> QED
    BY <1>2, <2>1, <2>2, <2>3, <2>4 DEF ClusterStep, ReconcileCluster, StartCluster,
       ClusterCallFails, Dispatch, ListMissing, ClusterReady, WaitForMachines, ListDomains,
       RequeueForDomains, DeleteCategories, apiVars, worldVars
<1>3. ASSUME NEW m \in Metros, DomainStep(m)
      PROVE  Moves
  BY <1>3, DomainMoves DEF DomainStep
<1>4. CASE WorldStep
  BY <1>4, WorldMoves DEF WorldStep
<1>5. CASE Crash
  BY <1>5, NoneMoves DEF Crash, worldVars
<1>6. CASE UNCHANGED vars
  BY <1>6, NoneMoves DEF vars, apiVars, worldVars
<1> QED
  BY <1>2, <1>3, <1>4, <1>5, <1>6 DEF Next

\* At the start the cluster is there and nothing else.
LEMMA OrderStart ==
    Init => RelInv /\ {y \in OrderParts : InPlace(y)} = {"cluster"}
<1> SUFFICES ASSUME Init PROVE RelInv /\ {y \in OrderParts : InPlace(y)} = {"cluster"}
  OBVIOUS
<1>1. RelInv
  BY NewType DEF Init, ClusterInit, RelInv
<1>2. nc.live /\ ~mach /\ \A m \in Metros : ~vha[m].live
  BY NewType DEF Init, ObjectsInit
<1>3. \A o \in Refs : ~Held(o)
  BY DEF Init, ObjectsInit, NewRef, Held
<1>4. "cluster" \in OrderParts /\ \A y \in OrderParts : InPlace(y) <=> y = "cluster"
  BY <1>2, <1>3, PartsAre DEF OrderParts
<1> QED
  BY <1>1, <1>4

\* The two reconcilers together, with all their faults, set up and take down a cluster
\* in the order of TeardownOrder: the credentials go after machines and vHADomains,
\* the NutanixCluster after all of them, one part at a time; until a list misses
\* something, a machine comes late, or a deletion is faster than the first finalizer.
THEOREM TeardownInOrder == Spec => KeepsOrder
<1> DEFINE Parts == {x \in OrderParts : InPlace(x)}
           off == past \ {"checked"} # {}
           OInv == TypeOK /\ (Straight => IInv /\ RelInv)
<1>1. Init => OInv
  BY InitType, InitUse, OrderStart DEF IInv
<1>2. OInv /\ [Next]_vars => OInv'
  BY NextType, UseStep, RelStep, PastGrows DEF Straight, Hasty
<1>3. Init => Parts = {"cluster"} /\ ~off
  BY OrderStart DEF Init, ObjectsInit
<1>4. OInv /\ [Next]_vars => [Ordered!OrderNext]_<<Parts, off>>
  <2> SUFFICES ASSUME OInv, [Next]_vars PROVE [Ordered!OrderNext]_<<Parts, off>>
    OBVIOUS
  <2>1. CASE off'
    BY <2>1 DEF Ordered!OrderNext
  <2>2. CASE ~off'
    <3>1. Straight /\ Straight' /\ ~off
      BY <2>2, PastGrows DEF Straight
    <3>2. Moves
      BY <3>1, MovesStep
    <3> QED
      BY <2>2, <3>1, <3>2 DEF Moves, Ordered!OrderNext
  <2> QED
    BY <2>1, <2>2
<1>5. Spec => []OInv
  BY <1>1, <1>2, PTL DEF Spec
<1>6. Spec => Parts = {"cluster"} /\ ~off
  BY <1>3 DEF Spec
<1>7. Spec => [][Ordered!OrderNext]_<<Parts, off>>
  BY <1>4, <1>5, PTL DEF Spec
<1> QED
  BY <1>6, <1>7, PTL DEF KeepsOrder, Ordered!OrderSpec
=============================================================================
