------------------------ MODULE NutanixMachineProofs ------------------------
(***************************************************************************)
(* Proofs about NutanixMachine for every set of VMs and keys and every     *)
(* bound.                                                                  *)
(***************************************************************************)
EXTENDS NutanixMachine, TLAPS

USE NoneAssumption, MaxVGsAssumption, ConfigAssumption

-----------------------------------------------------------------------------
(* The helpers keep the types of the objects they work on.                 *)

\* A merge patch of metadata and spec yields an object, leaves the status alone, and
\* changes the key only where the two copies differ (patchMachine, the deferred patch).
LEMMA SpecPatchType ==
    ASSUME NEW o \in NM, NEW b \in NM, NEW a \in NM
    PROVE  /\ SpecPatch(o, b, a) \in NM
           /\ SpecPatch(o, b, a).uuid = o.uuid
           /\ SpecPatch(o, b, a).ready = o.ready
           /\ SpecPatch(o, b, a).failed = o.failed
           /\ SpecPatch(o, b, a).del = o.del
           /\ SpecPatch(o, b, a).req \in {o.req, a.req}
           /\ b.req = a.req => SpecPatch(o, b, a).req = o.req
           /\ ~o.live => SpecPatch(o, b, a) = o
<1>1. CASE ~o.live
  BY <1>1 DEF SpecPatch
<1>2. CASE o.live
  <2> DEFINE fin == IF b.fin # a.fin THEN a.fin ELSE o.fin
             req == IF b.req # a.req THEN a.req ELSE o.req
             prov == IF b.prov # a.prov THEN a.prov ELSE o.prov
             s == [live |-> fin \/ ~o.del, fin |-> fin, del |-> o.del, req |-> req,
                   prov |-> prov, uuid |-> o.uuid, ready |-> o.ready,
                   failed |-> o.failed]
  <2>1. SpecPatch(o, b, a) = s
    BY <1>2 DEF SpecPatch, NM
  <2>2. s \in NM
    BY DEF NM
  <2>3. /\ s.uuid = o.uuid /\ s.ready = o.ready /\ s.failed = o.failed
        /\ s.del = o.del /\ s.req = req
    OBVIOUS
  <2>4. QED
    <3> HIDE DEF s
    <3>1. req \in {o.req, a.req} /\ (b.req = a.req => req = o.req)
      OBVIOUS
    <3>2. QED BY <1>2, <2>1, <2>2, <2>3, <3>1
<1>3. QED BY <1>1, <1>2

\* A status patch yields an object and leaves metadata and spec alone.
LEMMA StatusPatchType ==
    ASSUME NEW o \in NM, NEW b \in NM, NEW a \in NM
    PROVE  /\ StatusPatch(o, b, a) \in NM
           /\ StatusPatch(o, b, a).live = o.live
           /\ StatusPatch(o, b, a).req = o.req
           /\ StatusPatch(o, b, a).prov = o.prov
           /\ ~o.live => StatusPatch(o, b, a) = o
<1>1. CASE ~o.live
  BY <1>1 DEF StatusPatch
<1>2. CASE o.live
  <2> DEFINE uuid == IF b.uuid # a.uuid THEN a.uuid ELSE o.uuid
             ready == IF b.ready # a.ready THEN a.ready ELSE o.ready
             failed == IF b.failed # a.failed THEN a.failed ELSE o.failed
             s == [live |-> o.live, fin |-> o.fin, del |-> o.del, req |-> o.req,
                   prov |-> o.prov, uuid |-> uuid, ready |-> ready,
                   failed |-> failed]
  <2>1. StatusPatch(o, b, a) = s
    BY <1>2 DEF StatusPatch, NM
  <2>2. s \in NM
    BY DEF NM
  <2>3. s.live = o.live /\ s.req = o.req /\ s.prov = o.prov
    OBVIOUS
  <2>4. QED
    <3> HIDE DEF s
    <3>1. QED BY <1>2, <2>1, <2>2, <2>3
<1>3. QED BY <1>1, <1>2

\* What r.Get returns is an object.
LEMMA ReadType == TypeOK => Read \in NM
BY DEF TypeOK, ObjTypeOK, Read

\* GetVMUUID returns a VM or nothing.
LEMMA GetVMUUIDType ==
    ASSUME TypeOK PROVE GetVMUUID(mem) \in VMs \cup {None}
BY DEF TypeOK, ObjTypeOK, ProcTypeOK, GetVMUUID, NM

-----------------------------------------------------------------------------
(* Type correctness.                                                       *)

\* A NutanixMachine as the user creates it is an object.
LEMMA NewNMType == NewNM \in NM
BY DEF NewNM, NM

\* The types hold initially.
LEMMA InitType == Init => TypeOK
<1> SUFFICES ASSUME Init PROVE TypeOK
  OBVIOUS
<1>1. PrismTypeOK
  BY DEF Init, PrismInit, PrismTypeOK, VMStates
<1>2. nm \in NM /\ cache \in NM /\ mem \in NM /\ base \in NM
  BY NewNMType DEF Init
<1>3. machine \in [bootstrap: BOOLEAN, profile: Profiles,
                   prov: VMs \cup {None}, sys: VMs \cup {None}]
  BY DEF Init
<1>4. /\ pc \in PCs /\ found \in VMs \cup {None} /\ callErr \in BOOLEAN
  BY DEF Init, PCs
<1>5. seenVGs \in 0..MaxVGs /\ faults \in 0..MaxFaults /\ lapses \subseteq Lapses
  BY DEF Init
<1>6. QED BY <1>1, <1>2, <1>3, <1>4, <1>5 DEF TypeOK, ObjTypeOK, ProcTypeOK

\* Every call and every step of the VM service keeps its types.
LEMMA PrismType ==
    ASSUME PrismTypeOK, NEW v \in VMs,
           \/ PrismTask(v) \/ IndexCatchesUp(v) \/ CreateFails(v) \/ OperatorDestroys(v)
           \/ AttachVG(v) \/ PowerOn(v) \/ CreateWithoutKey(v)
           \/ \E k \in ReqIDs : CreateWithKey(k, v)
           \/ \E t \in {"detach", "delete"} : StartTask(v, t)
    PROVE  PrismTypeOK'
<1>1. CASE PrismTask(v)
  BY <1>1 DEF PrismTypeOK, PrismTask, CreateDone, DetachDone, DeleteDone, VMStates
<1>2. CASE IndexCatchesUp(v)
  BY <1>2 DEF PrismTypeOK, IndexCatchesUp
<1>3. CASE CreateFails(v) \/ OperatorDestroys(v)
  BY <1>3 DEF PrismTypeOK, CreateFails, OperatorDestroys, VMStates
<1>4. CASE AttachVG(v)
  BY <1>4 DEF PrismTypeOK, AttachVG
<1>5. CASE PowerOn(v) \/ CreateWithoutKey(v)
  BY <1>5 DEF PrismTypeOK, PowerOn, CreateWithoutKey, VMStates
<1>6. CASE \E k \in ReqIDs : CreateWithKey(k, v)
  BY <1>6 DEF PrismTypeOK, CreateWithKey, VMStates
<1>7. CASE \E t \in {"detach", "delete"} : StartTask(v, t)
  BY <1>7 DEF PrismTypeOK, StartTask
<1>8. QED BY <1>1, <1>2, <1>3, <1>4, <1>5, <1>6, <1>7

\* A group of variables that does not change keeps its types.
LEMMA Unchanged ==
    /\ PrismTypeOK /\ UNCHANGED prismVars => PrismTypeOK'
    /\ ObjTypeOK /\ UNCHANGED objVars => ObjTypeOK'
    /\ ProcTypeOK /\ UNCHANGED procVars => ProcTypeOK'
BY DEF PrismTypeOK, prismVars, ObjTypeOK, objVars, ProcTypeOK, procVars

\* The count of faults stays within its bound.
LEMMA FaultsType ==
    ASSUME TypeOK, faults' = faults \/ Fault
    PROVE  faults' \in 0..MaxFaults
BY DEF TypeOK, Fault

\* SetFailureStatus yields an object.
LEMMA FailedMemType ==
    ASSUME NEW m \in NM, NEW t \in BOOLEAN
    PROVE  [m EXCEPT !.failed = @ \/ t] \in NM
BY DEF NM

\* A step that returns an error and touches neither Prism nor the API server.
LEMMA ReturnErrType ==
    ASSUME TypeOK, NEW t \in BOOLEAN, ReturnErr(t)
    PROVE  ProcTypeOK'
BY FailedMemType DEF TypeOK, ProcTypeOK, ReturnErr, PCs

\* A lookup that fails keeps the types.
LEMMA CallFailsType ==
    ASSUME TypeOK, NEW l, NEW t \in BOOLEAN, CallFails(l, t)
    PROVE  TypeOK'
BY ReturnErrType, Unchanged, FaultsType DEF TypeOK, CallFails

\* A step that only moves on keeps the types of the reconcile.
LEMMA GotoType ==
    ASSUME TypeOK, NEW l \in PCs, Goto(l)
    PROVE  ProcTypeOK'
BY DEF TypeOK, ProcTypeOK, Goto

\* A step that only replaces the stored object, and may add to the history.
LEMMA NewObjType ==
    ASSUME TypeOK, nm' \in NM, UNCHANGED <<cache, machine>>, lapses' \subseteq Lapses
    PROVE  ObjTypeOK'
BY DEF TypeOK, ObjTypeOK

\* The copy patchMachine computes its diff from is an object.
LEMMA BeforeType == TypeOK => Before \in NM
BY DEF TypeOK, ProcTypeOK, Before, NM

\* Every step of the controller and of the world around it keeps the types.
LEMMA NextType == TypeOK /\ [Next]_vars => TypeOK'
<1> SUFFICES ASSUME TypeOK, [Next]_vars PROVE TypeOK'
  OBVIOUS
<1> USE FaultsType, Unchanged
<1>0. /\ PrismTypeOK /\ ObjTypeOK /\ ProcTypeOK /\ nm \in NM /\ mem \in NM
      /\ base \in NM /\ Read \in NM /\ GetVMUUID(mem) \in VMs \cup {None}
      /\ Before \in NM /\ lapses \subseteq Lapses
  BY ReadType, GetVMUUIDType, BeforeType DEF TypeOK, ObjTypeOK, ProcTypeOK
<1>1. ASSUME NEW l \in PCs, NEW m \in NM, NEW v \in VMs \cup {None}, Begin(l, m, v)
      PROVE  TypeOK'
  <2>1. seenVGs' \in 0..MaxVGs
    BY <1>1 DEF Begin
  <2>2. ProcTypeOK'
    BY <1>0, <1>1, <2>1 DEF ProcTypeOK, Begin
  <2>3. lapses' \subseteq Lapses
    BY <1>0, <1>1 DEF Begin, Outdated
  <2>4. QED BY <1>0, <1>1, <2>2, <2>3, NewObjType DEF TypeOK, Begin
<1>2. CASE StartDelete
  BY <1>0, <1>1, <1>2 DEF StartDelete, PCs
<1>3. CASE StartNormal
  <2>1. [Read EXCEPT !.fin = TRUE] \in NM
    BY <1>0 DEF NM
  <2>2. QED BY <2>1, <1>1, <1>3 DEF StartNormal, PCs
<1>4. CASE StartReady
  <2>1. [Read EXCEPT !.fin = TRUE] \in NM /\ Read.uuid \in VMs \cup {None}
    BY <1>0 DEF NM
  <2>2. QED BY <2>1, <1>1, <1>4 DEF StartReady, PCs
<1>5. CASE FindByUUID
  <2>1. ProcTypeOK'
    BY <1>0, <1>5, ReturnErrType DEF FindByUUID, UseVM, ProcTypeOK, PCs
  <2>2. QED BY <2>1, <1>0, <1>5 DEF FindByUUID, TypeOK
<1>6. CASE FindByName
  <2>1. ProcTypeOK'
    BY <1>0, <1>6, ReturnErrType, GotoType DEF FindByName, UseVM, ProcTypeOK, PCs
  <2>2. QED BY <2>1, <1>0, <1>6 DEF FindByName, TypeOK
<1>7. CASE FindFails \/ CreateRejected \/ WaitFails \/ PowerOnFails \/ FinishFails
           \/ DeleteFails
  BY <1>7, CallFailsType DEF FindFails, CreateRejected, WaitFails, PowerOnFails,
     FinishFails, DeleteFails
<1>8. CASE Mint
  <2>1. PICK k \in ReqIDs :
           LET stored == SpecPatch(nm, mem, [mem EXCEPT !.req = k])
           IN \/ /\ nm.live /\ Done
                 /\ nm' = stored
                 /\ mem' = [mem EXCEPT !.req = k]
                 /\ pc' = "create"
                 /\ UNCHANGED <<base, found, seenVGs, callErr>>
              \/ /\ nm.live /\ Lost
                 /\ nm' = stored
                 /\ ReturnErr(FALSE)
    BY <1>8 DEF Mint
  <2>2. [mem EXCEPT !.req = k] \in NM
    BY <1>0 DEF NM
  <2>3. nm' \in NM
    <3>1. SpecPatch(nm, mem, [mem EXCEPT !.req = k]) \in NM
      BY <1>0, <2>2, SpecPatchType
    <3>2. QED BY <2>1, <3>1
  <2>4. ProcTypeOK'
    BY <1>0, <2>1, <2>2, ReturnErrType DEF ProcTypeOK, PCs
  <2>5. faults' \in 0..MaxFaults
    BY <2>1 DEF Done, Lost
  <2>6. QED BY <1>0, <1>8, <2>3, <2>4, <2>5, NewObjType DEF Mint, TypeOK
<1>9. CASE MintFails
  <2>1. ProcTypeOK' /\ faults' \in 0..MaxFaults
    BY <1>9, ReturnErrType DEF MintFails, Done, NotDone
  <2>2. QED BY <1>0, <1>9, <2>1 DEF MintFails, TypeOK
<1>10. CASE Create
  <2>1. PICK v \in VMs :
           /\ Submit(v)
           /\ \/ /\ Done
                 /\ found' = v /\ pc' = "wait"
                 /\ UNCHANGED <<mem, base, seenVGs, callErr>>
              \/ Lost /\ ReturnErr(FALSE)
    BY <1>10 DEF Create
  <2>2. PrismTypeOK'
    <3>1. CASE machine.profile
      BY <1>0, <2>1, <3>1, PrismType DEF Submit
    <3>2. CASE ~machine.profile
      <4>1. CreateWithKey(mem.req, v)
        BY <2>1, <3>2 DEF Submit
      <4>2. vmState' \in [VMs -> VMStates] /\ byKey' \in [ReqIDs -> VMs \cup {None}]
        BY <1>0, <4>1 DEF CreateWithKey, PrismTypeOK, VMStates
      <4>3. QED BY <1>0, <4>1, <4>2 DEF CreateWithKey, PrismTypeOK
    <3>3. QED BY <3>1, <3>2
  <2>3. ProcTypeOK' /\ faults' \in 0..MaxFaults
    BY <1>0, <2>1, ReturnErrType DEF ProcTypeOK, PCs, Done, Lost
  <2>4. QED BY <1>0, <1>10, <2>2, <2>3 DEF Create, TypeOK
<1>11. CASE WaitForVM
  <2>1. CASE \E terminal \in BOOLEAN : ReturnErr(terminal)
    BY <1>0, <1>11, <2>1, ReturnErrType DEF WaitForVM, TypeOK
  <2>2. CASE /\ mem' = [mem EXCEPT !.prov = found, !.uuid = found]
             /\ pc' = IF machine.profile THEN "power" ELSE "recordSpec"
             /\ UNCHANGED <<base, found, seenVGs, callErr>>
    <3>1. mem' \in NM
      BY <1>0, <2>2 DEF NM, ProcTypeOK
    <3>2. ProcTypeOK'
      BY <1>0, <2>2, <3>1 DEF ProcTypeOK, PCs
    <3>3. QED BY <1>0, <1>11, <3>2 DEF WaitForVM, TypeOK
  <2>3. QED BY <1>11, <2>1, <2>2 DEF WaitForVM
<1>12. CASE RecordSpec
  <2>1. nm' \in NM
    BY <1>0, <1>12, SpecPatchType DEF RecordSpec
  <2>2. ProcTypeOK' /\ faults' \in 0..MaxFaults
    BY <1>0, <1>12 DEF RecordSpec, ProcTypeOK, PCs, Done, Lost, NotDone
  <2>3. QED BY <1>0, <1>12, <2>1, <2>2, NewObjType DEF RecordSpec, TypeOK
<1>13. CASE RecordStatus
  <2>1. nm' \in NM
    BY <1>0, <1>13, StatusPatchType DEF RecordStatus
  <2>2. ProcTypeOK' /\ faults' \in 0..MaxFaults
    BY <1>0, <1>13 DEF RecordStatus, ProcTypeOK, PCs, Done, Lost, NotDone
  <2>3. QED BY <1>0, <1>13, <2>1, <2>2, NewObjType DEF RecordStatus, TypeOK
<1>14. CASE PowerOnVM
  <2>1. PrismTypeOK'
    BY <1>0, <1>14 DEF PowerOnVM, PowerOn, PrismTypeOK, VMStates
  <2>2. ProcTypeOK' /\ faults' \in 0..MaxFaults
    BY <1>0, <1>14, ReturnErrType, GotoType DEF PowerOnVM, PCs, Done, Lost
  <2>3. QED BY <1>0, <1>14, <2>1, <2>2 DEF PowerOnVM, TypeOK
<1>14a. CASE RunningVM \/ Refetch \/ NilVMPanics
  <2>1. ProcTypeOK'
    <3>1. CASE RunningVM \/ NilVMPanics
      BY <3>1, ReturnErrType, GotoType DEF RunningVM, NilVMPanics, PCs
    <3>2. CASE Refetch
      BY <1>0, <3>2 DEF Refetch, ProcTypeOK, PCs
    <3>3. QED BY <1>14a, <3>1, <3>2
  <2>2. QED BY <1>0, <1>14a, <2>1 DEF RunningVM, Refetch, NilVMPanics, TypeOK
<1>15. CASE SyncVmUUID
  <2>1. SyncTarget \in VMs \cup {None}
    BY <1>0 DEF SyncTarget, ObjTypeOK, ProcTypeOK
  <2>2. mem' \in NM
    BY <1>0, <1>15, <2>1 DEF SyncVmUUID, NM
  <2>3. nm' \in NM
    BY <1>0, <1>15, <2>2, StatusPatchType DEF SyncVmUUID
  <2>4. ProcTypeOK' /\ faults' \in 0..MaxFaults
    BY <1>0, <1>15, <2>2 DEF SyncVmUUID, ProcTypeOK, PCs, Done, Lost, NotDone
  <2>5. QED BY <1>0, <1>15, <2>3, <2>4, NewObjType DEF SyncVmUUID, TypeOK
<1>16. CASE Finish
  <2>1. mem' \in NM
    BY <1>0, <1>16 DEF Finish, NM
  <2>2. ProcTypeOK'
    BY <1>0, <1>16, <2>1 DEF Finish, ProcTypeOK, PCs
  <2>3. QED BY <1>0, <1>16, <2>2 DEF Finish, TypeOK
<1>17. CASE DeleteLookup
  <2>1. [mem EXCEPT !.fin = FALSE] \in NM
    BY <1>0 DEF NM
  <2>2. \A v \in VMs : vgs[v] \in 0..MaxVGs
    BY <1>0 DEF PrismTypeOK
  <2>3. ProcTypeOK'
    BY <1>0, <1>17, <2>1, <2>2 DEF DeleteLookup, ProcTypeOK, PCs
  <2>4. QED BY <1>0, <1>17, <2>3 DEF DeleteLookup, TypeOK
<1>18. CASE DeleteCheckTasks
  <2>1. ProcTypeOK'
    BY <1>18, GotoType DEF DeleteCheckTasks, PCs
  <2>2. QED BY <1>0, <1>18, <2>1 DEF DeleteCheckTasks, TypeOK
<1>19. CASE DeleteAct
  <2>1. PrismTypeOK'
    BY <1>0, <1>19 DEF DeleteAct, StartTask, PrismTypeOK
  <2>2. ProcTypeOK' /\ faults' \in 0..MaxFaults
    BY <1>19, ReturnErrType DEF DeleteAct, Done, Lost
  <2>3. QED BY <1>0, <1>19, <2>1, <2>2 DEF DeleteAct, TypeOK
<1>20. CASE DeferSpec
  <2>1. nm' \in NM
    BY <1>0, <1>20, SpecPatchType DEF DeferSpec
  <2>2. ProcTypeOK' /\ faults' \in 0..MaxFaults
    BY <1>20, GotoType DEF DeferSpec, PCs, Done, NotDone
  <2>3. QED BY <1>0, <1>20, <2>1, <2>2, NewObjType DEF DeferSpec, TypeOK
<1>21. ASSUME Rest PROVE ProcTypeOK'
  <2>1. seenVGs' \in 0..MaxVGs
    BY <1>21 DEF Rest
  <2>2. QED BY <1>21, <2>1, NewNMType DEF Rest, ProcTypeOK, PCs
<1>22. CASE DeferStatus
  <2>1. nm' \in NM
    BY <1>0, <1>22, StatusPatchType DEF DeferStatus
  <2>2. ProcTypeOK' /\ faults' \in 0..MaxFaults
    BY <1>21, <1>22 DEF DeferStatus, Done, NotDone
  <2>3. QED BY <1>0, <1>22, <2>1, <2>2, NewObjType DEF DeferStatus, TypeOK
<1>23. CASE Crash
  <2>1. ObjTypeOK'
    BY <1>0, <1>23 DEF Crash, ObjTypeOK
  <2>2. QED BY <1>0, <1>21, <1>23, <2>1 DEF Crash, TypeOK
<1>24. CASE UserDeletes
  <2>1. nm' \in NM /\ lapses' \subseteq Lapses
    BY <1>0, <1>24 DEF UserDeletes, NM, Lapses
  <2>2. QED BY <1>0, <1>24, <2>1, NewObjType DEF UserDeletes, TypeOK
<1>25. CASE CacheSync
  BY <1>0, <1>25 DEF CacheSync, TypeOK, ObjTypeOK
<1>26. CASE BootstrapReady \/ MachineTakesProviderID \/ NodeRegisters
  <2>1. nm.prov \in VMs \cup {None} /\ machine.prov \in VMs \cup {None}
    BY <1>0 DEF NM, ObjTypeOK
  <2>2. ObjTypeOK'
    BY <1>0, <1>26, <2>1 DEF BootstrapReady, MachineTakesProviderID, NodeRegisters,
       ObjTypeOK
  <2>3. QED BY <1>0, <1>26, <2>2 DEF BootstrapReady, MachineTakesProviderID,
            NodeRegisters, TypeOK
<1>27. CASE \E v \in VMs : WorkloadAttachesVG(v) \/ PrismFault(v) \/ PrismStep(v)
  <2>1. PICK v \in VMs : WorkloadAttachesVG(v) \/ PrismFault(v) \/ PrismStep(v)
    BY <1>27
  <2>2. PrismTypeOK'
    BY <1>0, <2>1, PrismType DEF WorkloadAttachesVG, PrismFault, PrismStep
  <2>3. ObjTypeOK' /\ ProcTypeOK' /\ faults' \in 0..MaxFaults
    BY <1>0, <2>1 DEF WorkloadAttachesVG, PrismFault, PrismStep, TypeOK
  <2>4. QED BY <2>2, <2>3 DEF TypeOK
<1>28. CASE UNCHANGED vars
  BY <1>0, <1>28 DEF vars, TypeOK
<1>29. QED
  BY <1>2, <1>3, <1>4, <1>5, <1>6, <1>7, <1>8, <1>9, <1>10, <1>11, <1>12, <1>13,
     <1>14, <1>15, <1>16, <1>17, <1>18, <1>19, <1>20, <1>22, <1>23, <1>24, <1>25,
     <1>26, <1>27, <1>28, <1>14a DEF Next, Reconcile, Environment

\* Every variable keeps its type, for every set of VMs and keys and every bound
\* (the controller, the API server and Prism together, NutanixMachineReconciler).
THEOREM TypeCorrect == Spec => []TypeOK
<1>1. QED BY InitType, NextType, PTL DEF Spec
-----------------------------------------------------------------------------
(* What only grows, and what every step leaves of the stored object.       *)

\* The history and the count of faults only grow, the bootstrap data stays, and a
\* machine keeps its template.
LEMMA HistoryStep ==
    ASSUME TypeOK, [Next]_vars
    PROVE  /\ lapses \subseteq lapses'
           /\ machine'.profile = machine.profile
           /\ machine.bootstrap => machine'.bootstrap
           /\ faults' = 0 => faults = 0
<1>0. faults \in Nat /\ machine \in [bootstrap: BOOLEAN, profile: Profiles,
                                   prov: VMs \cup {None}, sys: VMs \cup {None}]
  BY DEF TypeOK, ObjTypeOK
<1>1. CASE UNCHANGED <<machine, faults>> /\ lapses \subseteq lapses'
  BY <1>1
<1>2. CASE UNCHANGED <<machine, lapses>> /\ (faults' = faults \/ Fault)
  BY <1>0, <1>2 DEF Fault
<1>3. CASE StartDelete \/ StartNormal \/ StartReady \/ UserDeletes
  <2>1. UNCHANGED <<machine, faults>> /\ lapses \subseteq lapses'
    BY <1>3 DEF StartDelete, StartNormal, StartReady, Begin, UserDeletes
  <2>2. QED BY <1>1, <2>1
<1>4. CASE \/ FindByUUID \/ FindByName \/ WaitForVM \/ RunningVM \/ Refetch \/ NilVMPanics
           \/ Finish \/ DeleteLookup \/ DeleteCheckTasks \/ CacheSync
  <2>1. UNCHANGED <<machine, lapses, faults>>
    BY <1>4 DEF FindByUUID, FindByName, WaitForVM, RunningVM, Refetch, NilVMPanics, Finish,
       DeleteLookup, DeleteCheckTasks, CacheSync, objVars
  <2>2. QED BY <1>1, <2>1
<1>5. CASE FindFails \/ CreateRejected \/ WaitFails \/ PowerOnFails \/ FinishFails
           \/ DeleteFails
  <2>1. UNCHANGED <<machine, lapses>> /\ Fault
    BY <1>5 DEF FindFails, CreateRejected, WaitFails, PowerOnFails, FinishFails,
       DeleteFails, CallFails, objVars
  <2>2. QED BY <1>2, <2>1
<1>6. CASE \/ Mint \/ MintFails \/ Create \/ RecordSpec \/ RecordStatus \/ PowerOnVM
           \/ SyncVmUUID \/ DeleteAct \/ DeferSpec \/ DeferStatus \/ Crash
  <2>1. UNCHANGED <<machine, lapses>> /\ (faults' = faults \/ Fault)
    BY <1>6 DEF Mint, MintFails, Create, RecordSpec, RecordStatus, PowerOnVM, SyncVmUUID,
       DeleteAct, DeferSpec, DeferStatus, Crash, objVars, Done, Lost, NotDone
  <2>2. QED BY <1>2, <2>1
<1>7. CASE BootstrapReady \/ MachineTakesProviderID \/ NodeRegisters
  BY <1>0, <1>7 DEF BootstrapReady, MachineTakesProviderID, NodeRegisters
<1>8. CASE \E v \in VMs : WorkloadAttachesVG(v) \/ PrismFault(v) \/ PrismStep(v)
  <2>1. UNCHANGED <<machine, lapses>> /\ (faults' = faults \/ Fault)
    BY <1>8 DEF WorkloadAttachesVG, PrismFault, PrismStep, objVars
  <2>2. QED BY <1>2, <2>1
<1>9. CASE UNCHANGED vars
  BY <1>1, <1>9 DEF vars, objVars
<1>10. QED
  BY <1>3, <1>4, <1>5, <1>6, <1>7, <1>8, <1>9 DEF Next, Reconcile, Environment

-----------------------------------------------------------------------------
(* One VM, one key: on the path that sends a request id, as long as no     *)
(* pass began with an out-of-date one.                                     *)

Keyed == ~machine.profile /\ "key" \notin lapses

\* The parts of KeyInv about Prism and the store, and about the reconcile.
KeyStored ==
    /\ \A k \in ReqIDs : byKey[k] # None => nm.req = k
    /\ \A v \in VMs : vmState[v] # "none" => \E k \in ReqIDs : byKey[k] = v
    /\ \A v \in VMs : tasks[v] # {} => Exists(v)

KeyInHand ==
    /\ pc = "find" => mem.req = nm.req /\ base.req = nm.req
    /\ pc = "mint" => mem.req = None /\ nm.req = None /\ base.req = None
    /\ pc = "create" => mem.req = nm.req /\ nm.req # None
    /\ mem.req = base.req \/ mem.req = nm.req

\* KeyInv is its two parts.
LEMMA KeySplit == KeyInv <=> KeyStored /\ KeyInHand
BY DEF KeyInv, KeyStored, KeyInHand

\* No key is bound or stored initially.
LEMMA KeyInit == Init => KeyInv
<1> SUFFICES ASSUME Init PROVE KeyInv
  OBVIOUS
<1>1. /\ \A k \in ReqIDs : byKey[k] = None
      /\ \A v \in VMs : vmState[v] = "none" /\ tasks[v] = {}
  BY DEF Init, PrismInit
<1>2. pc = "idle" /\ mem = base
  BY DEF Init
<1>3. QED BY <1>1, <1>2 DEF KeyInv

\* The stored part only depends on Prism and on the stored key.
LEMMA KeyStoredUnchanged ==
    ASSUME KeyStored, UNCHANGED prismVars, nm'.req = nm.req
    PROVE  KeyStored'
BY DEF KeyStored, prismVars, Exists

\* The calls and steps of Prism keep every VM bound to the key it was made for.
LEMMA KeyStoredPrism ==
    ASSUME PrismTypeOK, KeyStored, nm'.req = nm.req, NEW v \in VMs,
           \/ PrismTask(v) \/ IndexCatchesUp(v) \/ CreateFails(v)
           \/ OperatorDestroys(v) \/ AttachVG(v) \/ PowerOn(v)
           \/ \E t \in {"detach", "delete"} : StartTask(v, t)
           \/ nm.req \in ReqIDs /\ CreateWithKey(nm.req, v)
    PROVE  KeyStored'
<1>1. CASE CreateDone(v)
  BY <1>1 DEF CreateDone, KeyStored, PrismTypeOK, Exists
<1>2. CASE DetachDone(v)
  BY <1>2 DEF DetachDone, KeyStored, PrismTypeOK, Exists
<1>3. CASE DeleteDone(v) \/ OperatorDestroys(v)
  <2>1. vmState[v] # "none" /\ vmState' = [vmState EXCEPT ![v] = "gone"]
    BY <1>3 DEF DeleteDone, OperatorDestroys, KeyStored, Exists
  <2>2. QED BY <1>3, <2>1 DEF DeleteDone, OperatorDestroys, KeyStored, PrismTypeOK,
            Exists
<1>4. CASE IndexCatchesUp(v) \/ AttachVG(v)
  BY <1>4 DEF IndexCatchesUp, AttachVG, KeyStored, Exists
<1>5. CASE CreateFails(v)
  BY <1>5 DEF CreateFails, KeyStored, PrismTypeOK, Exists
<1>6. CASE PowerOn(v)
  BY <1>6 DEF PowerOn, KeyStored, PrismTypeOK, Exists
<1>7. CASE \E t \in {"detach", "delete"} : StartTask(v, t)
  BY <1>7 DEF StartTask, KeyStored, PrismTypeOK, Exists
<1>8. CASE nm.req \in ReqIDs /\ CreateWithKey(nm.req, v)
  <2>1. byKey'[nm.req] = v
    BY <1>8 DEF CreateWithKey, PrismTypeOK
  <2>2. \A k \in ReqIDs : k # nm.req => byKey'[k] = byKey[k]
    BY <1>8 DEF CreateWithKey, PrismTypeOK
  <2>3. \A w \in VMs : w # v => vmState'[w] = vmState[w]
    BY <1>8 DEF CreateWithKey, PrismTypeOK
  <2>4. byKey[nm.req] \in {v, None} /\ tasks' = tasks
    BY <1>8 DEF CreateWithKey
  <2>5. vmState'[v] = vmState[v] \/ vmState[v] = "none"
    BY <1>8 DEF CreateWithKey
  <2>6. \A k \in ReqIDs : byKey'[k] # None => nm'.req = k
    BY <2>2 DEF KeyStored
  <2>7. \A w \in VMs : vmState'[w] # "none" => \E k \in ReqIDs : byKey'[k] = w
    BY <1>8, <2>1, <2>2, <2>3, <2>4 DEF KeyStored
  <2>8. \A w \in VMs : tasks'[w] # {} => Exists(w)'
    BY <2>3, <2>4, <2>5 DEF KeyStored, Exists
  <2>9. QED BY <2>6, <2>7, <2>8 DEF KeyStored
<1>9. QED BY <1>1, <1>2, <1>3, <1>4, <1>5, <1>6, <1>7, <1>8 DEF PrismTask

\* Returning an error leaves the keys in memory alone.
LEMMA ReturnErrKeys ==
    ASSUME ProcTypeOK, NEW t, ReturnErr(t)
    PROVE  mem'.req = mem.req /\ base' = base /\ pc' = "deferSpec"
BY DEF ReturnErr, ProcTypeOK, NM

\* A step that leaves the keys alone and does not move to a step that uses one.
LEMMA KeyInHandKept ==
    ASSUME KeyInHand, pc' \notin {"find", "mint", "create"},
           mem'.req = mem.req, base'.req = base.req, nm'.req = nm.req
    PROVE  KeyInHand'
BY DEF KeyInHand

\* Every step keeps KeyInv, as long as no pass begins with an out-of-date key.
LEMMA KeyStep ==
    ASSUME TypeOK, KeyInv, Keyed', [Next]_vars
    PROVE  KeyInv'
<1>0. /\ PrismTypeOK /\ ObjTypeOK /\ ProcTypeOK /\ nm \in NM /\ mem \in NM
      /\ base \in NM /\ Read \in NM /\ Before \in NM /\ machine.profile = FALSE
      /\ KeyStored /\ KeyInHand
  <2>1. machine.profile \in BOOLEAN
    BY DEF TypeOK, ObjTypeOK
  <2>2. QED
    BY <2>1, HistoryStep, KeySplit, BeforeType, ReadType DEF TypeOK, ObjTypeOK, ProcTypeOK,
       Keyed
<1> SUFFICES KeyStored' /\ KeyInHand'
  BY KeySplit, PTL
<1>1. ASSUME NEW l \in PCs, NEW m \in NM, NEW v, Begin(l, m, v), m.req = Read.req,
             l \notin {"mint", "create"}
      PROVE  KeyStored' /\ KeyInHand'
  <2>1. nm' = nm /\ base' = Read /\ mem' = m /\ pc' = l /\ UNCHANGED prismVars
    BY <1>0, <1>1 DEF Begin
  <2>2. "key" \notin Outdated
    BY <1>1 DEF Begin, Keyed
  <2>3. Read.req = nm.req
    BY <2>2 DEF Outdated, Lapses
  <2>4. QED BY <1>0, <1>1, <2>1, <2>3, KeyStoredUnchanged DEF KeyInHand
<1>2. CASE StartDelete
  BY <1>0, <1>1, <1>2 DEF StartDelete, PCs
<1>3. CASE StartNormal \/ StartReady
  <2>1. /\ [Read EXCEPT !.fin = TRUE] \in NM
        /\ [Read EXCEPT !.fin = TRUE].req = Read.req
    BY <1>0 DEF NM
  <2>2. QED BY <2>1, <1>0, <1>1, <1>3 DEF StartNormal, StartReady, PCs
\* Steps that only read, or that write something other than a key.
<1>4. ASSUME UNCHANGED prismVars, nm'.req = nm.req, base' = base, mem'.req = mem.req,
             pc' \notin {"find", "mint", "create"}
      PROVE  KeyStored' /\ KeyInHand'
  BY <1>0, <1>4, KeyStoredUnchanged, KeyInHandKept
<1>5. ASSUME NEW l, NEW t \in BOOLEAN, CallFails(l, t)
      PROVE  KeyStored' /\ KeyInHand'
  BY <1>0, <1>4, <1>5, ReturnErrKeys DEF CallFails, objVars
<1>6. CASE FindByUUID
  BY <1>0, <1>4, <1>6, ReturnErrKeys DEF FindByUUID, UseVM, objVars
<1>7. CASE FindByName
  <2>1. UNCHANGED prismVars /\ nm' = nm /\ base' = base /\ mem'.req = mem.req
        /\ mem.req = nm.req /\ base.req = nm.req
    BY <1>0, <1>7, ReturnErrKeys DEF FindByName, UseVM, objVars, Goto, KeyInHand
  <2>2. \/ pc' \notin {"find", "mint", "create"}
        \/ pc' = IF mem.req = None THEN "mint" ELSE "create"
    BY <1>0, <1>7, ReturnErrKeys DEF FindByName, UseVM, Goto
  <2>3. QED BY <1>0, <2>1, <2>2, KeyStoredUnchanged DEF KeyInHand
<1>8. CASE FindFails \/ CreateRejected \/ WaitFails \/ PowerOnFails \/ FinishFails
           \/ DeleteFails
  BY <1>5, <1>8 DEF FindFails, CreateRejected, WaitFails, PowerOnFails,
     FinishFails, DeleteFails
<1>9. CASE Mint
  <2>1. PICK k \in ReqIDs :
           LET stored == SpecPatch(nm, mem, [mem EXCEPT !.req = k])
           IN \/ /\ nm.live /\ Done
                 /\ nm' = stored
                 /\ mem' = [mem EXCEPT !.req = k]
                 /\ pc' = "create"
                 /\ UNCHANGED <<base, found, seenVGs, callErr>>
              \/ /\ nm.live /\ Lost
                 /\ nm' = stored
                 /\ ReturnErr(FALSE)
    BY <1>9 DEF Mint
  <2>2. mem.req = None /\ nm.req = None /\ UNCHANGED prismVars
    BY <1>0, <1>9 DEF Mint, KeyInHand
  <2>3. [mem EXCEPT !.req = k] \in NM /\ [mem EXCEPT !.req = k].req = k
    BY <1>0 DEF NM
  <2>4. KeyStored'
    BY <1>0, <2>2 DEF KeyStored, prismVars, Exists
  <2>5. CASE /\ nm.live
             /\ nm' = SpecPatch(nm, mem, [mem EXCEPT !.req = k])
             /\ mem' = [mem EXCEPT !.req = k]
             /\ pc' = "create"
    <3>1. nm'.req = k
      BY <1>0, <2>2, <2>3, <2>5 DEF SpecPatch, NM
    <3>2. mem'.req = k /\ k # None
      BY <2>3, <2>5
    <3>3. QED BY <2>2, <2>4, <2>5, <3>1, <3>2 DEF KeyInHand
  <2>6. CASE ReturnErr(FALSE)
    <3>1. mem'.req = None /\ base' = base /\ pc' = "deferSpec"
      BY <1>0, <2>2, <2>6, ReturnErrKeys
    <3>2. base.req = None
      BY <1>0, <1>9 DEF KeyInHand, Mint
    <3>3. QED BY <2>2, <2>4, <3>1, <3>2 DEF KeyInHand
  <2>7. QED BY <2>1, <2>5, <2>6
<1>10. CASE MintFails
  BY <1>0, <1>4, <1>10, ReturnErrKeys DEF MintFails, objVars
<1>11. CASE Create
  <2>1. PICK v \in VMs :
           /\ Submit(v)
           /\ \/ /\ Done
                 /\ found' = v /\ pc' = "wait"
                 /\ UNCHANGED <<mem, base, seenVGs, callErr>>
              \/ Lost /\ ReturnErr(FALSE)
    BY <1>11 DEF Create
  <2>2. nm' = nm /\ nm.req \in ReqIDs /\ CreateWithKey(nm.req, v)
    BY <1>0, <1>11, <2>1 DEF Create, KeyInHand, Submit, NM, objVars
  <2>3. KeyStored'
    BY <1>0, <2>2, KeyStoredPrism
  <2>4. KeyInHand'
    BY <1>0, <2>1, <2>2, ReturnErrKeys, KeyInHandKept
  <2>5. QED BY <2>2, <2>3, <2>4
<1>12. CASE WaitForVM
  <2>1. mem'.req = mem.req /\ base' = base /\ pc' \notin {"find", "mint", "create"}
    BY <1>0, <1>12, ReturnErrKeys DEF WaitForVM, NM
  <2>2. QED BY <1>4, <1>12, <2>1 DEF WaitForVM, objVars
<1>13. CASE RecordSpec
  <2>1. Before.req = mem.req
    BY <1>0 DEF Before, NM
  <2>2. nm'.req = nm.req
    BY <1>0, <1>13, <2>1, SpecPatchType DEF RecordSpec
  <2>3. QED BY <1>4, <1>13, <2>2 DEF RecordSpec
<1>14. CASE RecordStatus
  <2>1. nm'.req = nm.req
    BY <1>0, <1>14, StatusPatchType DEF RecordStatus
  <2>2. pc' \notin {"find", "mint", "create"}
    BY <1>14 DEF RecordStatus
  <2>3. QED BY <1>4, <1>14, <2>1, <2>2 DEF RecordStatus
<1>15. CASE PowerOnVM
  <2>1. /\ nm' = nm /\ base' = base /\ mem'.req = mem.req
        /\ pc' \notin {"find", "mint", "create"}
    BY <1>0, <1>15, ReturnErrKeys DEF PowerOnVM, Goto, objVars
  <2>2. KeyInHand'
    BY <1>0, <2>1, KeyInHandKept
  <2>3. CASE UNCHANGED prismVars
    BY <1>0, <2>1, <2>2, <2>3, KeyStoredUnchanged
  <2>4. CASE PowerOn(found) /\ found \in VMs
    BY <1>0, <2>1, <2>2, <2>4, KeyStoredPrism
  <2>5. CASE PowerOn(found) /\ found = None
    <3>1. vmState' = vmState /\ UNCHANGED <<tasks, byKey>>
      BY <1>0, <2>5 DEF PowerOn, PrismTypeOK
    <3>2. KeyStored'
      BY <1>0, <2>1, <3>1 DEF KeyStored, Exists
    <3>3. QED BY <2>1, <2>2, <3>2
  <2>6. QED BY <1>0, <1>15, <2>3, <2>4, <2>5 DEF PowerOnVM, ProcTypeOK
<1>15a. CASE RunningVM \/ Refetch \/ NilVMPanics
  <2>1. mem'.req = mem.req /\ base' = base /\ pc' \notin {"find", "mint", "create"}
    BY <1>0, <1>15a, ReturnErrKeys DEF RunningVM, Refetch, NilVMPanics, Goto
  <2>2. QED BY <1>4, <1>15a, <2>1 DEF RunningVM, Refetch, NilVMPanics, objVars
<1>16. CASE SyncVmUUID
  <2>1. SyncTarget \in VMs \cup {None}
    BY <1>0 DEF SyncTarget, ObjTypeOK, ProcTypeOK
  <2>2. mem' \in NM /\ mem'.req = mem.req
    BY <1>0, <1>16, <2>1 DEF SyncVmUUID, NM
  <2>3. nm'.req = nm.req
    BY <1>0, <1>16, <2>2, StatusPatchType DEF SyncVmUUID
  <2>4. pc' \notin {"find", "mint", "create"}
    BY <1>16 DEF SyncVmUUID
  <2>5. QED BY <1>4, <1>16, <2>2, <2>3, <2>4 DEF SyncVmUUID
<1>17. CASE Finish
  BY <1>0, <1>4, <1>17 DEF Finish, NM, objVars
<1>18. CASE DeleteLookup
  <2>1. mem'.req = mem.req /\ base' = base /\ pc' \notin {"find", "mint", "create"}
    BY <1>0, <1>18 DEF DeleteLookup, NM
  <2>2. QED BY <1>4, <1>18, <2>1 DEF DeleteLookup, objVars
<1>19. CASE DeleteCheckTasks
  BY <1>4, <1>19 DEF DeleteCheckTasks, Goto, objVars
<1>20. CASE DeleteAct
  <2>1. /\ nm' = nm /\ base' = base /\ mem'.req = mem.req
        /\ pc' \notin {"find", "mint", "create"}
    BY <1>0, <1>20, ReturnErrKeys DEF DeleteAct, objVars
  <2>2. KeyInHand'
    BY <1>0, <2>1, KeyInHandKept
  <2>3. KeyStored'
    <3>1. CASE found \in VMs
      BY <1>0, <1>20, <2>1, <3>1, KeyStoredPrism DEF DeleteAct
    <3>2. CASE found = None
      BY <1>0, <1>20, <2>1, <3>2 DEF DeleteAct, StartTask, KeyStored, PrismTypeOK,
         Exists
    <3>3. QED BY <1>0, <3>1, <3>2 DEF ProcTypeOK
  <2>4. QED BY <2>1, <2>2, <2>3
<1>21. CASE DeferSpec
  <2>1. nm'.req = nm.req
    BY <1>0, <1>21, SpecPatchType DEF DeferSpec, KeyInHand
  <2>2. QED BY <1>4, <1>21, <2>1 DEF DeferSpec, Goto
<1>22. ASSUME Rest, UNCHANGED prismVars, nm'.req = nm.req
       PROVE  KeyStored' /\ KeyInHand'
  BY <1>0, <1>22, KeyStoredUnchanged DEF Rest, KeyInHand
<1>23. CASE DeferStatus
  <2>1. nm'.req = nm.req
    BY <1>0, <1>23, StatusPatchType DEF DeferStatus
  <2>2. QED BY <1>22, <1>23, <2>1 DEF DeferStatus
<1>24. CASE Crash
  BY <1>22, <1>24 DEF Crash
\* Steps of the world around: the reconcile and its keys do not move.
<1>25. ASSUME UNCHANGED procVars, nm'.req = nm.req PROVE KeyInHand'
  BY <1>0, <1>25 DEF procVars, KeyInHand
<1>26. CASE UserDeletes
  <2>1. nm'.req = nm.req
    BY <1>0, <1>26 DEF UserDeletes, NM
  <2>2. QED BY <1>0, <1>25, <1>26, <2>1, KeyStoredUnchanged DEF UserDeletes
<1>27. CASE CacheSync \/ BootstrapReady \/ MachineTakesProviderID \/ NodeRegisters
  BY <1>0, <1>25, <1>27, KeyStoredUnchanged DEF CacheSync, BootstrapReady,
     MachineTakesProviderID, NodeRegisters
<1>28. CASE \E v \in VMs : WorkloadAttachesVG(v) \/ PrismFault(v) \/ PrismStep(v)
  <2>1. PICK v \in VMs : WorkloadAttachesVG(v) \/ PrismFault(v) \/ PrismStep(v)
    BY <1>28
  <2>2. nm' = nm /\ UNCHANGED procVars
    BY <2>1 DEF WorkloadAttachesVG, PrismFault, PrismStep, objVars
  <2>3. KeyStored'
    BY <1>0, <2>1, <2>2, KeyStoredPrism DEF WorkloadAttachesVG, PrismFault, PrismStep
  <2>4. QED BY <1>25, <2>2, <2>3
<1>29. CASE UNCHANGED vars
  BY <1>0, <1>25, <1>29, KeyStoredUnchanged DEF vars, objVars
<1>30. QED
  BY <1>2, <1>3, <1>6, <1>7, <1>8, <1>9, <1>10, <1>11, <1>12, <1>13, <1>14, <1>15,
     <1>16, <1>17, <1>18, <1>19, <1>20, <1>21, <1>23, <1>24, <1>26, <1>27, <1>28,
     <1>29, <1>15a DEF Next, Reconcile, Environment

\* Every VM is bound to the one key in use, so there is one VM.
LEMMA OneKeyOneVM ==
    KeyInv => \A v, w \in VMs : vmState[v] # "none" /\ vmState[w] # "none" => v = w
BY DEF KeyInv

-----------------------------------------------------------------------------
(* What a reconcile holds when it uses it, and volumes before VMs: both for *)
(* every configuration, stale reads and VM profiles included.              *)

\* Where returning an error leaves the reconcile.
LEMMA ReturnErrPlace ==
    ASSUME NEW t, ReturnErr(t)
    PROVE  pc' = "deferSpec" /\ UNCHANGED <<base, found, seenVGs>>
BY DEF ReturnErr

\* No step reaches a dereference with nothing to dereference.
LEMMA NilStep == TypeOK /\ NoNilDereference /\ [Next]_vars => NoNilDereference'
<1> SUFFICES ASSUME TypeOK, NoNilDereference, [Next]_vars PROVE NoNilDereference'
  OBVIOUS
<1>0. mem \in NM /\ nm \in NM /\ found \in VMs \cup {None}
  BY DEF TypeOK, ObjTypeOK, ProcTypeOK
<1>1. ASSUME pc' \notin NeedsVM, pc' # "create" PROVE NoNilDereference'
  BY <1>1 DEF NoNilDereference
<1>2. ASSUME pc' = "deferSpec" PROVE NoNilDereference'
  BY <1>1, <1>2 DEF NeedsVM
<1>3. CASE StartDelete \/ StartNormal \/ StartReady
  <2>1. pc' \in {"delFind", "find", "deferSpec", "sync"}
    BY <1>3 DEF StartDelete, StartNormal, StartReady, Begin
  <2>2. QED BY <1>1, <2>1 DEF NeedsVM
<1>4. CASE FindByUUID
  BY <1>0, <1>2, <1>4, ReturnErrPlace DEF FindByUUID, UseVM, NoNilDereference, NeedsVM
<1>5. CASE FindByName
  <2>1. CASE ReturnErr(FALSE)
    BY <1>2, <2>1, ReturnErrPlace
  <2>2. CASE \E v \in VMs : UseVM(v)
    BY <2>2 DEF UseVM, NoNilDereference, NeedsVM
  <2>3. CASE Goto(IF mem.req = None THEN "mint" ELSE "create")
    BY <2>3 DEF Goto, NoNilDereference, NeedsVM
  <2>4. QED BY <1>5, <2>1, <2>2, <2>3 DEF FindByName
<1>6. ASSUME NEW l, NEW t, CallFails(l, t) PROVE NoNilDereference'
  BY <1>2, <1>6, ReturnErrPlace DEF CallFails
<1>7. CASE FindFails \/ CreateRejected \/ WaitFails \/ PowerOnFails \/ FinishFails
           \/ DeleteFails
  BY <1>6, <1>7 DEF FindFails, CreateRejected, WaitFails, PowerOnFails, FinishFails,
     DeleteFails
<1>8. CASE Mint
  <2>1. PICK k \in ReqIDs :
           \/ mem' = [mem EXCEPT !.req = k] /\ pc' = "create"
           \/ ReturnErr(FALSE)
    BY <1>8 DEF Mint
  <2>2. [mem EXCEPT !.req = k].req = k /\ k # None
    BY <1>0 DEF NM
  <2>3. QED BY <1>2, <2>1, <2>2, ReturnErrPlace DEF NoNilDereference, NeedsVM
<1>9. CASE MintFails
  BY <1>2, <1>9, ReturnErrPlace DEF MintFails
<1>10. CASE Create
  <2>1. (\E v \in VMs : found' = v /\ pc' = "wait") \/ ReturnErr(FALSE)
    BY <1>10 DEF Create
  <2>2. QED BY <1>2, <2>1, ReturnErrPlace DEF NoNilDereference, NeedsVM
<1>11. CASE WaitForVM
  <2>1. \/ \E t \in BOOLEAN : ReturnErr(t)
        \/ pc' \in {"power", "recordSpec"} /\ found' = found
    BY <1>11 DEF WaitForVM
  <2>2. found # None
    BY <1>11 DEF WaitForVM, NoNilDereference, NeedsVM
  <2>3. QED BY <1>2, <2>1, <2>2, ReturnErrPlace DEF NoNilDereference
<1>12. CASE RecordSpec \/ RecordStatus
  BY <1>12 DEF RecordSpec, RecordStatus, NoNilDereference, NeedsVM
<1>13. CASE RunningVM \/ NilVMPanics
  BY <1>2, <1>13, ReturnErrPlace DEF RunningVM, NilVMPanics, Goto, NoNilDereference,
     NeedsVM
<1>14. CASE PowerOnVM
  BY <1>2, <1>14, ReturnErrPlace DEF PowerOnVM, Goto, NoNilDereference, NeedsVM
<1>15. CASE Refetch \/ SyncVmUUID \/ Finish
  BY <1>15 DEF Refetch, SyncVmUUID, Finish, NoNilDereference, NeedsVM
<1>16. CASE DeleteLookup
  BY <1>0, <1>16 DEF DeleteLookup, NoNilDereference, NeedsVM
<1>17. CASE DeleteCheckTasks \/ DeleteAct
  BY <1>2, <1>17, ReturnErrPlace DEF DeleteCheckTasks, DeleteAct, Goto,
     NoNilDereference, NeedsVM
<1>18. CASE DeferSpec \/ DeferStatus \/ Crash
  BY <1>1, <1>18 DEF DeferSpec, DeferStatus, Crash, Rest, Goto, NeedsVM
<1>19. CASE UNCHANGED <<pc, found, mem>>
  BY <1>19 DEF NoNilDereference
<1>20. CASE UNCHANGED procVars
  BY <1>19, <1>20 DEF procVars
<1>21. CASE Environment \/ CacheSync \/ \E v \in VMs : PrismStep(v)
  BY <1>20, <1>21 DEF Environment, UserDeletes, BootstrapReady,
     MachineTakesProviderID, NodeRegisters, WorkloadAttachesVG, PrismFault, CacheSync,
     PrismStep
<1>22. CASE UNCHANGED vars
  BY <1>20, <1>22 DEF vars
<1>23. QED
  BY <1>3, <1>4, <1>5, <1>7, <1>8, <1>9, <1>10, <1>11, <1>12, <1>13, <1>14, <1>15,
     <1>16, <1>17, <1>18, <1>21, <1>22 DEF Next, Reconcile

\* No step uses a VM or a key initially.
LEMMA NilInit == Init => NoNilDereference
BY DEF Init, NoNilDereference, NeedsVM

\* Why no volume group is lost: a deletion, once seen, stays; only a deletion looks at
\* the groups to decide, nobody attaches one during it, so the count read is an upper
\* bound; and a delete task is only sent when that bound is zero.
DetachInv ==
    /\ cache.del => nm.del
    /\ pc \in {"delFind", "delTasks", "delAct"} => nm.del
    /\ pc \in {"delTasks", "delAct"} => found \in VMs /\ vgs[found] =< seenVGs
    /\ \A v \in VMs : "delete" \in tasks[v] => nm.del /\ vgs[v] = 0

\* The cache only ever takes over the stored object, which changes by a patch or because
\* the user deletes it.
LEMMA ObjMoves ==
    ASSUME TypeOK, [Next]_vars
    PROVE  /\ cache' \in {cache, nm}
           /\ \/ nm' = nm
              \/ \E b, a \in NM : \/ nm' = SpecPatch(nm, b, a)
                                 \/ nm' = StatusPatch(nm, b, a)
              \/ UserDeletes
<1>0. nm \in NM /\ mem \in NM /\ base \in NM /\ Before \in NM /\ TypeOK'
  BY BeforeType, NextType DEF TypeOK, ObjTypeOK, ProcTypeOK
<1>1. CASE Mint
  <2>1. PICK k \in ReqIDs : nm' = SpecPatch(nm, mem, [mem EXCEPT !.req = k])
    BY <1>1 DEF Mint
  <2>2. [mem EXCEPT !.req = k] \in NM
    BY <1>0 DEF NM
  <2>3. QED BY <1>0, <1>1, <2>1, <2>2 DEF Mint
<1>2. CASE RecordSpec \/ DeferSpec \/ RecordStatus \/ DeferStatus
  BY <1>0, <1>2 DEF RecordSpec, DeferSpec, RecordStatus, DeferStatus
<1>3. CASE SyncVmUUID
  <2>1. mem' \in NM
    BY <1>0 DEF TypeOK, ProcTypeOK
  <2>2. nm' = nm \/ nm' = StatusPatch(nm, mem, mem')
    BY <1>3 DEF SyncVmUUID
  <2>3. cache' = cache
    BY <1>3 DEF SyncVmUUID
  <2>4. QED BY <1>0, <2>1, <2>2, <2>3
<1>5. CASE UserDeletes
  BY <1>5 DEF UserDeletes
<1>6. CASE nm' = nm /\ cache' \in {cache, nm}
  BY <1>6
<1>7. CASE StartDelete \/ StartNormal \/ StartReady
  BY <1>6, <1>7 DEF StartDelete, StartNormal, StartReady, Begin
<1>8. CASE FindFails \/ CreateRejected \/ WaitFails \/ PowerOnFails \/ FinishFails
           \/ DeleteFails
  BY <1>6, <1>8 DEF FindFails, CreateRejected, WaitFails, PowerOnFails, FinishFails,
     DeleteFails, CallFails, objVars
<1>9. CASE FindByUUID \/ FindByName \/ MintFails \/ Create \/ WaitForVM \/ RunningVM
           \/ PowerOnVM \/ Refetch \/ NilVMPanics \/ Finish \/ DeleteLookup
           \/ DeleteCheckTasks \/ DeleteAct
  BY <1>6, <1>9 DEF FindByUUID, FindByName, MintFails, Create, WaitForVM, RunningVM,
     PowerOnVM, Refetch, NilVMPanics, Finish, DeleteLookup, DeleteCheckTasks,
     DeleteAct, objVars
<1>10. CASE Crash \/ CacheSync \/ \E v \in VMs : PrismStep(v)
  BY <1>6, <1>10 DEF Crash, CacheSync, PrismStep, objVars
<1>11. CASE Environment /\ ~UserDeletes
  BY <1>6, <1>11 DEF Environment, BootstrapReady, MachineTakesProviderID,
     NodeRegisters, WorkloadAttachesVG, PrismFault, objVars
<1>12. CASE UNCHANGED vars
  BY <1>6, <1>12 DEF vars, objVars
<1>13. QED
  BY <1>1, <1>2, <1>3, <1>5, <1>7, <1>8, <1>9, <1>10, <1>11, <1>12
     DEF Next, Reconcile

\* A deletion timestamp in the API server is never taken back.
LEMMA DelStays == TypeOK /\ [Next]_vars /\ nm.del => nm'.del
<1> SUFFICES ASSUME TypeOK, [Next]_vars, nm.del PROVE nm'.del
  OBVIOUS
<1>0. nm \in NM
  BY DEF TypeOK, ObjTypeOK
<1>1. ASSUME NEW b \in NM, NEW a \in NM, nm' = SpecPatch(nm, b, a) PROVE nm'.del
  BY <1>0, <1>1, SpecPatchType
<1>2. ASSUME NEW b \in NM, NEW a \in NM, nm' = StatusPatch(nm, b, a) PROVE nm'.del
  BY <1>0, <1>2 DEF StatusPatch, NM
<1>3. CASE UserDeletes
  BY <1>3 DEF UserDeletes
<1>4. QED BY <1>1, <1>2, <1>3, ObjMoves

\* A step of the VM service, or a call other than the start of a task, takes no volume
\* group away from a VM that stays, gives none, and starts no deletion.
LEMMA PrismDetach ==
    ASSUME PrismTypeOK, NEW v,
           \/ v \in VMs /\ PrismTask(v)
           \/ v \in VMs /\ IndexCatchesUp(v)
           \/ v \in VMs /\ CreateFails(v)
           \/ v \in VMs /\ OperatorDestroys(v)
           \/ PowerOn(v)
           \/ v \in VMs /\ CreateWithoutKey(v)
           \/ \E k : CreateWithKey(k, v)
           \/ UNCHANGED prismVars
    PROVE  \A w \in VMs : /\ vgs'[w] =< vgs[w]
                          /\ vgs[w] = 0 => vgs'[w] = 0
                          /\ "delete" \in tasks'[w] => "delete" \in tasks[w]
<1>1. CASE vgs' = vgs /\ tasks' = tasks
  BY <1>1 DEF PrismTypeOK
<1>2. CASE v \in VMs /\ DetachDone(v)
  <2>1. vgs[v] \in 0..MaxVGs
    BY <1>2 DEF PrismTypeOK
  <2>2. \A w \in VMs : vgs'[w] =< vgs[w] /\ (vgs[w] = 0 => vgs'[w] = 0)
    BY <1>2, <2>1 DEF DetachDone, PrismTypeOK
  <2>3. \A w \in VMs : "delete" \in tasks'[w] => "delete" \in tasks[w]
    BY <1>2 DEF DetachDone, PrismTypeOK
  <2>4. QED BY <2>2, <2>3
<1>3. CASE v \in VMs /\ (DeleteDone(v) \/ OperatorDestroys(v))
  BY <1>3 DEF DeleteDone, OperatorDestroys, PrismTypeOK
<1>4. QED
  BY <1>1, <1>2, <1>3 DEF PrismTask, CreateDone, IndexCatchesUp, CreateFails, PowerOn,
     CreateWithoutKey, CreateWithKey, prismVars

\* No step breaks DetachInv.
LEMMA DetachStep == TypeOK /\ NoNilDereference /\ DetachInv /\ [Next]_vars => DetachInv'
<1> SUFFICES ASSUME TypeOK, NoNilDereference, DetachInv, [Next]_vars PROVE DetachInv'
  OBVIOUS
<1>0. /\ PrismTypeOK /\ nm \in NM /\ mem \in NM /\ found \in VMs \cup {None}
      /\ \A v \in VMs : vgs[v] \in 0..MaxVGs
      /\ seenVGs \in Int
  BY DEF TypeOK, ObjTypeOK, ProcTypeOK, PrismTypeOK
<1>d. nm.del => nm'.del
  BY DelStays
\* The volume groups do not grow, no deletion starts, and the reconcile is not about to
\* act on what it read, or it read it before.
<1>1. ASSUME \A w \in VMs : /\ vgs'[w] =< vgs[w]
                            /\ vgs[w] = 0 => vgs'[w] = 0
                            /\ "delete" \in tasks'[w] => "delete" \in tasks[w],
             cache'.del => cache.del \/ nm.del,
             \/ pc' \notin {"delFind", "delTasks", "delAct"}
             \/ pc' = "delFind" /\ nm.del
             \/ pc = "delTasks" /\ pc' = "delAct" /\ UNCHANGED <<found, seenVGs>>
             \/ UNCHANGED <<pc, found, seenVGs>>
      PROVE  DetachInv'
  <2>1. cache'.del => nm'.del
    BY <1>1, <1>d DEF DetachInv
  <2>2. pc' \in {"delFind", "delTasks", "delAct"} => nm'.del
    BY <1>1, <1>d DEF DetachInv
  <2>3. \A v \in VMs : "delete" \in tasks'[v] => nm'.del /\ vgs'[v] = 0
    BY <1>1, <1>d DEF DetachInv
  <2>4. ASSUME pc' \in {"delTasks", "delAct"}
        PROVE  found' \in VMs /\ vgs'[found'] =< seenVGs'
    <3>1. /\ pc \in {"delTasks", "delAct"} /\ UNCHANGED <<found, seenVGs>>
      BY <1>1, <2>4
    <3>2. found \in VMs /\ vgs[found] =< seenVGs
      BY <3>1 DEF DetachInv
    <3>3. vgs'[found] =< vgs[found] /\ vgs[found] \in Int
      BY <1>0, <1>1, <3>2
    <3>4. vgs[found] = 0 \/ vgs'[found] =< vgs[found]
      BY <3>3
    <3>5. PrismTypeOK'
      BY NextType DEF TypeOK
    <3>6. vgs'[found] \in Int
      BY <3>2, <3>5 DEF PrismTypeOK
    <3>7. QED BY <1>0, <3>1, <3>2, <3>3, <3>6
  <2>5. QED BY <2>1, <2>2, <2>3, <2>4 DEF DetachInv
<1>p. ASSUME UNCHANGED prismVars
      PROVE  \A w \in VMs : /\ vgs'[w] =< vgs[w]
                            /\ vgs[w] = 0 => vgs'[w] = 0
                            /\ "delete" \in tasks'[w] => "delete" \in tasks[w]
  BY <1>0, <1>p, PrismDetach
<1>2. CASE StartDelete
  <2>1. nm.del
    BY <1>2 DEF StartDelete, Read, DetachInv
  <2>2. UNCHANGED prismVars /\ cache' = cache /\ pc' = "delFind"
    BY <1>2 DEF StartDelete, Begin, objVars
  <2>3. QED BY <1>1, <1>p, <2>1, <2>2
\* Steps of a reconcile that do not touch Prism and are not on the way to a deletion.
<1>3. ASSUME UNCHANGED prismVars, cache' = cache,
             pc' \notin {"delFind", "delTasks", "delAct"}
      PROVE  DetachInv'
  BY <1>1, <1>3, <1>p
<1>4. CASE StartNormal \/ StartReady
  BY <1>3, <1>4 DEF StartNormal, StartReady, Begin, objVars
<1>5. CASE FindByUUID \/ FindByName \/ MintFails \/ WaitForVM \/ RunningVM \/ Refetch
           \/ NilVMPanics \/ Finish
  BY <1>3, <1>5, ReturnErrPlace DEF FindByUUID, FindByName, UseVM, Goto, MintFails,
     WaitForVM, RunningVM, Refetch, NilVMPanics, Finish, objVars
<1>6. CASE Mint \/ RecordSpec \/ RecordStatus \/ SyncVmUUID
  BY <1>3, <1>6, ReturnErrPlace DEF Mint, RecordSpec, RecordStatus, SyncVmUUID
<1>7. CASE FindFails \/ CreateRejected \/ WaitFails \/ PowerOnFails \/ FinishFails
           \/ DeleteFails
  BY <1>3, <1>7, ReturnErrPlace DEF FindFails, CreateRejected, WaitFails, PowerOnFails,
     FinishFails, DeleteFails, CallFails, objVars
<1>8. CASE Create
  <2>1. PICK v \in VMs : Submit(v) /\ (pc' = "wait" \/ ReturnErr(FALSE))
    BY <1>8 DEF Create
  <2>2. CreateWithoutKey(v) \/ CreateWithKey(mem.req, v)
    BY <2>1 DEF Submit
  <2>3. \A w \in VMs : /\ vgs'[w] =< vgs[w]
                       /\ vgs[w] = 0 => vgs'[w] = 0
                       /\ "delete" \in tasks'[w] => "delete" \in tasks[w]
    BY <1>0, <2>2, PrismDetach
  <2>4. cache' = cache /\ pc' \notin {"delFind", "delTasks", "delAct"}
    BY <1>8, <2>1, ReturnErrPlace DEF Create, objVars
  <2>5. QED BY <1>1, <2>3, <2>4
<1>9. CASE PowerOnVM
  <2>1. PowerOn(found) \/ UNCHANGED prismVars
    BY <1>9 DEF PowerOnVM
  <2>2. \A w \in VMs : /\ vgs'[w] =< vgs[w]
                       /\ vgs[w] = 0 => vgs'[w] = 0
                       /\ "delete" \in tasks'[w] => "delete" \in tasks[w]
    BY <1>0, <2>1, PrismDetach
  <2>3. cache' = cache /\ pc' \notin {"delFind", "delTasks", "delAct"}
    BY <1>9, ReturnErrPlace DEF PowerOnVM, Goto, objVars
  <2>4. QED BY <1>1, <2>2, <2>3
<1>10. CASE DeleteLookup
  <2>1. CASE pc' = "deferSpec"
    BY <1>3, <1>10, <2>1 DEF DeleteLookup, objVars
  <2>2. CASE /\ GetVMUUID(mem) # None
             /\ found' = GetVMUUID(mem) /\ seenVGs' = vgs[GetVMUUID(mem)]
             /\ pc' = "delTasks"
    <3>1. GetVMUUID(mem) \in VMs
      BY <2>2, GetVMUUIDType
    <3>2. nm.del /\ UNCHANGED prismVars /\ UNCHANGED objVars
      BY <1>10 DEF DeleteLookup, DetachInv
    <3>3. vgs'[found'] =< seenVGs'
      BY <1>0, <2>2, <3>1, <3>2 DEF prismVars
    <3>4. QED BY <2>2, <3>1, <3>2, <3>3 DEF DetachInv, objVars, prismVars
  <2>3. QED BY <1>10, <2>1, <2>2 DEF DeleteLookup
<1>11. CASE DeleteCheckTasks
  <2>1. UNCHANGED prismVars /\ cache' = cache /\ UNCHANGED <<found, seenVGs>>
        /\ pc = "delTasks" /\ pc' \in {"delAct", "deferSpec"}
    BY <1>11 DEF DeleteCheckTasks, Goto, objVars
  <2>2. QED BY <1>1, <1>p, <2>1
<1>12. CASE DeleteAct
  <2>1. /\ nm.del /\ found \in VMs /\ vgs[found] =< seenVGs
        /\ UNCHANGED <<nm, cache, vgs>> /\ pc' = "deferSpec"
    BY <1>12, ReturnErrPlace DEF DeleteAct, StartTask, objVars, DetachInv
  <2>2. ASSUME NEW v \in VMs, "delete" \in tasks'[v], "delete" \notin tasks[v]
        PROVE  v = found /\ seenVGs =< 0
    BY <1>0, <1>12, <2>1, <2>2 DEF DeleteAct, StartTask, PrismTypeOK
  <2>3. \A v \in VMs : "delete" \in tasks'[v] => vgs[v] = 0
    BY <1>0, <2>1, <2>2 DEF DetachInv
  <2>4. QED BY <2>1, <2>3 DEF DetachInv
<1>13. CASE DeferSpec \/ DeferStatus
  BY <1>3, <1>13 DEF DeferSpec, DeferStatus, Rest, Goto
<1>14. CASE Crash
  <2>1. UNCHANGED prismVars /\ cache' = nm /\ pc' = "idle"
    BY <1>14 DEF Crash, Rest
  <2>2. QED BY <1>1, <1>p, <2>1
<1>15. CASE CacheSync \/ UserDeletes \/ BootstrapReady \/ MachineTakesProviderID
            \/ NodeRegisters \/ UNCHANGED vars
  <2>1. /\ UNCHANGED prismVars /\ UNCHANGED <<pc, found, seenVGs>>
        /\ cache' = cache \/ cache' = nm
    BY <1>15 DEF CacheSync, UserDeletes, BootstrapReady, MachineTakesProviderID,
       NodeRegisters, vars, procVars, objVars
  <2>2. QED BY <1>1, <1>p, <2>1
<1>16. CASE \E v \in VMs : WorkloadAttachesVG(v)
  <2>1. PICK v \in VMs : WorkloadAttachesVG(v)
    BY <1>16
  <2>2. ~nm.del /\ ~cache.del /\ \A w \in VMs : "delete" \notin tasks[w]
    BY <2>1 DEF WorkloadAttachesVG, DetachInv
  <2>3. /\ UNCHANGED <<nm, cache, pc, tasks>>
        /\ pc \notin {"delFind", "delTasks", "delAct"}
    BY <2>1, <2>2 DEF WorkloadAttachesVG, AttachVG, objVars, procVars, DetachInv
  <2>4. QED BY <2>2, <2>3 DEF DetachInv
<1>17. CASE \E v \in VMs : PrismFault(v) \/ PrismStep(v)
  <2>1. PICK v \in VMs : PrismFault(v) \/ PrismStep(v)
    BY <1>17
  <2>2. \A w \in VMs : /\ vgs'[w] =< vgs[w]
                       /\ vgs[w] = 0 => vgs'[w] = 0
                       /\ "delete" \in tasks'[w] => "delete" \in tasks[w]
    BY <1>0, <2>1, PrismDetach DEF PrismFault, PrismStep
  <2>3. cache' = cache /\ UNCHANGED <<pc, found, seenVGs>>
    BY <2>1 DEF PrismFault, PrismStep, objVars, procVars
  <2>4. QED BY <1>1, <2>2, <2>3
<1>18. QED
  BY <1>2, <1>4, <1>5, <1>6, <1>7, <1>8, <1>9, <1>10, <1>11, <1>12, <1>13, <1>14,
     <1>15, <1>16, <1>17 DEF Next, Reconcile, Environment

\* A delete task is only ever accepted for a VM without volume groups, whatever is
\* stale, lost or retried (reconcileDelete: one detach per pass, then the delete).
THEOREM VolumesFirst == Spec => []DetachBeforeDelete
<1>1. Init => DetachInv
  BY DEF Init, PrismInit, NewNM, DetachInv
<1>2. DetachInv => DetachBeforeDelete
  BY DEF DetachInv, DetachBeforeDelete
<1>3. QED
  BY <1>1, <1>2, NilInit, InitType, NextType, NilStep, DetachStep, PTL DEF Spec
-----------------------------------------------------------------------------
(* The object outlives the VMs it recorded.                                *)

\* The UUIDs the object in the API server has.
Recorded == {nm.prov, nm.uuid} \ {None}

\* The UUIDs the controller or the machine knows.  The VM being created and the one
\* the deferred patch has no more use for may still turn out not to exist.
Known ==
    ({nm.prov, nm.uuid, cache.prov, cache.uuid, mem.prov, mem.uuid, base.prov, base.uuid,
      machine.prov, machine.sys}
        \cup IF pc \in {"wait", "deferSpec", "deferStatus"} THEN {} ELSE {found})
    \ {None}

\* The VM was there once, so that not finding it means it is gone.
Once(v) == vmState[v] \in {"off", "on", "gone"}

\* What is known was there, and nothing is known before the bootstrap data is ready.
KnownInv ==
    /\ \A v \in Known : Once(v) /\ machine.bootstrap
    /\ pc \in {"find", "mint", "create", "wait"} => machine.bootstrap
    /\ pc = "wait" => found \in VMs /\ vmState[found] # "none"
    /\ \A k \in ReqIDs : byKey[k] # None => vmState[byKey[k]] # "none"

\* An object that is deleted stays for its finalizer, in the API server and in the cache,
\* and it stays deleted.
GuardInv ==
    /\ \A o \in {nm, cache} : o.live /\ o.del => o.fin
    /\ cache.del => nm.del

\* All UUIDs recorded, by the object, a copy of it or the Machine, are the same, and a
\* pass works on that VM: one that is about to make a VM has seen that none is recorded,
\* and no UUID is taken back.
Named ==
    {nm.prov, nm.uuid, mem.prov, mem.uuid, base.prov, base.uuid, machine.prov, machine.sys}
        \ {None}

HasVM == {"recordSpec", "recordStatus", "running", "power", "refetch", "sync"}

AgreeInv ==
    /\ \A u, v \in Named : u = v
    /\ pc = "find" => {mem.prov, base.prov} = {nm.prov} /\ {mem.uuid, base.uuid} = {nm.uuid}
    /\ pc \in {"mint", "create", "wait"} => Named = {}
    /\ pc \in HasVM => found = None \/ Named \subseteq {found}
    /\ machine.prov # None \/ machine.sys # None => nm.prov # None
    /\ base.prov # None => mem.prov # None

\* The object is there while a reconcile wants it to be, and a reconcile that takes the
\* finalizer away has seen that every VM recorded is gone.
ReleaseInv ==
    /\ pc = "delFind" => /\ nm.del /\ mem.fin
                         /\ base.prov = nm.prov /\ base.uuid = nm.uuid
                         /\ mem.prov = nm.prov /\ mem.uuid = nm.uuid
    /\ pc # "idle" /\ mem.fin /\ "life" \notin lapses => nm.live
    /\ pc # "idle" /\ ~mem.fin => /\ pc \in {"deferSpec", "deferStatus"}
                                  /\ nm.del
                                  /\ mem.prov = base.prov /\ mem.uuid = base.uuid
                                  /\ \A v \in Recorded : ~Exists(v)
    /\ ~nm.live => \A v \in Recorded : ~Exists(v)

\* What a patch of metadata and spec does to the UUIDs.
LEMMA SpecPatchUUIDs ==
    ASSUME NEW o \in NM, NEW b \in NM, NEW a \in NM
    PROVE  /\ SpecPatch(o, b, a).prov \in {o.prov, a.prov}
           /\ b.prov = a.prov => SpecPatch(o, b, a).prov = o.prov
           /\ SpecPatch(o, b, a).uuid = o.uuid
BY DEF SpecPatch, NM

\* What a status patch does to them.
LEMMA StatusPatchUUIDs ==
    ASSUME NEW o \in NM, NEW b \in NM, NEW a \in NM
    PROVE  /\ StatusPatch(o, b, a).uuid \in {o.uuid, a.uuid}
           /\ b.uuid = a.uuid => StatusPatch(o, b, a).uuid = o.uuid
           /\ StatusPatch(o, b, a).prov = o.prov
BY DEF StatusPatch, NM

\* What a patch of metadata and spec does to the fields a deletion depends on.
LEMMA SpecPatchFields ==
    ASSUME NEW o \in NM, NEW b \in NM, NEW a \in NM
    PROVE  /\ o.live => SpecPatch(o, b, a).fin = IF b.fin # a.fin THEN a.fin ELSE o.fin
           /\ o.live => SpecPatch(o, b, a).live = (SpecPatch(o, b, a).fin \/ ~o.del)
BY DEF SpecPatch, NM

\* A patch that does not touch the finalizer neither takes the object away nor brings
\* it back.
LEMMA SpecPatchStays ==
    ASSUME NEW o \in NM, NEW b \in NM, NEW a \in NM,
           b.fin = a.fin, o.live /\ o.del => o.fin
    PROVE  /\ SpecPatch(o, b, a).live = o.live
           /\ SpecPatch(o, b, a).fin = o.fin
           /\ SpecPatch(o, b, a).del = o.del
<1>1. CASE o.live
  <2>1. SpecPatch(o, b, a).fin = o.fin /\ SpecPatch(o, b, a).del = o.del
    <3>1. SpecPatch(o, b, a).fin = IF b.fin # a.fin THEN a.fin ELSE o.fin
      BY <1>1, SpecPatchFields
    <3>2. SpecPatch(o, b, a).fin = o.fin
      BY <3>1, Zenon
    <3>3. SpecPatch(o, b, a).del = o.del
      BY SpecPatchType
    <3>4. QED BY <3>2, <3>3
  <2>2. SpecPatch(o, b, a).live = (o.fin \/ ~o.del)
    BY <1>1, <2>1, SpecPatchFields
  <2>3. o.live \in BOOLEAN /\ o.fin \in BOOLEAN /\ o.del \in BOOLEAN
    BY DEF NM
  <2>4. QED BY <1>1, <2>1, <2>2, <2>3
<1>2. CASE ~o.live
  BY <1>2 DEF SpecPatch
<1>3. QED BY <1>1, <1>2

\* What a status patch does to the same fields.
LEMMA StatusPatchFields ==
    ASSUME NEW o \in NM, NEW b \in NM, NEW a \in NM
    PROVE  /\ StatusPatch(o, b, a).fin = o.fin
           /\ StatusPatch(o, b, a).del = o.del
BY DEF StatusPatch, NM

\* No step breaks GuardInv: a patch or a deletion that leaves no finalizer takes the
\* deleted object away.
LEMMA GuardStep == TypeOK /\ GuardInv /\ [Next]_vars => GuardInv'
<1> SUFFICES ASSUME TypeOK, GuardInv, [Next]_vars PROVE GuardInv'
  OBVIOUS
<1>0. nm \in NM
  BY DEF TypeOK, ObjTypeOK
<1>1. ASSUME nm'.live /\ nm'.del => nm'.fin PROVE GuardInv'
  BY <1>1, DelStays, ObjMoves DEF GuardInv
<1>2. ASSUME NEW b \in NM, NEW a \in NM, nm' = SpecPatch(nm, b, a) PROVE GuardInv'
  <2>1. CASE nm.live
    <3>1. nm'.live = (nm'.fin \/ ~nm.del) /\ nm'.del = nm.del
      <4>1. SpecPatch(nm, b, a).live = (SpecPatch(nm, b, a).fin \/ ~nm.del)
        BY <1>0, <2>1, SpecPatchFields
      <4>2. SpecPatch(nm, b, a).del = nm.del
        BY <1>0, SpecPatchType
      <4>3. QED BY <1>2, <4>1, <4>2
    <3>2. nm'.fin \in BOOLEAN /\ nm'.live \in BOOLEAN /\ nm'.del \in BOOLEAN
      BY <1>0, <1>2, SpecPatchType DEF NM
    <3>3. QED BY <1>1, <3>1, <3>2
  <2>2. CASE ~nm.live
    BY <1>1, <1>2, <2>2 DEF SpecPatch
  <2>3. QED BY <2>1, <2>2
<1>3. ASSUME NEW b \in NM, NEW a \in NM, nm' = StatusPatch(nm, b, a) PROVE GuardInv'
  <2>1. nm'.live = nm.live /\ nm'.fin = nm.fin /\ nm'.del = nm.del
    BY <1>0, <1>3, StatusPatchType, StatusPatchFields
  <2>2. QED BY <1>1, <2>1 DEF GuardInv
<1>4. CASE UserDeletes
  <2>1. nm'.live = nm'.fin
    BY <1>0, <1>4 DEF UserDeletes, NM
  <2>2. QED BY <1>1, <2>1
<1>5. CASE nm' = nm
  BY <1>1, <1>5 DEF GuardInv
<1>6. QED BY <1>2, <1>3, <1>4, <1>5, ObjMoves

\* What a step of Prism, or a call, does to the life of a VM.
LEMMA PrismLife ==
    ASSUME PrismTypeOK, NEW v,
           \/ v \in VMs /\ PrismTask(v)
           \/ v \in VMs /\ IndexCatchesUp(v)
           \/ v \in VMs /\ CreateFails(v)
           \/ v \in VMs /\ OperatorDestroys(v)
           \/ v \in VMs /\ AttachVG(v)
           \/ PowerOn(v)
           \/ v \in VMs /\ CreateWithoutKey(v)
           \/ v \in VMs /\ \E k : CreateWithKey(k, v)
           \/ \E t : StartTask(v, t)
           \/ UNCHANGED prismVars
    PROVE  \A w \in VMs : /\ Once(w) => Once(w)'
                          /\ Once(w) /\ ~Exists(w) => ~Exists(w)'
                          /\ vmState[w] # "none" => vmState'[w] # "none"
<1>1. CASE vmState' = vmState
  BY <1>1 DEF Once, Exists
<1>2. CASE v \in VMs /\ (CreateDone(v) \/ DeleteDone(v))
  BY <1>2 DEF CreateDone, DeleteDone, Once, Exists, PrismTypeOK
<1>3. CASE v \in VMs /\ (CreateFails(v) \/ OperatorDestroys(v))
  BY <1>3 DEF CreateFails, OperatorDestroys, Once, Exists, PrismTypeOK
<1>4. CASE PowerOn(v)
  BY <1>4 DEF PowerOn, Once, Exists, PrismTypeOK
<1>5. CASE v \in VMs /\ (CreateWithoutKey(v) \/ \E k : CreateWithKey(k, v))
  BY <1>5 DEF CreateWithoutKey, CreateWithKey, Once, Exists, PrismTypeOK
<1>6. QED
  BY <1>1, <1>2, <1>3, <1>4, <1>5 DEF PrismTask, DetachDone, IndexCatchesUp, AttachVG,
     StartTask, prismVars

\* The call or the step of Prism in a step of the whole, if there is one.
LEMMA NextPrism ==
    ASSUME TypeOK, [Next]_vars
    PROVE  \/ UNCHANGED prismVars
           \/ \E v \in VMs : \/ PrismTask(v) /\ UNCHANGED <<nm, pc>>
                             \/ IndexCatchesUp(v) \/ AttachVG(v)
                             \/ Fault /\ (CreateFails(v) \/ OperatorDestroys(v))
           \/ pc = "power" /\ PowerOn(found)
           \/ pc = "create" /\ Create /\ \E v \in VMs : Submit(v)
           \/ pc = "delAct" /\ \E t : StartTask(found, t)
<1>1. CASE StartDelete \/ StartNormal \/ StartReady
  BY <1>1 DEF StartDelete, StartNormal, StartReady, Begin
<1>2. CASE FindFails \/ CreateRejected \/ WaitFails \/ PowerOnFails \/ FinishFails
           \/ DeleteFails
  BY <1>2 DEF FindFails, CreateRejected, WaitFails, PowerOnFails, FinishFails,
     DeleteFails, CallFails
<1>3. CASE FindByUUID \/ FindByName \/ Mint \/ MintFails \/ WaitForVM \/ RecordSpec
           \/ RecordStatus \/ RunningVM \/ Refetch \/ NilVMPanics \/ SyncVmUUID
           \/ Finish \/ DeleteLookup \/ DeleteCheckTasks \/ DeferSpec \/ DeferStatus
  BY <1>3 DEF FindByUUID, FindByName, Mint, MintFails, WaitForVM, RecordSpec,
     RecordStatus, RunningVM, Refetch, NilVMPanics, SyncVmUUID, Finish, DeleteLookup,
     DeleteCheckTasks, DeferSpec, DeferStatus
<1>4. CASE Create \/ PowerOnVM \/ DeleteAct
  BY <1>4 DEF Create, PowerOnVM, DeleteAct
<1>5. CASE Crash \/ CacheSync \/ UNCHANGED vars
  BY <1>5 DEF Crash, CacheSync, vars
<1>6. CASE Environment \/ \E v \in VMs : PrismStep(v)
  BY <1>6 DEF Environment, UserDeletes, BootstrapReady, MachineTakesProviderID,
     NodeRegisters, WorkloadAttachesVG, PrismFault, PrismStep, objVars, procVars
<1>7. QED BY <1>1, <1>2, <1>3, <1>4, <1>5, <1>6 DEF Next, Reconcile

\* A VM that was there was there, and one that is gone stays gone.
LEMMA LifeStep ==
    ASSUME TypeOK, [Next]_vars
    PROVE  \A w \in VMs : /\ Once(w) => Once(w)'
                          /\ Once(w) /\ ~Exists(w) => ~Exists(w)'
                          /\ vmState[w] # "none" => vmState'[w] # "none"
<1>1. CASE \E v \in VMs : Submit(v)
  BY <1>1, PrismLife DEF Submit, TypeOK
<1>2. QED BY <1>1, NextPrism, PrismLife DEF TypeOK
\* Every known UUID is one of a VM.
LEMMA KnownType == TypeOK => Known \subseteq VMs
BY DEF TypeOK, ObjTypeOK, ProcTypeOK, NM, Known

\* GetVMUUID returns a known UUID or nothing.
LEMMA GetVMUUIDKnown ==
    ASSUME GetVMUUID(mem) # None PROVE GetVMUUID(mem) \in Known
BY DEF GetVMUUID, Known

\* A request id bound to a VM is bound to one that was submitted.
LEMMA KeysSubmitted ==
    ASSUME TypeOK, NoNilDereference, KnownInv, [Next]_vars
    PROVE  \A k \in ReqIDs : byKey'[k] # None => vmState'[byKey'[k]] # "none"
<1>0. PrismTypeOK /\ ProcTypeOK
  BY DEF TypeOK
<1>1. CASE byKey' = byKey
  <2>1. \A k \in ReqIDs : byKey[k] # None => byKey[k] \in VMs
    BY <1>0 DEF PrismTypeOK
  <2>2. QED BY <1>1, <2>1, LifeStep DEF KnownInv
<1>3. CASE \E v \in VMs : Submit(v) /\ pc = "create"
  <2>1. PICK v \in VMs : Submit(v) /\ pc = "create"
    BY <1>3
  <2>2. CASE CreateWithoutKey(v)
    BY <1>1, <2>2 DEF CreateWithoutKey
  <2>3. CASE CreateWithKey(mem.req, v) /\ byKey[mem.req] = None
    <3>1. mem.req \in ReqIDs
      BY <1>0, <2>1 DEF NoNilDereference, ProcTypeOK, NM
    <3>2. vmState'[v] = "creating"
      BY <1>0, <2>3 DEF CreateWithKey, PrismTypeOK
    <3>3. ASSUME NEW k \in ReqIDs, byKey'[k] # None
          PROVE  vmState'[byKey'[k]] # "none"
      <4>1. byKey'[k] = v \/ byKey'[k] = byKey[k]
        BY <1>0, <2>3, <3>1 DEF CreateWithKey, PrismTypeOK
      <4>2. byKey'[k] = byKey[k] => byKey[k] \in VMs /\ vmState[byKey[k]] # "none"
        BY <1>0, <3>3 DEF KnownInv, PrismTypeOK
      <4>3. QED BY <3>2, <4>1, <4>2, LifeStep
    <3>4. QED BY <3>3
  <2>4. CASE CreateWithKey(mem.req, v) /\ byKey[mem.req] # None
    BY <1>1, <2>4 DEF CreateWithKey
  <2>5. QED BY <2>1, <2>2, <2>3, <2>4 DEF Submit
<1>4. CASE \/ UNCHANGED prismVars
           \/ \E v \in VMs : \/ PrismTask(v) \/ IndexCatchesUp(v)
                             \/ CreateFails(v) \/ OperatorDestroys(v) \/ AttachVG(v)
           \/ PowerOn(found)
           \/ \E t : StartTask(found, t)
  BY <1>1, <1>4 DEF prismVars, PrismTask, CreateDone, DetachDone, DeleteDone, CreateFails,
     IndexCatchesUp, OperatorDestroys, AttachVG, PowerOn, StartTask
<1>5. QED BY <1>3, <1>4, NextPrism
\* Returning an error keeps the UUIDs and the finalizer of the copy.
LEMMA ReturnErrCopy ==
    ASSUME NEW t, mem \in NM, ReturnErr(t)
    PROVE  /\ mem'.prov = mem.prov /\ mem'.uuid = mem.uuid /\ mem'.fin = mem.fin
           /\ base' = base /\ pc' = "deferSpec"
BY DEF ReturnErr, NM

\* A reconcile starts with what the API server or the cache says.
LEMMA BeginKnown ==
    ASSUME NEW l, NEW m, NEW v \in {None, Read.uuid},
           m.prov = Read.prov, m.uuid = Read.uuid, Begin(l, m, v)
    PROVE  Known' \subseteq Known
BY DEF Begin, Known, Read

\* No step breaks KnownInv.
LEMMA KnownStep ==
    ASSUME TypeOK, NoNilDereference, KnownInv, [Next]_vars
    PROVE  KnownInv'
<1>0. /\ PrismTypeOK /\ nm \in NM /\ mem \in NM /\ base \in NM
      /\ found \in VMs \cup {None} /\ Read \in NM /\ Before \in NM /\ TypeOK'
      /\ Known \subseteq VMs
  BY BeforeType, NextType, KnownType, ReadType DEF TypeOK, ObjTypeOK, ProcTypeOK
<1>b. machine.bootstrap => machine'.bootstrap
  BY HistoryStep
<1>k. \A k \in ReqIDs : byKey'[k] # None => vmState'[byKey'[k]] # "none"
  BY KeysSubmitted
\* A step may learn of a VM that exists, and may only go where bootstrap data is needed
\* when it is there.
<1>1. ASSUME \A v \in Known' : v \in Known \/ (v \in VMs /\ Once(v) /\ machine.bootstrap),
             \/ pc' \notin {"find", "mint", "create", "wait"}
             \/ pc' # "wait" /\ machine.bootstrap
             \/ UNCHANGED <<pc, found>>
      PROVE  KnownInv'
  <2>1. \A v \in Known' : Once(v)' /\ machine'.bootstrap
    BY <1>0, <1>1, <1>b, LifeStep DEF KnownInv
  <2>2. pc' \in {"find", "mint", "create", "wait"} => machine'.bootstrap
    BY <1>1, <1>b DEF KnownInv
  <2>3. pc' = "wait" => found' \in VMs /\ vmState'[found'] # "none"
    BY <1>1, LifeStep DEF KnownInv
  <2>4. QED BY <1>k, <2>1, <2>2, <2>3 DEF KnownInv
<1>2. ASSUME Known' \subseteq Known, pc' \notin {"find", "mint", "create", "wait"}
      PROVE  KnownInv'
  BY <1>1, <1>2
<1>3. CASE StartDelete
  BY <1>0, <1>2, <1>3, BeginKnown DEF StartDelete, Begin
<1>4. CASE StartNormal \/ StartReady
  <2>1. /\ [Read EXCEPT !.fin = TRUE].prov = Read.prov
        /\ [Read EXCEPT !.fin = TRUE].uuid = Read.uuid
    BY <1>0 DEF NM
  <2>2. Known' \subseteq Known
    BY <1>0, <1>4, <2>1, BeginKnown DEF StartNormal, StartReady
  <2>3. pc' \notin {"find", "mint", "create", "wait"} \/ (pc' = "find" /\ machine.bootstrap)
    BY <1>4 DEF StartNormal, StartReady, Begin
  <2>4. QED BY <1>1, <2>2, <2>3
\* A step of a reconcile that keeps the object and the UUIDs of the copies.
<1>5. ASSUME UNCHANGED <<nm, cache, machine, base>>, mem'.prov = mem.prov,
             mem'.uuid = mem.uuid,
             \/ pc' \in {"deferSpec", "deferStatus", "wait"}
             \/ found' = None
             \/ found' \in Known
             \/ found' = found /\ pc \notin {"wait", "deferSpec", "deferStatus"}
      PROVE  Known' \subseteq Known
  BY <1>5 DEF Known
<1>e. ASSUME NEW t, ReturnErr(t), UNCHANGED <<nm, cache, machine>> PROVE KnownInv'
  BY <1>0, <1>2, <1>5, <1>e, ReturnErrCopy
<1>6. CASE FindByUUID
  <2>1. CASE UseVM(GetVMUUID(mem)) /\ GetVMUUID(mem) # None
    BY <1>2, <1>5, <1>6, <2>1, GetVMUUIDKnown DEF UseVM, FindByUUID, objVars
  <2>2. QED BY <1>e, <1>6, <2>1 DEF FindByUUID, objVars
<1>7. CASE FindByName
  <2>0. machine.bootstrap /\ UNCHANGED <<nm, cache, machine>>
    BY <1>7 DEF FindByName, KnownInv, objVars
  <2>1. CASE \E v \in VMs : Exists(v) /\ UseVM(v)
    <3>1. PICK v \in VMs : Exists(v) /\ UseVM(v)
      BY <2>1
    <3>2. Known' \subseteq Known \cup {v}
      BY <2>0, <3>1 DEF UseVM, Known
    <3>3. Once(v)
      BY <3>1 DEF Exists, Once
    <3>4. pc' \notin {"find", "mint", "create", "wait"}
      BY <3>1 DEF UseVM
    <3>5. QED BY <1>1, <2>0, <3>2, <3>3, <3>4
  <2>2. CASE Goto(IF mem.req = None THEN "mint" ELSE "create")
    <3>1. Known' \subseteq Known
      BY <1>5, <1>7, <2>0, <2>2 DEF Goto, FindByName
    <3>2. pc' # "wait"
      BY <2>2 DEF Goto
    <3>3. QED BY <1>1, <2>0, <3>1, <3>2
  <2>3. QED BY <1>e, <1>7, <2>0, <2>1, <2>2 DEF FindByName
<1>8. CASE FindFails \/ CreateRejected \/ WaitFails \/ PowerOnFails \/ FinishFails
           \/ DeleteFails
  BY <1>e, <1>8 DEF FindFails, CreateRejected, WaitFails, PowerOnFails, FinishFails,
     DeleteFails, CallFails, objVars
<1>9. CASE Mint
  <2>1. PICK k \in ReqIDs :
           /\ nm' = SpecPatch(nm, mem, [mem EXCEPT !.req = k])
           /\ \/ /\ mem' = [mem EXCEPT !.req = k] /\ pc' = "create"
                 /\ UNCHANGED <<base, found, seenVGs, callErr>>
              \/ ReturnErr(FALSE)
    BY <1>9 DEF Mint
  <2>2. /\ [mem EXCEPT !.req = k] \in NM
        /\ [mem EXCEPT !.req = k].prov = mem.prov
        /\ [mem EXCEPT !.req = k].uuid = mem.uuid
    BY <1>0 DEF NM
  <2>3. nm'.prov = nm.prov /\ nm'.uuid = nm.uuid
    <3> DEFINE keyed == [mem EXCEPT !.req = k]
    <3>1. keyed \in NM /\ mem.prov = keyed.prov /\ nm' = SpecPatch(nm, mem, keyed)
      BY <2>1, <2>2
    <3> HIDE DEF keyed
    <3>2. QED BY <1>0, <3>1, SpecPatchUUIDs
  <2>4. /\ mem'.prov = mem.prov /\ mem'.uuid = mem.uuid /\ base' = base
        /\ machine' = machine /\ cache' = cache /\ pc = "mint"
        /\ pc' = "deferSpec" \/ (pc' = "create" /\ found' = found)
    BY <1>0, <1>9, <2>1, <2>2, ReturnErrCopy DEF Mint
  <2>5. Known' \subseteq Known
    BY <2>3, <2>4 DEF Known
  <2>6. QED BY <1>1, <2>4, <2>5 DEF KnownInv
<1>10. CASE MintFails
  BY <1>e, <1>10 DEF MintFails, objVars
<1>11. CASE Create
  <2>1. PICK v \in VMs : /\ Submit(v)
                         /\ \/ /\ found' = v /\ pc' = "wait"
                               /\ UNCHANGED <<mem, base, seenVGs, callErr>>
                            \/ ReturnErr(FALSE)
    BY <1>11 DEF Create
  <2>2. UNCHANGED <<nm, cache, machine>>
    BY <1>11 DEF Create, objVars
  <2>3. CASE /\ found' = v /\ pc' = "wait"
             /\ UNCHANGED <<mem, base, seenVGs, callErr>>
    <3>1. Known' \subseteq Known
      BY <1>5, <2>2, <2>3
    <3>2. vmState'[v] # "none"
      <4>1. CASE CreateWithoutKey(v)
        BY <1>0, <4>1 DEF CreateWithoutKey, PrismTypeOK
      <4>2. CASE CreateWithKey(mem.req, v)
        <5>1. mem.req \in ReqIDs
          BY <1>0, <1>11 DEF Create, NoNilDereference, NM
        <5>2. CASE byKey[mem.req] = v
          BY <4>2, <5>1, <5>2, LifeStep DEF KnownInv
        <5>3. CASE byKey[mem.req] # v
          BY <1>0, <4>2, <5>3 DEF CreateWithKey, PrismTypeOK
        <5>4. QED BY <5>2, <5>3
      <4>3. QED BY <2>1, <4>1, <4>2 DEF Submit
    <3>3. machine.bootstrap
      BY <1>11 DEF Create, KnownInv
    <3>4. \A w \in Known' : Once(w)' /\ machine'.bootstrap
      BY <1>0, <1>b, <3>1, LifeStep DEF KnownInv
    <3>5. QED BY <1>b, <1>k, <2>3, <3>2, <3>3, <3>4 DEF KnownInv
  <2>4. QED BY <1>e, <2>1, <2>2, <2>3
<1>12. CASE WaitForVM
  <2>1. UNCHANGED <<nm, cache, machine>>
    BY <1>12 DEF WaitForVM, objVars
  <2>2. CASE \E t \in BOOLEAN : ReturnErr(t)
    BY <1>e, <2>1, <2>2
  <2>3. CASE /\ vmState[found] # "failed"
             /\ mem' = [mem EXCEPT !.prov = found, !.uuid = found]
             /\ pc' = IF machine.profile THEN "power" ELSE "recordSpec"
             /\ UNCHANGED <<base, found, seenVGs, callErr>>
    <3>1. found \in VMs /\ vmState[found] # "none" /\ machine.bootstrap
      BY <1>12 DEF WaitForVM, KnownInv
    <3>2. Once(found)
      BY <1>0, <1>12, <2>3, <3>1 DEF WaitForVM, PrismTypeOK, VMStates, Once
    <3>3. mem'.prov = found /\ mem'.uuid = found
      BY <1>0, <2>3 DEF NM
    <3>4. Known' \subseteq Known \cup {found}
      BY <2>1, <2>3, <3>3 DEF Known
    <3>5. pc' \notin {"find", "mint", "create", "wait"}
      BY <2>3
    <3>6. QED BY <1>1, <3>1, <3>2, <3>4, <3>5
  <2>4. QED BY <1>12, <2>2, <2>3 DEF WaitForVM
<1>13. CASE RecordSpec
  <2>1. nm'.prov \in {nm.prov, mem.prov} /\ nm'.uuid = nm.uuid
    BY <1>0, <1>13, SpecPatchUUIDs DEF RecordSpec
  <2>2. Known' \subseteq Known
    BY <1>13, <2>1 DEF RecordSpec, Known
  <2>3. QED BY <1>2, <1>13, <2>2 DEF RecordSpec
<1>14. CASE RecordStatus
  <2>1. nm'.uuid \in {nm.uuid, mem.uuid} /\ nm'.prov = nm.prov
    BY <1>0, <1>14, StatusPatchUUIDs DEF RecordStatus
  <2>2. pc' \in {"power", "deferSpec"}
    BY <1>14 DEF RecordStatus
  <2>3. Known' \subseteq Known
    BY <1>14, <2>1 DEF RecordStatus, Known
  <2>4. QED BY <1>2, <2>2, <2>3
<1>15. CASE RunningVM \/ NilVMPanics
  <2>1. UNCHANGED <<nm, cache, machine>>
    BY <1>15 DEF RunningVM, NilVMPanics, objVars
  <2>2. CASE pc = "running" /\ Goto("sync")
    BY <1>2, <1>5, <2>1, <2>2 DEF Goto
  <2>3. QED BY <1>e, <1>15, <2>1, <2>2 DEF RunningVM, NilVMPanics
<1>16. CASE PowerOnVM
  <2>1. UNCHANGED <<nm, cache, machine>>
    BY <1>16 DEF PowerOnVM, objVars
  <2>2. CASE pc = "power" /\ Goto("refetch")
    BY <1>2, <1>5, <2>1, <2>2 DEF Goto
  <2>3. QED BY <1>e, <1>16, <2>1, <2>2 DEF PowerOnVM
<1>17. CASE Refetch
  BY <1>2, <1>5, <1>17 DEF Refetch, objVars
<1>18. CASE SyncVmUUID
  <2>1. SyncTarget \in VMs \cup {None} /\ SyncTarget \in Known \cup {None}
    BY <1>0, <1>18 DEF SyncVmUUID, SyncTarget, TypeOK, ObjTypeOK, Known
  <2>2. mem' \in NM /\ mem'.prov = mem.prov /\ mem'.uuid = SyncTarget
    BY <1>0, <1>18, <2>1 DEF SyncVmUUID, NM
  <2>3. nm'.uuid \in {nm.uuid, SyncTarget} /\ nm'.prov = nm.prov
    <3>1. \/ nm' = nm
          \/ nm' = StatusPatch(nm, mem, mem')
      BY <1>18 DEF SyncVmUUID
    <3>2. /\ StatusPatch(nm, mem, mem').uuid \in {nm.uuid, mem'.uuid}
          /\ StatusPatch(nm, mem, mem').prov = nm.prov
      BY <1>0, <2>2, StatusPatchUUIDs
    <3>3. QED BY <2>2, <3>1, <3>2
  <2>4. /\ UNCHANGED <<cache, machine, base, found>> /\ pc = "sync"
        /\ pc' \in {"deferSpec", "finish"}
    BY <1>18 DEF SyncVmUUID
  <2>5. Known' \subseteq Known
    BY <2>1, <2>2, <2>3, <2>4 DEF Known
  <2>6. QED BY <1>2, <2>4, <2>5
<1>19. CASE Finish
  <2>1. mem'.prov = mem.prov /\ mem'.uuid = mem.uuid
    BY <1>0, <1>19 DEF Finish, NM
  <2>2. QED BY <1>2, <1>5, <1>19, <2>1 DEF Finish, objVars
<1>20. CASE DeleteLookup
  <2>1. UNCHANGED <<nm, cache, machine, base>> /\ pc' \in {"delTasks", "deferSpec"}
    BY <1>20 DEF DeleteLookup, objVars
  <2>2. mem'.prov = mem.prov /\ mem'.uuid = mem.uuid
    BY <1>0, <1>20 DEF DeleteLookup, NM
  <2>3. pc' = "delTasks" => found' \in Known
    BY <1>20, GetVMUUIDKnown DEF DeleteLookup
  <2>4. QED BY <1>2, <1>5, <2>1, <2>2, <2>3
<1>21. CASE DeleteCheckTasks
  BY <1>2, <1>5, <1>21 DEF DeleteCheckTasks, Goto, objVars
<1>22. CASE DeleteAct
  BY <1>e, <1>22 DEF DeleteAct, objVars
<1>23. CASE DeferSpec
  <2>1. nm'.prov \in {nm.prov, mem.prov} /\ nm'.uuid = nm.uuid
    BY <1>0, <1>23, SpecPatchUUIDs DEF DeferSpec
  <2>2. Known' \subseteq Known
    BY <1>23, <2>1 DEF DeferSpec, Goto, Known
  <2>3. QED BY <1>2, <1>23, <2>2 DEF DeferSpec, Goto
<1>24. CASE DeferStatus
  <2>1. nm'.uuid \in {nm.uuid, mem.uuid} /\ nm'.prov = nm.prov
    BY <1>0, <1>24, StatusPatchUUIDs DEF DeferStatus
  <2>2. Known' \subseteq Known
    BY <1>24, <2>1 DEF DeferStatus, Rest, NewNM, Known
  <2>3. QED BY <1>2, <1>24, <2>2 DEF DeferStatus, Rest
<1>25. CASE Crash
  <2>1. Known' \subseteq Known
    BY <1>25 DEF Crash, Rest, NewNM, Known
  <2>2. QED BY <1>2, <1>25, <2>1 DEF Crash, Rest
\* The world around: the reconcile does not move.
<1>26. ASSUME UNCHANGED procVars, nm'.prov = nm.prov, nm'.uuid = nm.uuid,
              cache' \in {cache, nm},
              machine'.prov \in {machine.prov, nm.prov},
              machine'.sys \in {machine.sys, machine.prov}
       PROVE  KnownInv'
  <2>1. Known' \subseteq Known /\ UNCHANGED <<pc, found>>
    BY <1>26 DEF procVars, Known
  <2>2. QED BY <1>1, <2>1
<1>27. CASE UserDeletes
  BY <1>0, <1>26, <1>27 DEF UserDeletes, NM
<1>28. CASE CacheSync \/ \E v \in VMs : WorkloadAttachesVG(v) \/ PrismFault(v)
                                        \/ PrismStep(v)
  BY <1>26, <1>28 DEF CacheSync, WorkloadAttachesVG, PrismFault, PrismStep, objVars
<1>29. CASE BootstrapReady \/ MachineTakesProviderID \/ NodeRegisters
  <2>1. machine \in [bootstrap: BOOLEAN, profile: Profiles,
                     prov: VMs \cup {None}, sys: VMs \cup {None}]
    BY DEF TypeOK, ObjTypeOK
  <2>2. QED BY <1>26, <1>29, <2>1 DEF BootstrapReady, MachineTakesProviderID,
            NodeRegisters
<1>30. CASE UNCHANGED vars
  BY <1>26, <1>30 DEF vars, objVars
<1>31. QED
  BY <1>3, <1>4, <1>6, <1>7, <1>8, <1>9, <1>10, <1>11, <1>12, <1>13, <1>14, <1>15,
     <1>16, <1>17, <1>18, <1>19, <1>20, <1>21, <1>22, <1>23, <1>24, <1>25, <1>27,
     <1>28, <1>29, <1>30 DEF Next, Reconcile, Environment
\* One VM was ever asked for.
Single == \A v, w \in VMs : vmState[v] # "none" /\ vmState[w] # "none" => v = w

\* What a pass begins with is what the API server has, as far as a lapse can tell.
LEMMA BeginUpToDate ==
    ASSUME NEW l, NEW m, NEW v, Begin(l, m, v)
    PROVE  /\ "key" \notin lapses' => Read.req = nm.req
           /\ "uuid" \notin lapses' => Read.prov = nm.prov /\ Read.uuid = nm.uuid
           /\ "life" \notin lapses' => Read.live = nm.live /\ Read.del = nm.del
<1>1. lapses' = lapses \cup Outdated
  BY DEF Begin
<1>2. QED BY <1>1 DEF Outdated, Lapses

\* A patch of metadata and spec takes no UUID back that its copy did not lose.
LEMMA SpecPatchKeeps ==
    ASSUME NEW o \in NM, NEW b \in NM, NEW a \in NM, b.prov # None => a.prov # None
    PROVE  o.prov # None => SpecPatch(o, b, a).prov # None
BY DEF SpecPatch, NM

\* No step breaks AgreeInv while the UUIDs are tracked.
LEMMA AgreeStep ==
    ASSUME TypeOK, KnownInv, AgreeInv, Tracked', [Next]_vars
    PROVE  AgreeInv'
<1>0. /\ nm \in NM /\ mem \in NM /\ base \in NM /\ Read \in NM /\ Before \in NM
      /\ found \in VMs \cup {None} /\ "uuid" \notin lapses'
      /\ machine \in [bootstrap: BOOLEAN, profile: Profiles,
                      prov: VMs \cup {None}, sys: VMs \cup {None}]
  BY BeforeType, ReadType DEF TypeOK, ObjTypeOK, ProcTypeOK, Tracked
<1>w. {"find", "mint", "create", "wait"} \cap HasVM = {}
  BY DEF HasVM
\* A step after which one UUID is recorded at most, and none was taken back.
<1>1. ASSUME \A u, v \in Named' : u = v,
             nm.prov # None => nm'.prov # None, machine' = machine,
             base'.prov # None => mem'.prov # None,
             \/ pc' \notin HasVM \cup {"find", "mint", "create", "wait"}
             \/ pc' \in {"mint", "create", "wait"} /\ Named' = {}
             \/ pc' \in HasVM /\ (found' = None \/ Named' \subseteq {found'})
      PROVE  AgreeInv'
  BY <1>0, <1>1, <1>w DEF AgreeInv
\* A step of a reconcile that learns of no UUID.
<1>2. ASSUME Named' \subseteq Named,
             nm.prov # None => nm'.prov # None, machine' = machine,
             base'.prov # None => mem'.prov # None,
             \/ pc' \notin HasVM \cup {"find", "mint", "create", "wait"}
             \/ pc' \in {"mint", "create", "wait"} /\ Named = {}
             \/ pc' \in HasVM /\ found' \in Named \cup {None}
             \/ pc' \in HasVM /\ Named = {}
             \/ pc' \in HasVM /\ pc \in HasVM /\ found' = found
      PROVE  AgreeInv'
  <2>1. \A u, v \in Named' : u = v
    BY <1>2 DEF AgreeInv
  <2>2. pc' \in HasVM /\ found' \in Named => Named' \subseteq {found'}
    BY <1>2 DEF AgreeInv
  <2>3. pc \in HasVM /\ found' = found => found' = None \/ Named' \subseteq {found'}
    BY <1>2 DEF AgreeInv
  <2>4. QED BY <1>1, <1>2, <2>1, <2>2, <2>3
\* ... and patches nothing.
<1>3. ASSUME UNCHANGED <<nm, machine, base>>, mem'.prov = mem.prov, mem'.uuid = mem.uuid,
             \/ pc' \notin HasVM \cup {"find", "mint", "create", "wait"}
             \/ pc' \in {"mint", "create", "wait"} /\ Named = {}
             \/ pc' \in HasVM /\ found' \in Named \cup {None}
             \/ pc' \in HasVM /\ Named = {}
             \/ pc' \in HasVM /\ pc \in HasVM /\ found' = found
      PROVE  AgreeInv'
  <2>1. Named' \subseteq Named
    BY <1>3 DEF Named
  <2>2. base'.prov # None => mem'.prov # None
    BY <1>3 DEF AgreeInv
  <2>3. QED BY <1>2, <1>3, <2>1, <2>2
<1>e. ASSUME NEW t, ReturnErr(t), UNCHANGED <<nm, machine>> PROVE AgreeInv'
  <2>1. pc' \notin HasVM \cup {"find", "mint", "create", "wait"}
    BY <1>0, <1>e, ReturnErrCopy DEF HasVM
  <2>2. QED BY <1>0, <1>3, <1>e, <2>1, ReturnErrCopy
<1>4. CASE StartDelete \/ StartNormal \/ StartReady
  <2>1. /\ Read.prov = nm.prov /\ Read.uuid = nm.uuid /\ base' = Read
        /\ UNCHANGED <<nm, machine>>
        /\ mem' \in {Read, [Read EXCEPT !.fin = TRUE]}
        /\ found' \in {None, Read.uuid}
        /\ pc' \in {"delFind", "find", "deferSpec", "sync"}
    BY <1>0, <1>4, BeginUpToDate DEF StartDelete, StartNormal, StartReady, Begin
  <2>2. mem'.prov = Read.prov /\ mem'.uuid = Read.uuid
    BY <1>0, <2>1 DEF NM
  <2>3. Named' \subseteq Named /\ found' \in Named \cup {None}
    BY <2>1, <2>2 DEF Named
  <2>4. \A u, v \in Named' : u = v
    BY <2>3 DEF AgreeInv
  <2>5. /\ pc' \notin {"mint", "create", "wait"}
        /\ found' = None \/ Named' \subseteq {found'}
    BY <2>1, <2>3 DEF AgreeInv
  <2>6. machine.prov # None \/ machine.sys # None => nm.prov # None
    BY DEF AgreeInv
  <2>7. QED BY <2>1, <2>2, <2>4, <2>5, <2>6 DEF AgreeInv
<1>5. CASE FindByUUID
  <2>1. CASE UseVM(GetVMUUID(mem)) /\ GetVMUUID(mem) # None
    <3>1. GetVMUUID(mem) \in Named
      BY <2>1 DEF GetVMUUID, Named
    <3>2. QED BY <1>3, <1>5, <2>1, <3>1 DEF UseVM, FindByUUID, objVars, HasVM
  <2>2. QED BY <1>e, <1>5, <2>1 DEF FindByUUID, objVars
<1>6. CASE FindByName
  <2>1. Named = {}
    <3>1. mem.prov = None /\ mem.uuid = None /\ machine.sys = None
      BY <1>6 DEF FindByName, GetVMUUID
    <3>2. {mem.prov, base.prov} = {nm.prov} /\ {mem.uuid, base.uuid} = {nm.uuid}
      BY <1>6 DEF FindByName, AgreeInv
    <3>3. machine.prov = None
      BY <3>1, <3>2 DEF AgreeInv
    <3>4. QED BY <3>1, <3>2, <3>3 DEF Named
  <2>2. UNCHANGED <<nm, machine>>
    BY <1>6 DEF FindByName, objVars
  <2>3. CASE \/ \E v \in VMs : UseVM(v)
             \/ Goto("mint") \/ Goto("create")
    BY <1>3, <2>1, <2>2, <2>3 DEF UseVM, Goto, HasVM
  <2>4. QED BY <1>e, <1>6, <2>2, <2>3 DEF FindByName
<1>7. CASE FindFails \/ CreateRejected \/ WaitFails \/ PowerOnFails \/ FinishFails
           \/ DeleteFails
  BY <1>e, <1>7 DEF FindFails, CreateRejected, WaitFails, PowerOnFails, FinishFails,
     DeleteFails, CallFails, objVars
<1>8. CASE Mint
  <2>1. PICK k \in ReqIDs :
           /\ nm' = SpecPatch(nm, mem, [mem EXCEPT !.req = k])
           /\ \/ mem' = [mem EXCEPT !.req = k] /\ pc' = "create" /\ base' = base
              \/ ReturnErr(FALSE)
    BY <1>8 DEF Mint
  <2> DEFINE keyed == [mem EXCEPT !.req = k]
  <2>2. keyed \in NM /\ keyed.prov = mem.prov /\ keyed.uuid = mem.uuid
    BY <1>0 DEF NM
  <2>3. nm' = SpecPatch(nm, mem, keyed) /\ (mem' = keyed \/ ReturnErr(FALSE))
    BY <2>1
  <2>4. mem'.prov = mem.prov /\ mem'.uuid = mem.uuid /\ base' = base
    BY <1>0, <2>1, <2>2, <2>3, ReturnErrCopy
  <2> HIDE DEF keyed
  <2>5. nm'.prov = nm.prov /\ nm'.uuid = nm.uuid
    BY <1>0, <2>2, <2>3, SpecPatchUUIDs
  <2>6. machine' = machine /\ Named = {} /\ pc' \in {"create", "deferSpec"}
    BY <1>0, <1>8, <2>1, ReturnErrCopy DEF Mint, AgreeInv
  <2>7. Named' \subseteq Named /\ (base'.prov # None => mem'.prov # None)
    BY <2>4, <2>5, <2>6 DEF Named, AgreeInv
  <2>8. pc' \notin HasVM \cup {"find", "mint", "create", "wait"} \/ pc' = "create"
    BY <2>6 DEF HasVM
  <2>9. QED BY <1>2, <2>5, <2>6, <2>7, <2>8
<1>9. CASE MintFails
  BY <1>e, <1>9 DEF MintFails, objVars
<1>10. CASE Create
  <2>1. UNCHANGED <<nm, machine>> /\ Named = {}
    BY <1>10 DEF Create, AgreeInv, objVars
  <2>2. ReturnErr(FALSE) \/ (UNCHANGED <<mem, base>> /\ pc' = "wait")
    BY <1>10 DEF Create
  <2>3. QED BY <1>3, <1>e, <2>1, <2>2
<1>11. CASE WaitForVM
  <2>1. UNCHANGED <<nm, machine>> /\ Named = {} /\ found \in VMs
    BY <1>11 DEF WaitForVM, AgreeInv, KnownInv, objVars
  <2>2. CASE \E t \in BOOLEAN : ReturnErr(t)
    BY <1>e, <2>1, <2>2
  <2>3. CASE /\ mem' = [mem EXCEPT !.prov = found, !.uuid = found]
             /\ pc' = IF machine.profile THEN "power" ELSE "recordSpec"
             /\ UNCHANGED <<base, found, seenVGs, callErr>>
    <3>1. mem'.prov = found /\ mem'.uuid = found
      BY <1>0, <2>3 DEF NM
    <3>2. Named' \subseteq {found}
      BY <2>1, <2>3, <3>1 DEF Named
    <3>3. pc' \in HasVM /\ found # None
      BY <2>1, <2>3, NoneAssumption DEF HasVM
    <3>4. QED BY <1>1, <2>1, <2>3, <3>1, <3>2, <3>3
  <2>4. QED BY <1>11, <2>2, <2>3 DEF WaitForVM
\* A patch of what the reconcile knows.
<1>12. CASE RecordSpec \/ DeferSpec
  <2>1. PICK b \in {Before, base} : nm' \in {nm, SpecPatch(nm, b, mem)}
    BY <1>12 DEF RecordSpec, DeferSpec
  <2>2. b \in NM /\ b.prov = base.prov
    BY <1>0, <2>1 DEF Before, NM
  <2>3. nm'.prov \in {nm.prov, mem.prov} /\ nm'.uuid = nm.uuid
    BY <1>0, <2>1, <2>2, SpecPatchUUIDs
  <2>4. nm.prov # None => nm'.prov # None
    BY <1>0, <2>1, <2>2, SpecPatchKeeps DEF AgreeInv
  <2>5. UNCHANGED <<machine, mem, base, found>>
    BY <1>12 DEF RecordSpec, DeferSpec, Goto
  <2>6. Named' \subseteq Named /\ (base'.prov # None => mem'.prov # None)
    BY <2>3, <2>5 DEF Named, AgreeInv
  <2>7. \/ pc \in HasVM /\ pc' \in HasVM
        \/ pc' \notin HasVM \cup {"find", "mint", "create", "wait"}
    BY <1>12 DEF RecordSpec, DeferSpec, Goto, HasVM
  <2>8. QED BY <1>2, <2>4, <2>5, <2>6, <2>7
<1>13. CASE RecordStatus \/ DeferStatus
  <2>1. nm'.prov = nm.prov /\ nm'.uuid \in {nm.uuid, mem.uuid}
    BY <1>0, <1>13, StatusPatchUUIDs DEF RecordStatus, DeferStatus
  <2>2. \/ UNCHANGED <<mem, base, found>> /\ pc \in HasVM /\ pc' \in HasVM \cup {"deferSpec"}
        \/ mem' = NewNM /\ base' = NewNM /\ pc' = "idle"
    BY <1>13 DEF RecordStatus, DeferStatus, Rest, HasVM
  <2>3. machine' = machine
    BY <1>13 DEF RecordStatus, DeferStatus
  <2>4. Named' \subseteq Named /\ (base'.prov # None => mem'.prov # None)
    BY <2>1, <2>2, <2>3 DEF Named, AgreeInv, NewNM
  <2>5. pc' \in HasVM \/ pc' \notin HasVM \cup {"find", "mint", "create", "wait"}
    BY <2>2
  <2>6. QED BY <1>2, <2>1, <2>2, <2>3, <2>4, <2>5 DEF HasVM
<1>14. CASE RunningVM \/ PowerOnVM \/ NilVMPanics
  <2>1. UNCHANGED <<nm, machine>> /\ pc \in HasVM
    BY <1>14 DEF RunningVM, PowerOnVM, NilVMPanics, objVars, HasVM
  <2>2. CASE \E l \in HasVM : Goto(l)
    BY <1>3, <2>1, <2>2 DEF Goto
  <2>3. QED
    BY <1>e, <1>14, <2>1, <2>2 DEF RunningVM, PowerOnVM, NilVMPanics, HasVM
<1>15. CASE Refetch
  BY <1>3, <1>15 DEF Refetch, objVars, HasVM
<1>16. CASE SyncVmUUID
  <2>1. SyncTarget \in VMs \cup {None}
    BY <1>0 DEF SyncTarget
  <2>2. mem' \in NM /\ mem'.prov = mem.prov /\ mem'.uuid = SyncTarget
    BY <1>0, <1>16, <2>1 DEF SyncVmUUID, NM
  <2>3. nm'.prov = nm.prov /\ nm'.uuid \in {nm.uuid, SyncTarget}
    <3>1. nm' = nm \/ nm' = StatusPatch(nm, mem, mem')
      BY <1>16 DEF SyncVmUUID
    <3>2. QED BY <1>0, <2>2, <3>1, StatusPatchUUIDs
  <2>4. UNCHANGED <<machine, base>> /\ pc' \in {"deferSpec", "finish"} /\ pc = "sync"
    BY <1>16 DEF SyncVmUUID
  <2>5. Named' \subseteq Named \cup ({SyncTarget} \ {None})
    BY <2>2, <2>3, <2>4 DEF Named
  <2>6. SyncTarget \in Named \cup {None} \/ Named \subseteq {SyncTarget}
    BY <2>4 DEF SyncTarget, Named, AgreeInv, HasVM
  <2>7. \A u, v \in Named' : u = v
    BY <2>5, <2>6 DEF AgreeInv
  <2>8. base'.prov # None => mem'.prov # None
    BY <2>2, <2>4 DEF AgreeInv
  <2>9. pc' \notin HasVM \cup {"find", "mint", "create", "wait"}
    BY <2>4 DEF HasVM
  <2>10. QED BY <1>1, <2>3, <2>4, <2>7, <2>8, <2>9
<1>17. CASE Finish
  <2>1. mem'.prov = mem.prov /\ mem'.uuid = mem.uuid
    BY <1>0, <1>17 DEF Finish, NM
  <2>2. QED BY <1>3, <1>17, <2>1 DEF Finish, objVars, HasVM
<1>18. CASE DeleteLookup \/ DeleteCheckTasks
  <2>1. /\ UNCHANGED <<nm, machine, base>> /\ pc' \in {"delTasks", "delAct", "deferSpec"}
        /\ mem' \in {mem, [mem EXCEPT !.fin = FALSE]}
    BY <1>18 DEF DeleteLookup, DeleteCheckTasks, Goto, objVars
  <2>2. mem'.prov = mem.prov /\ mem'.uuid = mem.uuid
    BY <1>0, <2>1 DEF NM
  <2>3. QED BY <1>3, <2>1, <2>2 DEF HasVM
<1>19. CASE DeleteAct
  BY <1>e, <1>19 DEF DeleteAct, objVars
<1>20. CASE Crash
  <2>1. mem' = NewNM /\ base' = NewNM /\ pc' = "idle" /\ UNCHANGED <<nm, machine>>
    BY <1>20 DEF Crash, Rest
  <2>2. Named' \subseteq Named /\ base'.prov = None
    BY <2>1 DEF Named, NewNM
  <2>3. QED BY <1>2, <2>1, <2>2 DEF HasVM
\* The world around: the Machine and its Node take over what is recorded.
<1>21. ASSUME UNCHANGED procVars, nm'.prov = nm.prov, nm'.uuid = nm.uuid,
              machine'.prov \in {machine.prov, nm.prov},
              machine'.sys \in {machine.sys, machine.prov}
       PROVE  AgreeInv'
  <2>1. Named' \subseteq Named /\ UNCHANGED <<pc, mem, base, found>>
    BY <1>21 DEF procVars, Named
  <2>2. machine'.prov # None \/ machine'.sys # None => nm.prov # None
    BY <1>21 DEF AgreeInv
  <2>3. \A u, v \in Named' : u = v
    BY <2>1 DEF AgreeInv
  <2>4. QED BY <1>21, <2>1, <2>2, <2>3 DEF AgreeInv
<1>22. CASE UserDeletes
  BY <1>0, <1>21, <1>22 DEF UserDeletes, NM
<1>23. CASE CacheSync \/ \E v \in VMs : WorkloadAttachesVG(v) \/ PrismFault(v)
                                        \/ PrismStep(v)
  BY <1>21, <1>23 DEF CacheSync, WorkloadAttachesVG, PrismFault, PrismStep, objVars
<1>24. CASE BootstrapReady \/ MachineTakesProviderID \/ NodeRegisters
  BY <1>0, <1>21, <1>24 DEF BootstrapReady, MachineTakesProviderID, NodeRegisters
<1>25. CASE UNCHANGED vars
  BY <1>21, <1>25 DEF vars, objVars
<1>26. QED
  BY <1>4, <1>5, <1>6, <1>7, <1>8, <1>9, <1>10, <1>11, <1>12, <1>13, <1>14, <1>15,
     <1>16, <1>17, <1>18, <1>19, <1>20, <1>22, <1>23, <1>24, <1>25
     DEF Next, Reconcile, Environment

\* No step breaks ReleaseInv while the UUIDs are tracked.
LEMMA ReleaseStep ==
    ASSUME TypeOK, AgreeInv, KnownInv, GuardInv, ReleaseInv, Tracked', [Next]_vars
    PROVE  ReleaseInv'
<1>0. /\ nm \in NM /\ mem \in NM /\ base \in NM /\ Read \in NM /\ Before \in NM
      /\ nm.live \in BOOLEAN /\ nm.fin \in BOOLEAN /\ nm.del \in BOOLEAN
      /\ Recorded \subseteq Known /\ Known \subseteq VMs
      /\ nm.live /\ nm.del => nm.fin
      /\ "uuid" \notin lapses' /\ "finalizer" \notin lapses' /\ lapses \subseteq lapses'
  BY BeforeType, KnownType, ReadType, HistoryStep DEF TypeOK, ObjTypeOK, ProcTypeOK, NM,
     Recorded, Known, GuardInv, Tracked
\* What was recorded and is gone stays gone, as long as no more is recorded.
<1>g. ASSUME nm'.prov = nm.prov, nm'.uuid = nm.uuid, \A v \in Recorded : ~Exists(v)
      PROVE  \A v \in Recorded' : ~Exists(v)'
  <2>1. Recorded' = Recorded
    BY <1>g DEF Recorded
  <2>2. QED BY <1>0, <1>g, <2>1, LifeStep DEF KnownInv
\* A step of a reconcile that leaves the finalizer alone, in the object and in the copy.
<1>1. ASSUME pc \notin {"idle", "deferSpec", "deferStatus"}, pc' # "delFind",
             mem'.fin = mem.fin, nm'.live = nm.live, nm'.fin = nm.fin, nm'.del = nm.del,
             machine' = machine, ~nm.live => nm' = nm
      PROVE  ReleaseInv'
  <2>1. mem'.fin
    BY <1>1 DEF ReleaseInv
  <2>2. ~nm'.live => \A v \in Recorded' : ~Exists(v)'
    BY <1>1, <1>g DEF ReleaseInv
  <2>3. QED BY <1>0, <1>1, <2>1, <2>2 DEF ReleaseInv
<1>2. ASSUME pc \notin {"idle", "deferSpec", "deferStatus"}, pc' # "delFind",
             mem'.fin = mem.fin, UNCHANGED <<nm, machine>>
      PROVE  ReleaseInv'
  BY <1>1, <1>2
<1>e. ASSUME NEW t, ReturnErr(t), pc \notin {"idle", "deferSpec", "deferStatus"},
             UNCHANGED <<nm, machine>>
      PROVE  ReleaseInv'
  BY <1>0, <1>2, <1>e, ReturnErrCopy
<1>3. CASE StartDelete
  <2>1. /\ Read.live /\ Read.del /\ pc' = "delFind" /\ mem' = Read /\ base' = Read
        /\ UNCHANGED <<nm, machine>>
    BY <1>3 DEF StartDelete, Begin
  <2>2. /\ Read.prov = nm.prov /\ Read.uuid = nm.uuid
        /\ "life" \notin lapses' => nm.live
    BY <1>0, <1>3, <2>1, BeginUpToDate DEF StartDelete
  <2>3. Read.fin /\ nm.del
    BY <2>1 DEF Read, GuardInv
  <2>4. ~nm'.live => \A v \in Recorded' : ~Exists(v)'
    BY <1>g, <2>1 DEF ReleaseInv
  <2>5. QED BY <2>1, <2>2, <2>3, <2>4 DEF ReleaseInv
<1>4. CASE StartNormal \/ StartReady
  <2>1. /\ mem' = [Read EXCEPT !.fin = TRUE] /\ pc' # "delFind"
        /\ "life" \notin lapses' => nm.live
        /\ UNCHANGED <<nm, machine>>
    BY <1>0, <1>4, BeginUpToDate DEF StartNormal, StartReady, Begin
  <2>2. mem'.fin
    BY <1>0, <2>1 DEF NM
  <2>3. ~nm'.live => \A v \in Recorded' : ~Exists(v)'
    BY <1>g, <2>1 DEF ReleaseInv
  <2>4. QED BY <2>1, <2>2, <2>3 DEF ReleaseInv
<1>5. CASE FindByUUID \/ FindByName
  <2>1. UNCHANGED <<nm, machine>> /\ pc = "find"
    BY <1>5 DEF FindByUUID, FindByName, objVars
  <2>2. \/ ReturnErr(FALSE)
        \/ \E v : UseVM(v)
        \/ Goto("mint")
        \/ Goto("create")
    BY <1>5 DEF FindByUUID, FindByName
  <2>3. CASE (\E v : UseVM(v)) \/ Goto("mint") \/ Goto("create")
    BY <1>2, <2>1, <2>3 DEF UseVM, Goto
  <2>4. QED BY <1>e, <2>1, <2>2, <2>3
<1>6. CASE FindFails \/ CreateRejected \/ WaitFails \/ PowerOnFails \/ FinishFails
           \/ DeleteFails
  BY <1>e, <1>6 DEF FindFails, CreateRejected, WaitFails, PowerOnFails, FinishFails,
     DeleteFails, CallFails, objVars
<1>7. CASE Mint
  <2>1. PICK k \in ReqIDs :
           /\ nm.live
           /\ nm' = SpecPatch(nm, mem, [mem EXCEPT !.req = k])
           /\ (mem' = [mem EXCEPT !.req = k] /\ pc' = "create") \/ ReturnErr(FALSE)
    BY <1>7 DEF Mint
  <2> DEFINE keyed == [mem EXCEPT !.req = k]
  <2>2. keyed \in NM /\ keyed.fin = mem.fin
    BY <1>0 DEF NM
  <2>3. mem'.fin = mem.fin /\ pc' # "delFind"
    BY <1>0, <2>1, <2>2, ReturnErrCopy
  <2>4. nm' = SpecPatch(nm, mem, keyed)
    BY <2>1
  <2> HIDE DEF keyed
  <2>5. nm'.live = nm.live /\ nm'.fin = nm.fin /\ nm'.del = nm.del
    BY <1>0, <2>2, <2>4, SpecPatchStays
  <2>6. QED BY <1>1, <1>7, <2>1, <2>3, <2>5 DEF Mint
<1>8. CASE MintFails
  BY <1>e, <1>8 DEF MintFails, objVars
<1>9. CASE Create
  <2>1. UNCHANGED <<nm, machine>> /\ pc = "create"
    BY <1>9 DEF Create, objVars
  <2>2. ReturnErr(FALSE) \/ (mem' = mem /\ pc' = "wait")
    BY <1>9 DEF Create
  <2>3. QED BY <1>2, <1>e, <2>1, <2>2
<1>10. CASE WaitForVM
  <2>1. UNCHANGED <<nm, machine>> /\ pc = "wait"
    BY <1>10 DEF WaitForVM, objVars
  <2>2. \/ \E t \in BOOLEAN : ReturnErr(t)
        \/ /\ mem' = [mem EXCEPT !.prov = found, !.uuid = found]
           /\ pc' \in {"power", "recordSpec"}
    BY <1>10 DEF WaitForVM
  <2>3. [mem EXCEPT !.prov = found, !.uuid = found].fin = mem.fin
    BY <1>0 DEF NM
  <2>4. QED BY <1>2, <1>e, <2>1, <2>2, <2>3
<1>11. CASE RecordSpec
  <2>1. Before.fin = mem.fin
    BY <1>0 DEF Before, NM
  <2>2. CASE nm' = SpecPatch(nm, Before, mem) /\ nm.live
    <3>1. nm'.live = nm.live /\ nm'.fin = nm.fin /\ nm'.del = nm.del
      BY <1>0, <2>1, <2>2, SpecPatchStays
    <3>2. QED BY <1>1, <1>11, <2>2, <3>1 DEF RecordSpec
  <2>3. CASE nm' = nm
    BY <1>1, <1>11, <2>3 DEF RecordSpec
  <2>4. QED BY <1>11, <2>2, <2>3 DEF RecordSpec
\* A status patch.
<1>s. ASSUME NEW b \in NM, NEW a \in NM
      PROVE  LET s == StatusPatch(nm, b, a)
             IN /\ s.live = nm.live /\ s.fin = nm.fin /\ s.del = nm.del
                /\ ~nm.live => s = nm
  <2>1. /\ StatusPatch(nm, b, a).live = nm.live
        /\ ~nm.live => StatusPatch(nm, b, a) = nm
    BY <1>0, StatusPatchType
  <2>2. StatusPatch(nm, b, a).fin = nm.fin /\ StatusPatch(nm, b, a).del = nm.del
    BY <1>0, StatusPatchFields
  <2>3. QED BY <2>1, <2>2
<1>12. CASE RecordStatus
  <2>1. nm' = nm \/ nm' = StatusPatch(nm, Before, mem)
    BY <1>12 DEF RecordStatus
  <2>2. /\ nm'.live = nm.live /\ nm'.fin = nm.fin /\ nm'.del = nm.del
        /\ ~nm.live => nm' = nm
    BY <1>0, <1>s, <2>1
  <2>3. pc' \in {"power", "deferSpec"}
    BY <1>12 DEF RecordStatus
  <2>4. QED BY <1>1, <1>12, <2>2, <2>3 DEF RecordStatus
<1>13. CASE RunningVM \/ PowerOnVM \/ NilVMPanics \/ DeleteCheckTasks \/ DeleteAct
  <2>1. /\ UNCHANGED <<nm, machine>>
        /\ pc \in {"running", "power", "sync", "delTasks", "delAct"}
    BY <1>13 DEF RunningVM, PowerOnVM, NilVMPanics, DeleteCheckTasks, DeleteAct, objVars
  <2>2. \/ \E t \in BOOLEAN : ReturnErr(t)
        \/ \E l : l # "delFind" /\ Goto(l)
    BY <1>13 DEF RunningVM, PowerOnVM, NilVMPanics, DeleteCheckTasks, DeleteAct
  <2>3. CASE \E l : l # "delFind" /\ Goto(l)
    BY <1>2, <2>1, <2>3 DEF Goto
  <2>4. QED BY <1>e, <2>1, <2>2, <2>3
<1>14. CASE Refetch \/ Finish
  <2>1. mem'.fin = mem.fin
    BY <1>0, <1>14 DEF Refetch, Finish, NM
  <2>2. QED BY <1>2, <1>14, <2>1 DEF Refetch, Finish, objVars
<1>15. CASE SyncVmUUID
  <2>1. SyncTarget \in VMs \cup {None}
    BY <1>0 DEF SyncTarget, TypeOK, ObjTypeOK, ProcTypeOK
  <2>2. mem' \in NM /\ mem'.fin = mem.fin
    BY <1>0, <1>15, <2>1 DEF SyncVmUUID, NM
  <2>3. nm' = nm \/ nm' = StatusPatch(nm, mem, mem')
    BY <1>15 DEF SyncVmUUID
  <2>4. /\ nm'.live = nm.live /\ nm'.fin = nm.fin /\ nm'.del = nm.del
        /\ ~nm.live => nm' = nm
    BY <1>0, <1>s, <2>2, <2>3
  <2>5. pc' \in {"deferSpec", "finish"}
    BY <1>15 DEF SyncVmUUID
  <2>6. QED BY <1>1, <1>15, <2>2, <2>4, <2>5 DEF SyncVmUUID
<1>16. CASE DeleteLookup
  <2>0. UNCHANGED <<nm, machine, vmState>> /\ pc = "delFind"
    BY <1>16 DEF DeleteLookup, objVars, prismVars
  <2>1. CASE mem' = mem /\ pc' = "delTasks"
    BY <1>2, <2>0, <2>1
  <2>2. CASE /\ GetVMUUID(mem) = None \/ ~Exists(GetVMUUID(mem))
             /\ mem' = [mem EXCEPT !.fin = FALSE] /\ pc' = "deferSpec"
             /\ base' = base
    <3>1. /\ nm.del
          /\ mem.prov = nm.prov /\ mem.uuid = nm.uuid
          /\ base.prov = nm.prov /\ base.uuid = nm.uuid
      BY <2>0 DEF ReleaseInv
    <3>2. mem'.prov = mem.prov /\ mem'.uuid = mem.uuid
      BY <1>0, <2>2 DEF NM
    <3>3. ASSUME NEW v \in Recorded PROVE ~Exists(v)
      <4>1. v \in {mem.prov, mem.uuid} /\ v # None
        BY <3>1, <3>3 DEF Recorded
      <4>2. GetVMUUID(mem) # None
        BY <4>1 DEF GetVMUUID
      <4>3. GetVMUUID(mem) = v
        BY <3>3, <4>2 DEF AgreeInv, GetVMUUID, Named, Recorded
      <4>4. QED BY <2>2, <4>2, <4>3
    <3>4. \A v \in Recorded' : ~Exists(v)'
      BY <1>g, <2>0, <3>3
    <3>5. QED BY <2>0, <2>2, <3>1, <3>2, <3>4 DEF ReleaseInv
  <2>3. QED BY <1>16, <2>1, <2>2 DEF DeleteLookup
<1>17. CASE DeferSpec
  <2>0. UNCHANGED <<machine, mem, base>> /\ pc' = "deferStatus" /\ pc = "deferSpec"
    BY <1>17 DEF DeferSpec, Goto
  <2>1. CASE nm' = nm
    BY <1>0, <1>g, <2>0, <2>1 DEF ReleaseInv
  <2>2. CASE nm' = SpecPatch(nm, base, mem) /\ ~nm.live
    BY <2>1, <2>2 DEF SpecPatch
  <2>3. CASE nm' = SpecPatch(nm, base, mem) /\ nm.live
    <3>1. /\ nm'.fin = IF base.fin # mem.fin THEN mem.fin ELSE nm.fin
          /\ nm'.live = (nm'.fin \/ ~nm.del)
      BY <1>0, <2>3, SpecPatchFields
    <3>2. nm'.del = nm.del
      BY <1>0, <2>3, SpecPatchType
    <3>3. CASE mem.fin
      <4>1. nm.fin => nm'.fin
        BY <3>1, <3>3
      <4>2. nm'.live
        BY <1>0, <2>3, <3>1, <4>1
      <4>3. QED BY <2>0, <3>3, <4>2 DEF ReleaseInv
    <3>4. CASE ~mem.fin
      <4>1. /\ nm.del /\ mem.prov = base.prov /\ mem.uuid = base.uuid
            /\ \A v \in Recorded : ~Exists(v)
        BY <2>0, <3>4 DEF ReleaseInv
      <4>2. nm'.prov = nm.prov /\ nm'.uuid = nm.uuid
        BY <1>0, <2>3, <4>1, SpecPatchUUIDs
      <4>3. \A v \in Recorded' : ~Exists(v)'
        BY <1>g, <4>1, <4>2
      <4>4. QED BY <2>0, <3>2, <3>4, <4>1, <4>3 DEF ReleaseInv
    <3>5. QED BY <3>3, <3>4
  <2>4. QED BY <1>17, <2>1, <2>2, <2>3 DEF DeferSpec
\* The end of a reconcile.
<1>18. ASSUME pc' = "idle", machine' = machine, nm'.live = nm.live, nm'.fin = nm.fin,
              nm'.del = nm.del, ~nm.live => nm' = nm
       PROVE  ReleaseInv'
  BY <1>g, <1>18 DEF ReleaseInv
<1>19. CASE DeferStatus
  <2>1. nm' = nm \/ nm' = StatusPatch(nm, base, mem)
    BY <1>19 DEF DeferStatus
  <2>2. QED BY <1>0, <1>s, <1>18, <1>19, <2>1 DEF DeferStatus, Rest
<1>20. CASE Crash
  BY <1>18, <1>20 DEF Crash, Rest
\* The world around.
<1>21. ASSUME UNCHANGED procVars, nm' = nm PROVE ReleaseInv'
  BY <1>0, <1>g, <1>21 DEF ReleaseInv, procVars
<1>22. CASE UserDeletes
  <2>1. /\ nm.live /\ ~nm.del /\ nm'.del /\ nm'.live = nm.fin
        /\ nm'.prov = nm.prov /\ nm'.uuid = nm.uuid
        /\ UNCHANGED <<pc, mem, base>>
    BY <1>0, <1>22 DEF UserDeletes, NM, procVars
  <2>2. nm.fin
    BY <1>0, <1>22 DEF UserDeletes
  <2>3. pc # "delFind" /\ (pc # "idle" => mem.fin)
    BY <2>1 DEF ReleaseInv
  <2>4. QED BY <2>1, <2>2, <2>3 DEF ReleaseInv
<1>23. CASE \/ CacheSync \/ BootstrapReady \/ MachineTakesProviderID \/ NodeRegisters
            \/ \E v \in VMs : WorkloadAttachesVG(v) \/ PrismFault(v) \/ PrismStep(v)
  BY <1>21, <1>23 DEF CacheSync, WorkloadAttachesVG, PrismFault, PrismStep, objVars,
     BootstrapReady, MachineTakesProviderID, NodeRegisters
<1>26. CASE UNCHANGED vars
  BY <1>21, <1>26 DEF vars, objVars
<1>27. QED
  BY <1>3, <1>4, <1>5, <1>6, <1>7, <1>8, <1>9, <1>10, <1>11, <1>12, <1>13, <1>14,
     <1>15, <1>16, <1>17, <1>19, <1>20, <1>22, <1>23, <1>26
     DEF Next, Reconcile, Environment

\* Nothing is known, bound or recorded of a new machine.
LEMMA ReleaseInit == Init => KnownInv /\ GuardInv /\ AgreeInv /\ ReleaseInv
<1> SUFFICES ASSUME Init PROVE KnownInv /\ GuardInv /\ AgreeInv /\ ReleaseInv
  OBVIOUS
<1>1. /\ nm = NewNM /\ cache = NewNM /\ mem = NewNM /\ base = NewNM /\ found = None
      /\ pc = "idle" /\ machine.prov = None /\ machine.sys = None
  BY DEF Init
<1>2. Known = {}
  BY <1>1 DEF Known, NewNM
<1>3. \A k \in ReqIDs : byKey[k] = None
  BY DEF Init, PrismInit
<1>4. KnownInv
  BY <1>1, <1>2, <1>3 DEF KnownInv
<1>5. GuardInv /\ AgreeInv /\ ReleaseInv
  BY <1>1 DEF GuardInv, AgreeInv, Named, HasVM, ReleaseInv, NewNM
<1>6. QED BY <1>4, <1>5
-----------------------------------------------------------------------------
(* A machine that nothing happened to, on either path: one VM as well.     *)

\* No fault so far, and every pass began with what the API server had.
Calm == lapses = {} /\ faults = 0

\* The steps of a reconcile that wants the machine to run.
NormalPCs == {"find", "mint", "create", "wait", "recordSpec", "recordStatus",
              "running", "power", "refetch", "sync", "finish"}

\* The object, or a copy of it, names every VM there is or was.
Names(o) == \A v \in VMs : Born(v) => o.prov = v /\ o.uuid = v

\* The VM is named by the object between reconciles and by the copy during one, except
\* while it is created; and what the copy names gets to the object.
OwnedInv ==
    /\ pc = "idle" => Names(nm)
    /\ pc \notin {"idle", "wait"} => Names(mem)
    /\ pc = "wait" => /\ \A v \in VMs : Born(v) => v = found
                      /\ nm.prov = base.prov /\ nm.uuid = base.uuid
    /\ pc \in {"mint", "create"} => \A v \in VMs : ~Born(v)
    /\ pc # "idle" => /\ nm.prov \in {base.prov, mem.prov}
                      /\ nm.uuid \in {base.uuid, mem.uuid}
                      /\ base.prov # None => mem.prov # None
                      /\ base.uuid # None => mem.uuid # None
    /\ pc = "deferStatus" => nm.prov = mem.prov

\* A reconcile that wants the machine to run meets no deletion of the VM, and a VM is
\* deleted for a deletion only.
QuietInv ==
    /\ pc \in NormalPCs => \A v \in VMs : tasks[v] = {} /\ vmState[v] # "gone"
    /\ \A v \in VMs : vmState[v] # "failed"
    /\ \A v \in VMs : tasks[v] # {} => nm.del /\ Exists(v)
    /\ \A v \in VMs : vmState[v] = "gone" => nm.del
    /\ \A v \in index : Born(v)

\* Only a machine with its UUIDs is ready, in the API server, the cache and the copy.
ReadyInv ==
    /\ nm.ready => nm.prov # None /\ nm.uuid # None
    /\ cache.ready => cache.prov # None /\ cache.uuid # None
    /\ pc # "idle" /\ mem.ready => mem.prov # None /\ mem.uuid # None
    /\ pc \in {"sync", "finish"} => found # None

CalmInv == /\ NoNilDereference /\ KnownInv /\ ReleaseInv /\ DetachInv /\ GuardInv
           /\ AgreeInv /\ OwnedInv /\ QuietInv /\ ReadyInv

\* A machine that is calm was calm, and no call fails.
LEMMA NoFault ==
    ASSUME TypeOK, Calm', [Next]_vars PROVE Calm /\ ~Fault /\ lapses' = {}
<1>1. faults \in Nat
  BY DEF TypeOK
<1>2. QED BY <1>1, HistoryStep DEF Calm, Fault

\* There is one VM at most.
LEMMA CalmOneVM ==
    ASSUME TypeOK, CalmInv PROVE Single
<1>0. \A v \in VMs : vmState[v] # "none" => Born(v)
  BY DEF CalmInv, QuietInv, Born
<1>1. CASE pc = "wait"
  BY <1>0, <1>1 DEF CalmInv, OwnedInv, Single
<1>2. CASE pc = "idle"
  BY <1>0, <1>2 DEF CalmInv, OwnedInv, Names, Single
<1>3. CASE pc \notin {"idle", "wait"}
  BY <1>0, <1>3 DEF CalmInv, OwnedInv, Names, Single
<1>4. QED BY <1>1, <1>2, <1>3

\* During a reconcile every UUID known is the one in the copy.
LEMMA KnownIsNamed ==
    ASSUME TypeOK, CalmInv, pc \notin {"idle", "wait"}, NEW u \in Known
    PROVE  u \in VMs /\ Born(u) /\ mem.prov = u /\ mem.uuid = u
BY KnownType DEF CalmInv, KnownInv, OwnedInv, Names, Once, Born

\* No step but a create brings a VM into being, and without faults none fails.
LEMMA BornStep ==
    ASSUME TypeOK, Calm', CalmInv, [Next]_vars, pc # "create"
    PROVE  \A v \in VMs : /\ Born(v)' <=> Born(v)
                          /\ vmState'[v] # "failed"
<1>0. /\ PrismTypeOK /\ ~Fault
      /\ \A v \in VMs : vmState[v] # "failed" /\ (tasks[v] # {} => Exists(v))
  BY NoFault DEF TypeOK, CalmInv, QuietInv
<1>1. CASE vmState' = vmState
  BY <1>0, <1>1 DEF Born
<1>2. ASSUME NEW w \in VMs, CreateDone(w) \/ DeleteDone(w)
      PROVE  \A v \in VMs : (Born(v)' <=> Born(v)) /\ vmState'[v] # "failed"
  <2>1. vmState[w] \in {"creating", "off", "on"} /\ vmState'[w] \in {"off", "gone"}
    BY <1>0, <1>2 DEF CreateDone, DeleteDone, PrismTypeOK, Exists
  <2>2. \A v \in VMs : v # w => vmState'[v] = vmState[v]
    BY <1>0, <1>2 DEF CreateDone, DeleteDone, PrismTypeOK
  <2>3. QED BY <1>0, <2>1, <2>2 DEF Born
<1>3. CASE PowerOn(found)
  BY <1>0, <1>3 DEF PowerOn, PrismTypeOK, Born, Exists
<1>4. QED
  BY <1>0, <1>1, <1>2, <1>3, NextPrism DEF PrismTask, DetachDone, IndexCatchesUp,
     AttachVG, StartTask, prismVars
\* No step without faults is one of a failed call.
LEMMA CalmNext ==
    ASSUME TypeOK, Calm', ReleaseInv, [Next]_vars
    PROVE  ~\/ FindFails \/ CreateRejected \/ WaitFails \/ PowerOnFails \/ FinishFails
            \/ DeleteFails \/ Crash \/ MintFails \/ \E v \in VMs : PrismFault(v)
<1>1. ~Fault
  BY NoFault
<1>2. ~MintFails
  BY <1>1, HistoryStep DEF MintFails, NotDone, ReleaseInv, Calm
<1>3. QED
  BY <1>1, <1>2 DEF FindFails, CreateRejected, WaitFails, PowerOnFails, FinishFails,
     DeleteFails, CallFails, Crash, PrismFault

\* No step loses track of the VM.
LEMMA OwnedStep ==
    ASSUME TypeOK, Calm', CalmInv, [Next]_vars PROVE OwnedInv'
<1>0. /\ nm \in NM /\ mem \in NM /\ base \in NM /\ Read \in NM /\ Before \in NM /\ ~Fault
      /\ found \in VMs \cup {None} /\ lapses' = {}
      /\ KnownInv /\ ReleaseInv /\ OwnedInv /\ QuietInv /\ ReadyInv
  BY BeforeType, ReadType, NoFault DEF TypeOK, ObjTypeOK, ProcTypeOK, CalmInv
<1>1. pc # "create" => \A v \in VMs : Born(v)' <=> Born(v)
  BY BornStep
\* A step of a reconcile that leaves the UUIDs alone.
<1>2. ASSUME pc \notin {"idle", "wait", "create"},
             pc' \notin {"idle", "wait", "mint", "create", "deferStatus"},
             mem'.prov = mem.prov, mem'.uuid = mem.uuid, base' = base,
             nm'.prov \in {nm.prov, mem.prov}, nm'.uuid \in {nm.uuid, mem.uuid}
      PROVE  OwnedInv'
  BY <1>0, <1>1, <1>2 DEF OwnedInv, Names
<1>3. CASE StartDelete \/ StartNormal \/ StartReady
  <2>1. /\ pc = "idle" /\ pc' \in {"delFind", "find", "deferSpec", "sync"}
        /\ base' = Read /\ nm' = nm /\ mem' \in {Read, [Read EXCEPT !.fin = TRUE]}
        /\ Read.prov = nm.prov /\ Read.uuid = nm.uuid
    BY <1>0, <1>3, BeginUpToDate DEF StartDelete, StartNormal, StartReady, Begin
  <2>2. mem'.prov = nm.prov /\ mem'.uuid = nm.uuid
    BY <1>0, <2>1 DEF NM
  <2>3. Names(mem)'
    BY <1>0, <1>1, <2>1, <2>2 DEF OwnedInv, Names
  <2>4. QED BY <2>1, <2>2, <2>3 DEF OwnedInv
\* With nothing known there is nothing.
<1>n. ASSUME pc = "find", GetVMUUID(mem) = None PROVE \A v \in VMs : ~Born(v)
  BY <1>0, <1>n DEF OwnedInv, Names, GetVMUUID
<1>4. CASE FindByUUID \/ FindByName
  <2>1. pc = "find" /\ nm' = nm
    BY <1>4 DEF FindByUUID, FindByName, objVars
  <2>2. CASE ReturnErr(FALSE)
    BY <1>0, <1>2, <2>1, <2>2, ReturnErrCopy
  <2>3. CASE \E v : UseVM(v)
    BY <1>2, <2>1, <2>3 DEF UseVM
  <2>4. CASE GetVMUUID(mem) = None /\ (Goto("mint") \/ Goto("create"))
    <3>1. pc' \in {"mint", "create"} /\ mem' = mem /\ base' = base
      BY <2>4 DEF Goto
    <3>2. \A v \in VMs : ~Born(v)'
      BY <1>1, <1>n, <2>1, <2>4
    <3>3. QED BY <1>0, <2>1, <3>1, <3>2 DEF OwnedInv, Names
  <2>5. QED BY <1>4, <2>2, <2>3, <2>4 DEF FindByUUID, FindByName
<1>5. CASE Mint
  <2>1. PICK k \in ReqIDs :
           /\ nm' = SpecPatch(nm, mem, [mem EXCEPT !.req = k])
           /\ mem' = [mem EXCEPT !.req = k] /\ pc' = "create" /\ base' = base
    BY <1>0, <1>5 DEF Mint, Lost
  <2> DEFINE keyed == [mem EXCEPT !.req = k]
  <2>2. keyed \in NM /\ keyed.prov = mem.prov /\ keyed.uuid = mem.uuid
    BY <1>0 DEF NM
  <2>3. nm' = SpecPatch(nm, mem, keyed) /\ mem' = keyed
    BY <2>1
  <2> HIDE DEF keyed
  <2>4. nm'.prov = nm.prov /\ nm'.uuid = nm.uuid
    BY <1>0, <2>2, <2>3, SpecPatchUUIDs
  <2>5. pc = "mint" /\ \A v \in VMs : ~Born(v)'
    BY <1>0, <1>1, <1>5 DEF Mint, OwnedInv
  <2>6. QED BY <1>0, <2>1, <2>2, <2>3, <2>4, <2>5 DEF OwnedInv, Names
<1>6. CASE Create
  <2>1. PICK v \in VMs : /\ Submit(v) /\ found' = v /\ pc' = "wait"
                         /\ UNCHANGED <<mem, base, nm>>
    BY <1>0, <1>6 DEF Create, Lost, objVars
  <2>2. pc = "create" /\ \A w \in VMs : ~Born(w)
    BY <1>0, <1>6 DEF Create, OwnedInv
  <2>3. ASSUME NEW w \in VMs, w # v PROVE ~Born(w)'
    <3>1. vmState'[w] = vmState[w]
      BY <2>1, <2>3 DEF Submit, CreateWithKey, CreateWithoutKey, TypeOK, PrismTypeOK
    <3>2. QED BY <2>2, <3>1 DEF Born
  <2>4. Known = {}
    BY <2>2, KnownIsNamed
  <2>5. nm.prov = None /\ nm.uuid = None /\ base.prov = None /\ base.uuid = None
    BY <2>4 DEF Known
  <2>6. QED BY <1>0, <2>1, <2>2, <2>3, <2>5 DEF OwnedInv
<1>7. CASE WaitForVM
  <2>1. /\ pc = "wait" /\ vmState[found] # "failed" /\ found \in VMs /\ nm' = nm
        /\ base' = base
    BY <1>0, <1>7, ReturnErrPlace DEF WaitForVM, KnownInv, QuietInv, objVars
  <2>2. /\ mem' = [mem EXCEPT !.prov = found, !.uuid = found]
        /\ pc' \in {"power", "recordSpec"}
    BY <1>7, <2>1 DEF WaitForVM
  <2>3. mem'.prov = found /\ mem'.uuid = found
    BY <1>0, <2>2 DEF NM
  <2>4. Names(mem)'
    BY <1>0, <1>1, <2>1, <2>3 DEF OwnedInv, Names
  <2>5. nm.prov = base.prov /\ nm.uuid = base.uuid
    BY <1>0, <2>1 DEF OwnedInv
  <2>6. found # None
    BY <2>1
  <2>7. QED BY <2>1, <2>2, <2>3, <2>4, <2>5, <2>6 DEF OwnedInv
<1>8. CASE RecordSpec
  <2>1. nm'.prov \in {nm.prov, mem.prov} /\ nm'.uuid = nm.uuid
    BY <1>0, <1>8, SpecPatchUUIDs DEF RecordSpec
  <2>2. QED BY <1>2, <1>8, <2>1 DEF RecordSpec
<1>9. CASE RecordStatus
  <2>1. nm'.uuid \in {nm.uuid, mem.uuid} /\ nm'.prov = nm.prov
    BY <1>0, <1>9, StatusPatchUUIDs DEF RecordStatus
  <2>2. pc' \in {"power", "deferSpec"}
    BY <1>9 DEF RecordStatus
  <2>3. QED BY <1>2, <1>9, <2>1, <2>2 DEF RecordStatus
<1>10. CASE RunningVM \/ PowerOnVM \/ NilVMPanics \/ DeleteCheckTasks \/ DeleteAct
  <2>1. nm' = nm /\ pc \in {"running", "power", "sync", "delTasks", "delAct"}
    BY <1>10 DEF RunningVM, PowerOnVM, NilVMPanics, DeleteCheckTasks, DeleteAct, objVars
  <2>2. CASE \E t \in BOOLEAN : ReturnErr(t)
    BY <1>0, <1>2, <2>1, <2>2, ReturnErrCopy
  <2>3. CASE \E l \in {"sync", "refetch", "delAct", "deferSpec"} : Goto(l)
    BY <1>2, <2>1, <2>3 DEF Goto
  <2>4. QED BY <1>10, <2>2, <2>3 DEF RunningVM, PowerOnVM, NilVMPanics,
            DeleteCheckTasks, DeleteAct
<1>11. CASE Refetch \/ Finish \/ DeleteLookup
  <2>1. mem'.prov = mem.prov /\ mem'.uuid = mem.uuid
    BY <1>0, <1>11 DEF Refetch, Finish, DeleteLookup, NM
  <2>2. /\ nm' = nm /\ base' = base /\ pc \in {"refetch", "finish", "delFind"}
        /\ pc' \in {"sync", "deferSpec", "delTasks"}
    BY <1>11 DEF Refetch, Finish, DeleteLookup, objVars
  <2>3. QED BY <1>2, <2>1, <2>2
<1>12. CASE SyncVmUUID
  <2>1. pc = "sync" /\ SyncTarget \in Known
    BY <1>0, <1>12 DEF SyncVmUUID, SyncTarget, ReadyInv, Known
  <2>2. SyncTarget = mem.uuid
    BY <2>1, KnownIsNamed DEF CalmInv
  <2>3. mem' \in NM /\ mem'.uuid = mem.uuid /\ mem'.prov = mem.prov
    BY <1>0, <1>12, <2>2 DEF SyncVmUUID, NM
  <2>4. nm'.uuid = nm.uuid /\ nm'.prov = nm.prov
    <3>1. nm' = nm \/ nm' = StatusPatch(nm, mem, mem')
      BY <1>12 DEF SyncVmUUID
    <3>2. /\ StatusPatch(nm, mem, mem').uuid = nm.uuid
          /\ StatusPatch(nm, mem, mem').prov = nm.prov
      BY <1>0, <2>3, StatusPatchUUIDs
    <3>3. QED BY <3>1, <3>2
  <2>5. base' = base /\ pc' \in {"deferSpec", "finish"}
    BY <1>12 DEF SyncVmUUID
  <2>6. QED BY <1>2, <2>1, <2>3, <2>4, <2>5
\* A reconcile that finds the object gone was a deletion and kept to what was there.
<1>d. ASSUME pc # "idle", pc # "wait", ~nm.live
      PROVE  /\ nm.prov = mem.prov /\ nm.uuid = mem.uuid
  BY <1>0, <1>d, HistoryStep DEF ReleaseInv, OwnedInv, Calm
<1>13. CASE DeferSpec
  <2>1. /\ UNCHANGED <<mem, base>> /\ pc = "deferSpec" /\ pc' = "deferStatus"
        /\ nm' = SpecPatch(nm, base, mem)
    BY <1>0, <1>13 DEF DeferSpec, Goto, NotDone
  <2>2. nm'.uuid = nm.uuid
    BY <1>0, <2>1, SpecPatchUUIDs
  <2>3. nm'.prov = mem.prov
    <3>1. CASE ~nm.live
      BY <1>d, <2>1, <3>1 DEF SpecPatch
    <3>2. CASE nm.live
      <4>1. nm'.prov = IF base.prov # mem.prov THEN mem.prov ELSE nm.prov
        BY <1>0, <2>1, <3>2 DEF SpecPatch, NM
      <4>2. nm.prov \in {base.prov, mem.prov}
        BY <1>0, <2>1 DEF OwnedInv
      <4>3. QED BY <4>1, <4>2
    <3>3. QED BY <3>1, <3>2
  <2>4. QED BY <1>0, <1>1, <2>1, <2>2, <2>3 DEF OwnedInv, Names
<1>14. CASE DeferStatus
  <2>1. pc = "deferStatus" /\ pc' = "idle" /\ nm' = StatusPatch(nm, base, mem)
    BY <1>0, <1>14 DEF DeferStatus, NotDone, Rest
  <2>2. nm'.prov = mem.prov
    BY <1>0, <2>1, StatusPatchUUIDs DEF OwnedInv
  <2>3. nm'.uuid = mem.uuid
    <3>1. CASE ~nm.live
      BY <1>d, <2>1, <3>1 DEF StatusPatch
    <3>2. CASE nm.live
      <4>1. nm'.uuid = IF base.uuid # mem.uuid THEN mem.uuid ELSE nm.uuid
        BY <1>0, <2>1, <3>2 DEF StatusPatch, NM
      <4>2. nm.uuid \in {base.uuid, mem.uuid}
        BY <1>0, <2>1 DEF OwnedInv
      <4>3. QED BY <4>1, <4>2
    <3>3. QED BY <3>1, <3>2
  <2>4. Names(nm)'
    BY <1>0, <1>1, <2>1, <2>2, <2>3 DEF OwnedInv, Names
  <2>5. QED BY <2>1, <2>4 DEF OwnedInv
\* The world around.
<1>15. ASSUME UNCHANGED procVars, nm'.prov = nm.prov, nm'.uuid = nm.uuid,
              \A v \in VMs : Born(v)' <=> Born(v)
       PROVE  OwnedInv'
  BY <1>0, <1>15 DEF OwnedInv, Names, procVars
<1>16. CASE UserDeletes
  <2>1. vmState' = vmState /\ nm'.prov = nm.prov /\ nm'.uuid = nm.uuid
    BY <1>0, <1>16 DEF UserDeletes, prismVars, NM
  <2>2. QED BY <1>15, <1>16, <2>1 DEF UserDeletes, Born
<1>17. CASE CacheSync \/ BootstrapReady \/ MachineTakesProviderID \/ NodeRegisters
            \/ UNCHANGED vars
  BY <1>15, <1>17 DEF CacheSync, BootstrapReady, MachineTakesProviderID, NodeRegisters,
     vars, objVars, prismVars, Born
<1>18. CASE \E v \in VMs : WorkloadAttachesVG(v) \/ PrismStep(v)
  <2>1. UNCHANGED procVars /\ nm' = nm
    BY <1>18 DEF WorkloadAttachesVG, PrismStep, objVars
  <2>2. CASE pc # "create"
    BY <1>1, <1>15, <2>1, <2>2
  <2>3. CASE pc = "create"
    <3>1. PICK v \in VMs : WorkloadAttachesVG(v) \/ PrismStep(v)
      BY <1>18
    <3>2. \A w \in VMs : ~Born(w) /\ tasks[w] = {}
      BY <1>0, <2>3 DEF OwnedInv, QuietInv, NormalPCs
    <3>3. vmState' = vmState
      BY <3>1, <3>2 DEF WorkloadAttachesVG, AttachVG, PrismStep, PrismTask, CreateDone,
         DetachDone, DeleteDone, IndexCatchesUp, Born
    <3>4. QED BY <1>15, <2>1, <3>3 DEF Born
  <2>4. QED BY <2>2, <2>3
<1>19. QED
  BY <1>0, <1>3, <1>4, <1>5, <1>6, <1>7, <1>8, <1>9, <1>10, <1>11, <1>12, <1>13,
     <1>14, <1>16, <1>17, <1>18, CalmNext DEF Next, Reconcile, Environment

\* No step lets a deletion and a reconcile that wants the machine to run meet.
LEMMA QuietStep ==
    ASSUME TypeOK, Calm', CalmInv, [Next]_vars PROVE QuietInv'
<1>0. /\ ~Fault /\ lapses' = {} /\ found \in VMs \cup {None} /\ PrismTypeOK
      /\ ReleaseInv /\ DetachInv /\ OwnedInv /\ QuietInv
  BY NoFault DEF TypeOK, ProcTypeOK, CalmInv
<1>d. nm.del => nm'.del
  BY DelStays
\* The part about the VMs.
<1>v. ASSUME pc # "create"
      PROVE  /\ \A v \in VMs : vmState'[v] # "failed"
             /\ \A v \in index' : Born(v)'
             /\ \A v \in VMs : tasks'[v] # {} => nm'.del /\ Exists(v)'
             /\ \A v \in VMs : vmState'[v] = "gone" => nm'.del
  <2>1. \A v \in VMs : (Born(v)' <=> Born(v)) /\ vmState'[v] # "failed"
    BY <1>v, BornStep
  <2>2. \A v \in index' : Born(v)
    <3>1. CASE index' = index
      BY <1>0, <3>1 DEF QuietInv
    <3>2. CASE \E v \in VMs : IndexCatchesUp(v)
      BY <1>0, <3>2 DEF QuietInv, IndexCatchesUp, Exists, Born
    <3>3. QED
      BY <1>0, <1>v, <3>1, <3>2, NextPrism DEF prismVars, PrismTask, CreateDone,
         DetachDone, DeleteDone, AttachVG, PowerOn, StartTask
  <2>3. index' \subseteq VMs
    BY NextType DEF TypeOK, PrismTypeOK
  <2>4. \A v \in VMs : tasks'[v] # {} => nm.del /\ Exists(v)'
    <3>1. CASE tasks' = tasks /\ vmState' = vmState
      BY <1>0, <3>1 DEF QuietInv, Exists
    <3>2. CASE \E v \in VMs : CreateDone(v)
      BY <1>0, <3>2 DEF QuietInv, CreateDone, Exists, PrismTypeOK
    <3>3. CASE \E v \in VMs : DetachDone(v) \/ DeleteDone(v)
      BY <1>0, <3>3 DEF QuietInv, DetachDone, DeleteDone, Exists, PrismTypeOK
    <3>4. CASE PowerOn(found)
      BY <1>0, <3>4 DEF QuietInv, PowerOn, Exists, PrismTypeOK
    <3>5. CASE pc = "delAct" /\ \E t : StartTask(found, t)
      <4>1. nm.del
        BY <1>0, <3>5 DEF DetachInv
      <4>2. QED BY <1>0, <3>5, <4>1 DEF QuietInv, StartTask, Exists, PrismTypeOK
    <3>6. QED
      BY <1>0, <1>v, <3>1, <3>2, <3>3, <3>4, <3>5, NextPrism DEF prismVars, PrismTask,
         IndexCatchesUp, AttachVG
  <2>5. \A v \in VMs : vmState'[v] = "gone" => nm.del
    <3>1. CASE vmState' = vmState
      BY <1>0, <3>1 DEF QuietInv
    <3>2. CASE \E v \in VMs : CreateDone(v) \/ DeleteDone(v)
      BY <1>0, <3>2 DEF QuietInv, CreateDone, DeleteDone, PrismTypeOK
    <3>3. CASE PowerOn(found)
      BY <1>0, <3>3 DEF QuietInv, PowerOn, PrismTypeOK
    <3>4. QED
      BY <1>0, <1>v, <3>1, <3>2, <3>3, NextPrism DEF prismVars, PrismTask, DetachDone,
         IndexCatchesUp, AttachVG, StartTask
  <2>6. QED BY <1>d, <2>1, <2>2, <2>3, <2>4, <2>5
\* The reconcile that wants the machine to run is not disturbed.
<1>t. ASSUME pc \in NormalPCs, pc # "create"
      PROVE  \A v \in VMs : tasks'[v] = {} /\ vmState'[v] # "gone"
  <2>1. \A v \in VMs : tasks[v] = {} /\ vmState[v] # "gone"
    BY <1>0, <1>t DEF QuietInv
  <2>2. pc # "delAct"
    BY <1>t DEF NormalPCs
  <2>3. CASE tasks' = tasks /\ vmState' = vmState
    BY <2>1, <2>3
  <2>4. CASE \E v \in VMs : CreateDone(v)
    BY <1>0, <2>1, <2>4 DEF CreateDone, PrismTypeOK
  <2>5. CASE PowerOn(found)
    BY <1>0, <2>1, <2>5 DEF PowerOn, PrismTypeOK
  <2>6. QED
    BY <1>0, <1>t, <2>1, <2>2, <2>3, <2>4, <2>5, NextPrism DEF prismVars, PrismTask,
       DetachDone, DeleteDone, IndexCatchesUp, AttachVG
\* Only a pass that begins with the object not deleted goes where no deletion may be.
<1>1. ASSUME pc # "create", pc' \in NormalPCs => pc \in NormalPCs PROVE QuietInv'
  BY <1>1, <1>t, <1>v DEF QuietInv
<1>2. CASE StartNormal \/ StartReady
  <2>1. ~nm.del /\ pc = "idle" /\ UNCHANGED prismVars
    BY <1>0, <1>2, BeginUpToDate DEF StartNormal, StartReady, Begin
  <2>2. \A v \in VMs : tasks'[v] = {} /\ vmState'[v] # "gone"
    BY <1>0, <2>1 DEF QuietInv, prismVars
  <2>3. QED BY <1>v, <2>1, <2>2 DEF QuietInv
<1>3. CASE Create
  <2>1. PICK v \in VMs : Submit(v)
    BY <1>3 DEF Create
  <2>2. pc = "create" /\ \A w \in VMs : ~Born(w)
    BY <1>0, <1>3 DEF Create, OwnedInv
  <2>3. /\ tasks' = tasks /\ index' = index
        /\ \/ vmState' = vmState
           \/ vmState' = [vmState EXCEPT ![v] = "creating"]
    BY <2>1 DEF Submit, CreateWithKey, CreateWithoutKey
  <2>4. \A w \in VMs : tasks[w] = {} /\ vmState[w] # "gone"
    BY <1>0, <2>2 DEF QuietInv, NormalPCs
  <2>5. \A w \in VMs : vmState'[w] # "failed" /\ vmState'[w] # "gone"
    BY <1>0, <2>3, <2>4 DEF QuietInv, PrismTypeOK
  <2>6. index = {}
    BY <1>0, <2>2 DEF QuietInv, PrismTypeOK
  <2>7. QED BY <2>3, <2>4, <2>5, <2>6 DEF QuietInv
<1>4. CASE FindByUUID \/ FindByName \/ Mint \/ WaitForVM \/ RecordSpec \/ RecordStatus
           \/ RunningVM \/ PowerOnVM \/ Refetch \/ NilVMPanics \/ SyncVmUUID \/ Finish
  <2>1. pc \in NormalPCs /\ pc # "create"
    BY <1>4 DEF FindByUUID, FindByName, Mint, WaitForVM, RecordSpec, RecordStatus,
       RunningVM, PowerOnVM, Refetch, NilVMPanics, SyncVmUUID, Finish, NormalPCs
  <2>2. QED BY <1>1, <2>1
<1>5. CASE StartDelete \/ DeleteLookup \/ DeleteCheckTasks \/ DeleteAct \/ DeferSpec
           \/ DeferStatus
  <2>1. pc # "create" /\ pc' \notin NormalPCs
    BY <1>5, ReturnErrPlace DEF StartDelete, Begin, DeleteLookup, DeleteCheckTasks, DeleteAct,
       DeferSpec, DeferStatus, Goto, Rest, NormalPCs
  <2>2. QED BY <1>1, <2>1
\* The world around.
<1>6. CASE \/ UserDeletes \/ BootstrapReady \/ MachineTakesProviderID \/ NodeRegisters
           \/ CacheSync \/ UNCHANGED vars
  <2>1. UNCHANGED <<vmState, tasks, index, pc>>
    BY <1>6 DEF UserDeletes, BootstrapReady, MachineTakesProviderID, NodeRegisters,
       CacheSync, vars, prismVars, procVars
  <2>2. QED BY <1>0, <1>d, <2>1 DEF QuietInv, Exists, Born
<1>7. CASE \E v \in VMs : WorkloadAttachesVG(v) \/ PrismStep(v)
  <2>1. pc' = pc /\ nm' = nm
    BY <1>7 DEF WorkloadAttachesVG, PrismStep, objVars, procVars
  <2>2. CASE pc # "create"
    BY <1>1, <2>1, <2>2
  <2>3. CASE pc = "create"
    <3>1. PICK v \in VMs : WorkloadAttachesVG(v) \/ PrismStep(v)
      BY <1>7
    <3>2. \A w \in VMs : ~Born(w) /\ tasks[w] = {}
      BY <1>0, <2>3 DEF OwnedInv, QuietInv, NormalPCs
    <3>3. /\ UNCHANGED <<vmState, tasks>> /\ index' \subseteq index
      BY <3>1, <3>2 DEF WorkloadAttachesVG, AttachVG, PrismStep, PrismTask, CreateDone,
         DetachDone, DeleteDone, IndexCatchesUp, Born, Exists
    <3>4. QED BY <1>0, <2>1, <3>3 DEF QuietInv, Exists, Born
  <2>4. QED BY <2>2, <2>3
<1>8. QED
  BY <1>0, <1>2, <1>3, <1>4, <1>5, <1>6, <1>7, CalmNext DEF Next, Reconcile, Environment

\* No step makes a machine ready that lacks a UUID.
LEMMA ReadyStep ==
    ASSUME TypeOK, Calm', CalmInv, [Next]_vars PROVE ReadyInv'
<1>0. /\ nm \in NM /\ mem \in NM /\ base \in NM /\ Read \in NM /\ Before \in NM /\ ~Fault
      /\ found \in VMs \cup {None} /\ NoNilDereference /\ lapses' = {}
      /\ KnownInv /\ ReleaseInv /\ OwnedInv /\ QuietInv /\ ReadyInv
  BY BeforeType, ReadType, NoFault DEF TypeOK, ObjTypeOK, ProcTypeOK, CalmInv
\* The cache takes over what the API server has.
<1>c. cache'.ready => cache'.prov # None /\ cache'.uuid # None
  BY <1>0, ObjMoves DEF ReadyInv
\* What the object names, the copy names.
<1>n. pc # "idle" => /\ nm.prov # None => mem.prov # None
                     /\ nm.uuid # None => mem.uuid # None
  BY <1>0 DEF OwnedInv
\* A patch takes UUIDs of the copy, and readiness with them.
<1>1. ASSUME pc # "idle", nm'.prov \in {nm.prov, mem.prov}, nm'.uuid \in {nm.uuid, mem.uuid},
             nm'.ready = nm.ready,
             mem'.prov = mem.prov, mem'.uuid = mem.uuid, mem'.ready = mem.ready,
             pc' \notin {"sync", "finish"}
      PROVE  ReadyInv'
  BY <1>0, <1>1, <1>c, <1>n DEF ReadyInv
<1>2. CASE StartDelete \/ StartNormal \/ StartReady
  <2>1. /\ nm' = nm /\ mem' \in {Read, [Read EXCEPT !.fin = TRUE]}
        /\ pc' # "finish"
        /\ pc' = "sync" => Read.ready /\ found' = Read.uuid
    BY <1>0, <1>2 DEF StartDelete, StartNormal, StartReady, Begin
  <2>2. mem'.prov = Read.prov /\ mem'.uuid = Read.uuid /\ mem'.ready = Read.ready
    BY <1>0, <2>1 DEF NM
  <2>3. Read.ready => Read.prov # None /\ Read.uuid # None
    BY <1>0 DEF Read, ReadyInv
  <2>4. QED BY <1>0, <1>c, <2>1, <2>2, <2>3 DEF ReadyInv
<1>e. ASSUME NEW t, ReturnErr(t), nm' = nm, pc # "idle" PROVE ReadyInv'
  <2>1. mem'.ready = mem.ready
    BY <1>0, <1>e DEF ReturnErr, NM
  <2>2. QED BY <1>0, <1>1, <1>e, <2>1, ReturnErrCopy
<1>k. ASSUME nm' = nm, mem' = mem, pc # "idle",
             pc' \in {"sync", "finish"} => found' # None
      PROVE  ReadyInv'
  BY <1>0, <1>c, <1>k DEF ReadyInv
<1>3. CASE FindByUUID \/ FindByName \/ RunningVM \/ PowerOnVM \/ NilVMPanics
           \/ DeleteCheckTasks \/ DeleteAct
  <2>1. /\ nm' = nm /\ pc # "idle"
    BY <1>3 DEF FindByUUID, FindByName, RunningVM, PowerOnVM, NilVMPanics,
       DeleteCheckTasks, DeleteAct, objVars
  <2>2. CASE \E t \in BOOLEAN : ReturnErr(t)
    BY <1>e, <2>1, <2>2
  <2>3. CASE \E v : UseVM(v)
    BY <1>k, <2>1, <2>3 DEF UseVM
  <2>4. CASE \E l \in {"mint", "create", "refetch", "delAct", "deferSpec"} : Goto(l)
    BY <1>k, <2>1, <2>4 DEF Goto
  <2>5. CASE pc = "running" /\ Goto("sync")
    BY <1>0, <1>k, <2>1, <2>5 DEF Goto, NoNilDereference, NeedsVM
  <2>6. QED BY <1>3, <2>2, <2>3, <2>4, <2>5 DEF FindByUUID, FindByName, RunningVM,
            PowerOnVM, NilVMPanics, DeleteCheckTasks, DeleteAct
<1>4. CASE Mint
  <2>1. PICK k \in ReqIDs :
           /\ nm' = SpecPatch(nm, mem, [mem EXCEPT !.req = k])
           /\ mem' = [mem EXCEPT !.req = k] /\ pc' = "create"
    BY <1>0, <1>4 DEF Mint, Lost
  <2> DEFINE keyed == [mem EXCEPT !.req = k]
  <2>2. /\ keyed \in NM /\ keyed.prov = mem.prov /\ keyed.uuid = mem.uuid
        /\ keyed.ready = mem.ready
    BY <1>0 DEF NM
  <2>3. nm' = SpecPatch(nm, mem, keyed) /\ mem' = keyed
    BY <2>1
  <2> HIDE DEF keyed
  <2>4. nm'.prov = nm.prov /\ nm'.uuid = nm.uuid
    BY <1>0, <2>2, <2>3, SpecPatchUUIDs
  <2>5. nm'.ready = nm.ready
    BY <1>0, <2>2, <2>3, SpecPatchType
  <2>6. QED BY <1>1, <1>4, <2>1, <2>2, <2>3, <2>4, <2>5 DEF Mint
<1>5. CASE Create
  BY <1>0, <1>e, <1>k, <1>5 DEF Create, objVars
<1>6. CASE WaitForVM
  <2>1. nm' = nm /\ pc = "wait" /\ found \in VMs
    BY <1>0, <1>6 DEF WaitForVM, KnownInv, objVars
  <2>2. CASE \E t \in BOOLEAN : ReturnErr(t)
    BY <1>e, <2>1, <2>2
  <2>3. CASE /\ mem' = [mem EXCEPT !.prov = found, !.uuid = found]
             /\ pc' \in {"power", "recordSpec"}
    <3>1. mem'.prov # None /\ mem'.uuid # None
      BY <1>0, <2>1, <2>3 DEF NM
    <3>2. QED BY <1>0, <1>c, <2>1, <2>3, <3>1 DEF ReadyInv
  <2>4. QED BY <1>6, <2>2, <2>3 DEF WaitForVM
<1>7. CASE RecordSpec
  <2>1. nm'.prov \in {nm.prov, mem.prov} /\ nm'.uuid = nm.uuid
    BY <1>0, <1>7, SpecPatchUUIDs DEF RecordSpec
  <2>2. nm'.ready = nm.ready
    BY <1>0, <1>7, SpecPatchType DEF RecordSpec
  <2>3. QED BY <1>1, <1>7, <2>1, <2>2 DEF RecordSpec
\* A status patch that makes nothing ready.
<1>s. ASSUME NEW b \in NM, NEW a \in NM, b.ready = a.ready
      PROVE  StatusPatch(nm, b, a).ready = nm.ready
  BY <1>0, <1>s DEF StatusPatch, NM
<1>8. CASE RecordStatus
  <2>1. nm'.uuid \in {nm.uuid, mem.uuid} /\ nm'.prov = nm.prov
    BY <1>0, <1>8, StatusPatchUUIDs DEF RecordStatus
  <2>2. Before.ready = mem.ready
    BY <1>0 DEF Before, NM
  <2>3. nm'.ready = nm.ready
    BY <1>0, <1>8, <1>s, <2>2 DEF RecordStatus
  <2>4. pc' \in {"power", "deferSpec"}
    BY <1>8 DEF RecordStatus
  <2>5. QED BY <1>1, <1>8, <2>1, <2>3, <2>4 DEF RecordStatus
<1>9. CASE Refetch
  <2>1. found # None /\ found \in Known
    BY <1>0, <1>9 DEF Refetch, NoNilDereference, NeedsVM, Known
  <2>2. Exists(found)
    BY <1>0, <1>9, <2>1 DEF Refetch, KnownInv, QuietInv, NormalPCs, Once, Exists
  <2>3. QED BY <1>k, <1>9, <2>1, <2>2 DEF Refetch, objVars
<1>10. CASE SyncVmUUID
  <2>1. pc = "sync" /\ found # None /\ SyncTarget \in Known
    BY <1>0, <1>10 DEF SyncVmUUID, SyncTarget, ReadyInv, Known
  <2>2. SyncTarget = mem.uuid
    BY <2>1, KnownIsNamed
  <2>3. mem' \in NM /\ mem'.uuid = mem.uuid /\ mem'.prov = mem.prov
        /\ mem'.ready = mem.ready
    BY <1>0, <1>10, <2>2 DEF SyncVmUUID, NM
  <2>4. nm' = nm \/ nm' = StatusPatch(nm, mem, mem')
    BY <1>10 DEF SyncVmUUID
  <2>5. nm'.uuid \in {nm.uuid, mem.uuid} /\ nm'.prov = nm.prov
    <3>1. /\ StatusPatch(nm, mem, mem').uuid = nm.uuid
          /\ StatusPatch(nm, mem, mem').prov = nm.prov
      BY <1>0, <2>3, StatusPatchUUIDs
    <3>2. QED BY <2>4, <3>1
  <2>6. nm'.ready = nm.ready
    BY <1>0, <1>s, <2>3, <2>4
  <2>7. found' = found
    BY <1>10 DEF SyncVmUUID
  <2>8. QED BY <1>0, <1>c, <1>n, <2>1, <2>3, <2>5, <2>6, <2>7 DEF ReadyInv
<1>11. CASE Finish
  <2>1. pc = "finish" /\ found # None /\ found \in Known /\ nm' = nm /\ pc' = "deferSpec"
    BY <1>0, <1>11 DEF Finish, ReadyInv, Known, objVars
  <2>2. mem.prov = found /\ mem.uuid = found
    BY <2>1, KnownIsNamed
  <2>3. mem'.prov = mem.prov /\ mem'.uuid = mem.uuid
    BY <1>0, <1>11 DEF Finish, NM
  <2>4. QED BY <1>0, <1>c, <2>1, <2>2, <2>3 DEF ReadyInv
<1>12. CASE DeleteLookup
  <2>1. /\ mem'.prov = mem.prov /\ mem'.uuid = mem.uuid /\ mem'.ready = mem.ready
    BY <1>0, <1>12 DEF DeleteLookup, NM
  <2>2. nm' = nm /\ pc = "delFind" /\ pc' \in {"delTasks", "deferSpec"}
    BY <1>12 DEF DeleteLookup, objVars
  <2>3. QED BY <1>1, <2>1, <2>2
<1>13. CASE DeferSpec
  <2>1. /\ mem' = mem /\ pc = "deferSpec" /\ pc' = "deferStatus"
        /\ nm' = SpecPatch(nm, base, mem)
    BY <1>0, <1>13 DEF DeferSpec, Goto, NotDone
  <2>2. nm'.prov \in {nm.prov, mem.prov} /\ nm'.uuid = nm.uuid
    BY <1>0, <2>1, SpecPatchUUIDs
  <2>3. nm'.ready = nm.ready
    BY <1>0, <2>1, SpecPatchType
  <2>4. QED BY <1>1, <2>1, <2>2, <2>3
<1>14. CASE DeferStatus
  <2>1. /\ pc = "deferStatus" /\ pc' = "idle" /\ nm' = StatusPatch(nm, base, mem)
    BY <1>0, <1>14 DEF DeferStatus, NotDone, Rest
  <2>2. nm'.prov = mem.prov
    BY <1>0, <2>1, StatusPatchUUIDs DEF OwnedInv
  <2>3. CASE ~nm.live
    <3>1. nm' = nm
      BY <2>1, <2>3 DEF StatusPatch
    <3>2. QED BY <1>0, <1>c, <2>1, <3>1 DEF ReadyInv
  <2>4. CASE nm.live
    <3>1. /\ nm'.uuid = IF base.uuid # mem.uuid THEN mem.uuid ELSE nm.uuid
          /\ nm'.ready = IF base.ready # mem.ready THEN mem.ready ELSE nm.ready
      BY <1>0, <2>1, <2>4 DEF StatusPatch, NM
    <3>2. nm'.uuid = mem.uuid
      BY <1>0, <2>1, <3>1 DEF OwnedInv
    <3>3. nm'.ready => mem.ready \/ nm.ready
      BY <3>1
    <3>4. nm'.ready => mem.prov # None /\ mem.uuid # None
      BY <1>0, <1>n, <2>1, <3>3 DEF ReadyInv
    <3>5. QED BY <1>c, <2>1, <2>2, <3>2, <3>4 DEF ReadyInv
  <2>5. QED BY <2>3, <2>4
\* The world around.
<1>15. ASSUME UNCHANGED procVars, nm'.prov = nm.prov, nm'.uuid = nm.uuid,
              nm'.ready = nm.ready
       PROVE  ReadyInv'
  BY <1>0, <1>c, <1>15 DEF ReadyInv, procVars
<1>16. CASE UserDeletes
  BY <1>0, <1>15, <1>16 DEF UserDeletes, NM
<1>17. CASE \/ CacheSync \/ BootstrapReady \/ MachineTakesProviderID \/ NodeRegisters
            \/ \E v \in VMs : WorkloadAttachesVG(v) \/ PrismStep(v)
            \/ UNCHANGED vars
  BY <1>15, <1>17 DEF CacheSync, BootstrapReady, MachineTakesProviderID, NodeRegisters,
     WorkloadAttachesVG, PrismStep, vars, objVars
<1>18. QED
  BY <1>0, <1>2, <1>3, <1>4, <1>5, <1>6, <1>7, <1>8, <1>9, <1>10, <1>11, <1>12, <1>13,
     <1>14, <1>16, <1>17, CalmNext DEF Next, Reconcile, Environment

\* A new machine has no VM.
LEMMA CalmInit == Init => CalmInv
<1> SUFFICES ASSUME Init PROVE CalmInv
  OBVIOUS
<1>1. /\ pc = "idle" /\ index = {} /\ nm = NewNM /\ cache = NewNM
      /\ \A v \in VMs : vmState[v] = "none" /\ tasks[v] = {} /\ vgs[v] = 0
  BY DEF Init, PrismInit
<1>2. NoNilDereference /\ KnownInv /\ GuardInv /\ AgreeInv /\ ReleaseInv
  BY NilInit, ReleaseInit
<1>3. DetachInv
  BY <1>1 DEF DetachInv, NewNM
<1>4. OwnedInv /\ QuietInv /\ ReadyInv
  BY <1>1 DEF OwnedInv, QuietInv, ReadyInv, NormalPCs, Names, Born, NewNM
<1>5. QED BY <1>2, <1>3, <1>4 DEF CalmInv

\* A machine that has not strayed, one that nothing happened to included, is tracked.
LEMMA CalmIsOnCourse == (Calm => ~Strayed) /\ (~Strayed => Tracked)
BY DEF Calm, Strayed, Tracked

\* The invariant of a machine that nothing happened to is inductive as long as nothing
\* does.
LEMMA CalmStep ==
    ASSUME TypeOK, Calm', CalmInv, [Next]_vars PROVE CalmInv'
<1>1. /\ NoNilDereference /\ KnownInv /\ ReleaseInv /\ DetachInv /\ GuardInv /\ AgreeInv
      /\ Tracked'
  BY CalmIsOnCourse, PTL DEF CalmInv
<1>2. NoNilDereference' /\ DetachInv' /\ GuardInv'
  BY <1>1, NilStep, DetachStep, GuardStep
<1>3. KnownInv' /\ AgreeInv' /\ ReleaseInv'
  BY <1>1, KnownStep, AgreeStep, ReleaseStep
<1>4. OwnedInv' /\ QuietInv' /\ ReadyInv'
  BY OwnedStep, QuietStep, ReadyStep
<1>5. QED BY <1>2, <1>3, <1>4 DEF CalmInv
-----------------------------------------------------------------------------
(* All of it together: each part holds as long as its history allows.      *)

MachineInv ==
    /\ NoNilDereference /\ KnownInv /\ DetachInv /\ GuardInv
    /\ Keyed => KeyInv
    /\ Tracked => AgreeInv /\ ReleaseInv
    /\ Calm => CalmInv

\* All parts hold of a new machine.
LEMMA MachineInit == Init => MachineInv
BY CalmInit, KeyInit DEF MachineInv, CalmInv

\* A machine that has not strayed is on one of the two paths that have one VM.
LEMMA OnCourse ==
    ASSUME TypeOK, ~Strayed
    PROVE  lapses = {} /\ (Keyed \/ Calm)
<1>1. faults \in Nat /\ machine.profile \in BOOLEAN
  BY DEF TypeOK, ObjTypeOK
<1>2. QED BY <1>1 DEF Strayed, Keyed, Calm

\* ... so that it has one VM at most.
LEMMA OnCourseOneVM ==
    ASSUME TypeOK, MachineInv, ~Strayed PROVE Single
BY OnCourse, OneKeyOneVM, CalmOneVM DEF MachineInv, Single

\* What did not happen by the end of a step had not happened before it.
LEMMA HistoryBack ==
    ASSUME TypeOK, [Next]_vars
    PROVE  /\ Keyed' => Keyed
           /\ ~Strayed' => ~Strayed
           /\ Tracked' => Tracked
           /\ Calm' => Calm
<1>1. faults \in Nat /\ machine.profile \in BOOLEAN /\ faults' \in Nat
  BY NextType DEF TypeOK, ObjTypeOK
<1>2. QED BY <1>1, HistoryStep DEF Keyed, Strayed, Tracked, Calm

\* No step breaks any part.
LEMMA MachineStep == TypeOK /\ MachineInv /\ [Next]_vars => MachineInv'
<1> SUFFICES ASSUME TypeOK, MachineInv, [Next]_vars PROVE MachineInv'
  OBVIOUS
<1>1. NoNilDereference' /\ KnownInv' /\ DetachInv' /\ GuardInv'
  BY NilStep, KnownStep, DetachStep, GuardStep DEF MachineInv
<1>2. Keyed' => KeyInv'
  BY HistoryBack, KeyStep DEF MachineInv
<1>3. Tracked' => AgreeInv' /\ ReleaseInv'
  BY HistoryBack, AgreeStep, ReleaseStep DEF MachineInv
<1>4. Calm' => CalmInv'
  BY HistoryBack, CalmStep DEF MachineInv
<1>5. QED BY <1>1, <1>2, <1>3, <1>4 DEF MachineInv

\* A machine never gets a second VM, for any number of lost answers, crashes, failed tasks
\* and VMs deleted behind its back, however old the copies its passes begin with, unless a
\* pass began with a copy that lacks the stored request id; from a VM profile, where no
\* request id is sent, unless it strayed (getOrMintVMCreationRequestID, getOrCreateVM).
THEOREM OneVM == Spec => []AtMostOneVM
<1>1. TypeOK /\ MachineInv => AtMostOneVM
  <2> SUFFICES ASSUME TypeOK, MachineInv PROVE AtMostOneVM
    OBVIOUS
  <2>1. machine.profile \in BOOLEAN
    BY DEF TypeOK, ObjTypeOK
  <2>2. CASE machine.profile
    BY <2>2, OnCourseOneVM DEF AtMostOneVM, Single, Born
  <2>3. CASE ~machine.profile
    BY <2>3, OneKeyOneVM DEF MachineInv, Keyed, AtMostOneVM, Born
  <2>4. QED BY <2>1, <2>2, <2>3
<1>2. QED BY <1>1, InitType, NextType, MachineInit, MachineStep, PTL DEF Spec

\* The object never leaves the API server while a VM it has recorded exists, whatever
\* fails, is lost or crashes, on both create paths, also where a second VM was made: unless
\* a pass began with a copy that lacks a UUID of the object, or the deletion was faster
\* than the finalizer (reconcileDelete).
THEOREM ObjectOutlivesVM == Spec => []RecordedVMGone
<1>1. MachineInv => RecordedVMGone
  BY DEF MachineInv, Tracked, ReleaseInv, RecordedVMGone, Recorded
<1>2. QED BY <1>1, InitType, NextType, MachineInit, MachineStep, PTL DEF Spec
-----------------------------------------------------------------------------
(* The refinement of MachineContract.                                      *)

\* What the contract calls object, used, owned and doomed; it calls Recorded recorded.
Object == IF ~nm.live THEN "released" ELSE IF nm.del THEN "deleting" ELSE "kept"
Used == {v \in VMs : vmState[v] # "none"}
Owned == {v \in VMs : vmState[v] \in {"creating", "off", "on"}}
Doomed == {v \in VMs : "delete" \in tasks[v]}

\* The steps of the contract, in those terms.
LEMMA ContractMoves ==
    ASSUME ~Strayed, ~Strayed',
           \/ UNCHANGED <<Object, Used, Owned, Doomed, Recorded>>
           \/ \E v \in VMs : /\ Object # "released" /\ Used = {}
                             /\ Used' = {v} /\ Owned' = {v}
                             /\ UNCHANGED <<Object, Doomed, Recorded>>
           \/ /\ Recorded' \subseteq Used /\ Recorded # Recorded'
              /\ UNCHANGED <<Object, Used, Owned, Doomed>>
           \/ /\ Object = "kept" /\ Object' = "deleting"
              /\ UNCHANGED <<Used, Owned, Doomed, Recorded>>
           \/ \E v \in VMs : /\ Object = "deleting" /\ v \in Owned
                             /\ Doomed' = Doomed \cup {v}
                             /\ UNCHANGED <<Object, Used, Owned, Recorded>>
           \/ \E v \in VMs : /\ v \in Owned
                             /\ Owned' = Owned \ {v} /\ Doomed' = Doomed \ {v}
                             /\ UNCHANGED <<Object, Used, Recorded>>
           \/ /\ Object = "deleting" /\ Recorded \cap Owned = {}
              /\ Object' = "released"
              /\ UNCHANGED <<Used, Owned, Doomed, Recorded>>
    PROVE  [Promise!ContractNext]_(Promise!cvars)
<1>1. Strayed' = Strayed
  BY DEF Strayed
<1>2. QED
  BY <1>1 DEF Promise!ContractNext, Promise!Provision, Promise!Record,
     Promise!RequestDelete, Promise!Doom, Promise!Vanish, Promise!Release, Promise!cvars,
     Object, Used, Owned, Doomed, Recorded

\* Only the user and the deferred patch change whether the object is there or deleted.
LEMMA ObjectStep ==
    ASSUME TypeOK, GuardInv, [Next]_vars, ~UserDeletes, ~DeferSpec
    PROVE  nm'.live = nm.live /\ nm'.del = nm.del
<1>0. /\ nm \in NM /\ mem \in NM /\ base \in NM /\ Before \in NM
      /\ nm.live /\ nm.del => nm.fin
  BY BeforeType DEF TypeOK, ObjTypeOK, ProcTypeOK, GuardInv
<1>1. CASE nm' = nm
  BY <1>1
<1>2. CASE Mint
  <2>1. PICK k \in ReqIDs : nm' = SpecPatch(nm, mem, [mem EXCEPT !.req = k])
    BY <1>2 DEF Mint
  <2> DEFINE keyed == [mem EXCEPT !.req = k]
  <2>2. keyed \in NM /\ keyed.fin = mem.fin /\ nm' = SpecPatch(nm, mem, keyed)
    BY <1>0, <2>1 DEF NM
  <2> HIDE DEF keyed
  <2>3. QED BY <1>0, <2>2, SpecPatchStays
<1>3. CASE RecordSpec
  <2>1. Before.fin = mem.fin
    BY <1>0 DEF Before, NM
  <2>2. CASE nm' = SpecPatch(nm, Before, mem)
    BY <1>0, <2>1, <2>2, SpecPatchStays
  <2>3. QED BY <1>1, <1>3, <2>2 DEF RecordSpec
<1>s. ASSUME NEW b \in NM, NEW a \in NM
      PROVE  StatusPatch(nm, b, a).live = nm.live /\ StatusPatch(nm, b, a).del = nm.del
  <2>1. StatusPatch(nm, b, a).live = nm.live
    BY <1>0, StatusPatchType
  <2>2. StatusPatch(nm, b, a).del = nm.del
    BY <1>0, StatusPatchFields
  <2>3. QED BY <2>1, <2>2
<1>4. CASE RecordStatus
  BY <1>0, <1>1, <1>4, <1>s DEF RecordStatus
<1>5. CASE SyncVmUUID
  <2>1. mem' \in NM
    BY NextType DEF TypeOK, ProcTypeOK
  <2>2. nm' = nm \/ nm' = StatusPatch(nm, mem, mem')
    BY <1>5 DEF SyncVmUUID
  <2>3. QED BY <1>0, <1>s, <2>1, <2>2
<1>6. CASE DeferStatus
  BY <1>0, <1>1, <1>6, <1>s DEF DeferStatus
<1>7. CASE StartDelete \/ StartNormal \/ StartReady \/ FindByUUID \/ FindByName
           \/ MintFails \/ Create \/ WaitForVM \/ RunningVM \/ PowerOnVM \/ Refetch
           \/ NilVMPanics \/ Finish \/ DeleteLookup \/ DeleteCheckTasks \/ DeleteAct
           \/ Crash
  BY <1>1, <1>7 DEF StartDelete, StartNormal, StartReady, Begin, FindByUUID, FindByName,
     MintFails, Create, WaitForVM, RunningVM, PowerOnVM, Refetch, NilVMPanics, Finish,
     DeleteLookup, DeleteCheckTasks, DeleteAct, Crash, objVars
<1>8. CASE \/ FindFails \/ CreateRejected \/ WaitFails \/ PowerOnFails \/ FinishFails
           \/ DeleteFails
  BY <1>1, <1>8 DEF FindFails, CreateRejected, WaitFails, PowerOnFails, FinishFails,
     DeleteFails, CallFails, objVars
<1>9. CASE \/ BootstrapReady \/ MachineTakesProviderID \/ NodeRegisters \/ CacheSync
           \/ \E v \in VMs : WorkloadAttachesVG(v) \/ PrismFault(v) \/ PrismStep(v)
           \/ UNCHANGED vars
  BY <1>1, <1>9 DEF BootstrapReady, MachineTakesProviderID, NodeRegisters, CacheSync,
     WorkloadAttachesVG, PrismFault, PrismStep, vars, objVars
<1>10. QED
  BY <1>2, <1>3, <1>4, <1>5, <1>6, <1>7, <1>8, <1>9 DEF Next, Reconcile, Environment

\* A step changes Prism or the stored object, not both.
LEMMA OneAtATime ==
    ASSUME [Next]_vars PROVE UNCHANGED prismVars \/ nm' = nm
<1>1. CASE StartDelete \/ StartNormal \/ StartReady \/ FindByUUID \/ FindByName \/ Mint
           \/ MintFails \/ WaitForVM \/ RecordSpec \/ RecordStatus \/ RunningVM \/ Refetch
           \/ NilVMPanics \/ SyncVmUUID \/ Finish \/ DeleteLookup \/ DeleteCheckTasks
           \/ DeferSpec \/ DeferStatus \/ Crash
  BY <1>1 DEF StartDelete, StartNormal, StartReady, Begin, FindByUUID, FindByName, Mint,
     MintFails, WaitForVM, RecordSpec, RecordStatus, RunningVM, Refetch, NilVMPanics,
     SyncVmUUID, Finish, DeleteLookup, DeleteCheckTasks, DeferSpec, DeferStatus, Crash
<1>2. CASE \/ FindFails \/ CreateRejected \/ WaitFails \/ PowerOnFails \/ FinishFails
           \/ DeleteFails
  BY <1>2 DEF FindFails, CreateRejected, WaitFails, PowerOnFails, FinishFails,
     DeleteFails, CallFails
<1>3. CASE Create \/ PowerOnVM \/ DeleteAct
  BY <1>3 DEF Create, PowerOnVM, DeleteAct, objVars
<1>4. CASE Environment \/ CacheSync \/ (\E v \in VMs : PrismStep(v)) \/ UNCHANGED vars
  BY <1>4 DEF Environment, UserDeletes, BootstrapReady, MachineTakesProviderID,
     NodeRegisters, WorkloadAttachesVG, PrismFault, CacheSync, PrismStep, vars, objVars
<1>5. QED BY <1>1, <1>2, <1>3, <1>4 DEF Next, Reconcile

\* What leaves Prism alone leaves the contract's view of it alone.
LEMMA PrismView == UNCHANGED prismVars => UNCHANGED <<Used, Owned, Doomed>>
BY DEF prismVars, Used, Owned, Doomed

\* A request for a VM is the first one, and made for an object that is there.
LEMMA ContractCreate ==
    ASSUME TypeOK, MachineInv, ~Strayed, ~Strayed', Create
    PROVE  [Promise!ContractNext]_(Promise!cvars)
<1>0. /\ PrismTypeOK /\ ProcTypeOK /\ NoNilDereference /\ KnownInv /\ ReleaseInv
      /\ machine.profile \in BOOLEAN /\ lapses = {}
  BY CalmIsOnCourse, OnCourse DEF TypeOK, ObjTypeOK, MachineInv
<1>1. PICK v \in VMs : Submit(v)
  BY DEF Create
<1>2. pc = "create" /\ nm' = nm
  BY DEF Create, objVars
<1>3. UNCHANGED <<Object, Recorded>> /\ Object # "released"
  BY <1>0, <1>2 DEF ReleaseInv, Object, Recorded
<1>4. tasks' = tasks
  BY <1>1 DEF Submit, CreateWithKey, CreateWithoutKey
<1>5. CASE vmState' = vmState
  <2>1. UNCHANGED <<Used, Owned, Doomed>>
    BY <1>4, <1>5 DEF Used, Owned, Doomed
  <2>2. QED BY <1>3, <2>1, ContractMoves
<1>6. CASE vmState' = [vmState EXCEPT ![v] = "creating"] /\ \A w \in VMs : vmState[w] = "none"
  <2>1. /\ vmState'[v] = "creating"
        /\ \A w \in VMs : w # v => vmState'[w] = "none"
    BY <1>0, <1>6 DEF PrismTypeOK
  <2>2. Used = {} /\ Used' = {v} /\ Owned' = {v} /\ Doomed' = Doomed
    BY <1>4, <1>6, <2>1 DEF Used, Owned, Doomed
  <2>3. QED BY <1>3, <2>2, ContractMoves
<1>7. CASE machine.profile
  <2>1. Calm /\ CreateWithoutKey(v)
    BY <1>1, <1>7, OnCourse DEF Keyed, Submit
  <2>2. OwnedInv /\ QuietInv
    BY <2>1 DEF MachineInv, CalmInv
  <2>3. \A w \in VMs : vmState[w] = "none"
    BY <1>2, <2>2 DEF OwnedInv, QuietInv, Born
  <2>4. QED BY <1>6, <2>1, <2>3 DEF CreateWithoutKey
<1>8. CASE ~machine.profile
  <2>1. KeyInv /\ CreateWithKey(mem.req, v)
    BY <1>1, <1>8 DEF Submit, MachineInv, Keyed, Strayed
  <2>2. mem.req = nm.req /\ mem.req \in ReqIDs
    BY <1>0, <1>2, <2>1 DEF KeyInv, NoNilDereference, ProcTypeOK, NM
  <2>3. CASE byKey[mem.req] = None /\ vmState' = [vmState EXCEPT ![v] = "creating"]
    <3>1. \A k \in ReqIDs : byKey[k] = None
      BY <2>1, <2>2, <2>3 DEF KeyInv
    <3>2. \A w \in VMs : vmState[w] = "none"
      BY <2>1, <3>1 DEF KeyInv
    <3>3. QED BY <1>6, <2>3, <3>2
  <2>4. QED BY <1>5, <2>1, <2>3 DEF CreateWithKey
<1>9. QED BY <1>0, <1>7, <1>8

\* A task runs on a VM that exists.
LEMMA TasksExist ==
    ASSUME TypeOK, MachineInv, ~Strayed PROVE \A v \in VMs : tasks[v] # {} => Exists(v)
BY OnCourse DEF MachineInv, KeyInv, CalmInv, QuietInv

\* What Prism does, and what it is asked to do with a VM that is there, is the contract's.
LEMMA ContractPrism ==
    ASSUME TypeOK, MachineInv, ~Strayed, ~Strayed', [Next]_vars, nm' = nm, ~Create
    PROVE  [Promise!ContractNext]_(Promise!cvars)
<1>0. /\ PrismTypeOK /\ DetachInv /\ ReleaseInv /\ found \in VMs \cup {None}
      /\ lapses = {} /\ \A v \in VMs : tasks[v] # {} => Exists(v)
  BY TasksExist, CalmIsOnCourse, OnCourse DEF TypeOK, ProcTypeOK, MachineInv
<1>1. UNCHANGED <<Object, Recorded>>
  BY DEF Object, Recorded
<1>2. CASE UNCHANGED <<Used, Owned, Doomed>>
  BY <1>1, <1>2, ContractMoves
<1>3. CASE \E v \in VMs : DeleteDone(v) \/ OperatorDestroys(v) \/ CreateFails(v)
  <2>1. PICK v \in VMs : DeleteDone(v) \/ OperatorDestroys(v) \/ CreateFails(v)
    BY <1>3
  <2>2. /\ vmState[v] \in {"creating", "off", "on"} /\ vmState'[v] \in {"gone", "failed"}
        /\ \A w \in VMs : w # v => vmState'[w] = vmState[w]
    BY <1>0, <2>1 DEF DeleteDone, OperatorDestroys, CreateFails, PrismTypeOK, Exists
  <2>3. /\ "delete" \notin tasks'[v]
        /\ \A w \in VMs : w # v => tasks'[w] = tasks[w]
    BY <1>0, <2>1 DEF DeleteDone, OperatorDestroys, CreateFails, PrismTypeOK, Exists
  <2>4. v \in Owned /\ Owned' = Owned \ {v} /\ Used' = Used
    BY <2>2 DEF Owned, Used
  <2>5. Doomed' = Doomed \ {v}
    BY <2>3 DEF Doomed
  <2>6. QED BY <1>1, <2>4, <2>5, ContractMoves
<1>4. CASE \E v \in VMs : CreateDone(v) \/ DetachDone(v) \/ IndexCatchesUp(v) \/ AttachVG(v)
  <2>1. PICK v \in VMs : CreateDone(v) \/ DetachDone(v) \/ IndexCatchesUp(v) \/ AttachVG(v)
    BY <1>4
  <2>2. \A w \in VMs : /\ vmState'[w] # "none" <=> vmState[w] # "none"
                       /\ vmState'[w] \in {"creating", "off", "on"}
                            <=> vmState[w] \in {"creating", "off", "on"}
    BY <1>0, <2>1 DEF CreateDone, DetachDone, IndexCatchesUp, AttachVG, PrismTypeOK
  <2>3. \A w \in VMs : "delete" \in tasks'[w] <=> "delete" \in tasks[w]
    BY <1>0, <2>1 DEF CreateDone, DetachDone, IndexCatchesUp, AttachVG, PrismTypeOK
  <2>4. QED BY <1>2, <2>2, <2>3 DEF Used, Owned, Doomed
<1>5. CASE PowerOn(found)
  <2>1. \A w \in VMs : /\ vmState'[w] # "none" <=> vmState[w] # "none"
                       /\ vmState'[w] \in {"creating", "off", "on"}
                            <=> vmState[w] \in {"creating", "off", "on"}
    BY <1>0, <1>5 DEF PowerOn, Exists, PrismTypeOK
  <2>2. tasks' = tasks
    BY <1>5 DEF PowerOn
  <2>3. QED BY <1>2, <2>1, <2>2 DEF Used, Owned, Doomed
<1>6. CASE pc = "delAct" /\ \E t : StartTask(found, t)
  <2>1. PICK t : StartTask(found, t)
    BY <1>6
  <2>2. found \in VMs /\ Object = "deleting"
    BY <1>0, <1>6 DEF DetachInv, ReleaseInv, Object
  <2>3. UNCHANGED <<Used, Owned>>
    BY <2>1 DEF StartTask, Used, Owned
  <2>4. CASE ~Exists(found) \/ t # "delete"
    <3>1. \A w \in VMs : "delete" \in tasks'[w] <=> "delete" \in tasks[w]
      BY <1>0, <2>1, <2>2, <2>4 DEF StartTask, PrismTypeOK
    <3>2. QED BY <1>2, <2>3, <3>1 DEF Doomed
  <2>5. CASE Exists(found) /\ t = "delete"
    <3>1. \A w \in VMs : "delete" \in tasks'[w] <=> "delete" \in tasks[w] \/ w = found
      BY <1>0, <2>1, <2>2, <2>5 DEF StartTask, PrismTypeOK
    <3>2. Doomed' = Doomed \cup {found} /\ found \in Owned
      BY <2>2, <2>5, <3>1 DEF Doomed, Owned, Exists
    <3>3. QED BY <1>1, <2>2, <2>3, <3>2, ContractMoves
  <2>6. QED BY <2>4, <2>5
<1>7. CASE UNCHANGED prismVars
  BY <1>2, <1>7, PrismView
<1>8. QED
  BY <1>3, <1>4, <1>5, <1>6, <1>7, NextPrism DEF PrismTask

\* A patch records a VM that was asked for, or releases the object when what it recorded
\* is gone.
LEMMA ContractPatch ==
    ASSUME TypeOK, MachineInv, ~Strayed, ~Strayed', [Next]_vars, UNCHANGED prismVars,
           ~UserDeletes
    PROVE  [Promise!ContractNext]_(Promise!cvars)
<1>0. /\ nm \in NM /\ mem \in NM /\ base \in NM /\ KnownInv /\ KnownInv' /\ ReleaseInv
      /\ GuardInv /\ TypeOK' /\ UNCHANGED <<Used, Owned, Doomed>>
      /\ nm.live \in BOOLEAN /\ nm.del \in BOOLEAN
  BY NextType, KnownStep, PrismView, CalmIsOnCourse
     DEF TypeOK, ObjTypeOK, ProcTypeOK, MachineInv, NM
<1>1. Recorded' \subseteq Used
  <2>1. Known' \subseteq VMs
    BY <1>0 DEF TypeOK, ObjTypeOK, ProcTypeOK, NM, Known
  <2>2. \A v \in Recorded' : v \in Known'
    BY DEF Recorded, Known
  <2>3. \A v \in Recorded' : vmState'[v] # "none"
    BY <1>0, <2>2 DEF KnownInv, Once
  <2>4. vmState' = vmState
    BY DEF prismVars
  <2>5. QED BY <2>1, <2>2, <2>3, <2>4 DEF Used
<1>2. CASE Object' = Object
  BY <1>0, <1>1, <1>2, ContractMoves
<1>3. CASE Object' # Object
  <2>1. DeferSpec
    BY <1>0, <1>3, ObjectStep DEF Object
  <2>2. nm' = SpecPatch(nm, base, mem) /\ pc = "deferSpec"
    BY <1>3, <2>1 DEF DeferSpec, Object
  <2>3. nm.live
    BY <1>3, <2>2 DEF SpecPatch, Object
  <2>4. nm'.del = nm.del
    BY <1>0, <2>2, SpecPatchType
  <2>5. /\ nm'.fin = IF base.fin # mem.fin THEN mem.fin ELSE nm.fin
        /\ nm'.live = (nm'.fin \/ ~nm.del)
    BY <1>0, <2>2, <2>3, SpecPatchFields
  <2>6. ~nm'.live /\ nm.del
    BY <1>0, <1>3, <2>3, <2>4, <2>5 DEF Object
  <2>7. ~mem.fin
    BY <1>0, <2>3, <2>5, <2>6 DEF GuardInv
  <2>8. mem.prov = base.prov /\ \A v \in Recorded : ~Exists(v)
    BY <1>0, <2>2, <2>7 DEF ReleaseInv
  <2>9. Recorded' = Recorded
    BY <1>0, <2>2, <2>8, SpecPatchUUIDs DEF Recorded
  <2>10. Recorded \cap Owned = {}
    <3>1. Recorded \subseteq Known
      BY DEF Recorded, Known
    <3>2. \A v \in Recorded : vmState[v] = "gone"
      BY <1>0, <2>8, <3>1 DEF KnownInv, Once, Exists
    <3>3. QED BY <3>2 DEF Owned
  <2>11. Object = "deleting" /\ Object' = "released"
    BY <2>3, <2>6 DEF Object
  <2>12. QED BY <1>0, <2>9, <2>10, <2>11, ContractMoves
<1>4. QED BY <1>2, <1>3

\* Every step is one of the contract or none.
LEMMA ContractStep ==
    ASSUME TypeOK, MachineInv, [Next]_vars
    PROVE  [Promise!ContractNext]_(Promise!cvars)
<1>1. CASE Strayed'
  BY <1>1 DEF Promise!ContractNext
<1>2. CASE ~Strayed'
  <2>1. ~Strayed
    BY <1>2, HistoryBack
  <2>2. CASE UserDeletes
    <3>1. nm.live /\ ~nm.del /\ nm' = [nm EXCEPT !.del = TRUE, !.live = nm.fin]
          /\ UNCHANGED prismVars
      BY <2>2 DEF UserDeletes
    <3>2. nm.fin
      BY <1>2, <2>2 DEF UserDeletes, Strayed
    <3>3. /\ nm'.live /\ nm'.del /\ nm'.prov = nm.prov /\ nm'.uuid = nm.uuid
      BY <3>1, <3>2 DEF TypeOK, ObjTypeOK, NM
    <3>4. Object = "kept" /\ Object' = "deleting" /\ Recorded' = Recorded
      BY <3>1, <3>3 DEF Object, Recorded
    <3>5. QED BY <1>2, <2>1, <3>1, <3>4, PrismView, ContractMoves
  <2>3. CASE Create
    BY <1>2, <2>1, <2>3, ContractCreate
  <2>4. CASE nm' = nm /\ ~Create
    BY <1>2, <2>1, <2>4, ContractPrism
  <2>5. CASE UNCHANGED prismVars /\ ~UserDeletes
    BY <1>2, <2>1, <2>5, ContractPatch
  <2>6. QED BY <2>2, <2>3, <2>4, <2>5, OneAtATime
<1>3. QED BY <1>1, <1>2

\* Every step of the reconciler and of the world around it is one the contract allows, or
\* changes nothing the contract speaks of, as long as the machine has not strayed: one VM,
\* asked to go for a deletion only, and an object that is released after what it recorded
\* (reconcileNormal, reconcileDelete).
THEOREM MachineKeepsContract == Spec => KeepsPromise
<1>1. Init => Promise!ContractInit
  <2> SUFFICES ASSUME Init PROVE Promise!ContractInit
    OBVIOUS
  <2>1. \A v \in VMs : vmState[v] = "none" /\ tasks[v] = {}
    BY DEF Init, PrismInit
  <2>2. nm.live /\ ~nm.del /\ nm.prov = None /\ nm.uuid = None
    BY DEF Init, NewNM
  <2>3. ~Strayed
    BY DEF Init, Strayed
  <2>4. QED BY <2>1, <2>2, <2>3 DEF Promise!ContractInit
<1>2. TypeOK /\ MachineInv /\ [Next]_vars => [Promise!ContractNext]_(Promise!cvars)
  BY ContractStep
<1>3. QED
  BY <1>1, <1>2, InitType, NextType, MachineInit, MachineStep, PTL
     DEF Spec, KeepsPromise, Promise!ContractSafety
=============================================================================
