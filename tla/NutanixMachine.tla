--------------------------- MODULE NutanixMachine ---------------------------
(***************************************************************************)
(* The life of one NutanixMachine under NutanixMachineReconciler           *)
(* (controllers/nutanixmachine_controller.go): the object in the API       *)
(* server, the informer cache the controller reads it from, the reconcile  *)
(* in progress with its in-memory copy, and the VM service of PrismVMs.    *)
(*                                                                         *)
(* A reconcile is cut at every call that leaves the process, because the   *)
(* user, the API server, Prism and a crash of the manager may all act      *)
(* between two calls.  Reconciles of one object never overlap              *)
(* (controller-runtime serialises a key), so there is one pc.              *)
(*                                                                         *)
(* This is the path of a Machine outside a metro failure domain.           *)
(***************************************************************************)
EXTENDS PrismVMs

CONSTANTS
    Profiles,       \* whether spec.vmProfile is set: the values to start with
    StaleReads,     \* Get answers from a cache that may lag the API server
    MaxFaults       \* bound: failed calls, lost answers and crashes

ASSUME ConfigAssumption ==
    /\ Profiles \subseteq BOOLEAN
    /\ StaleReads \in BOOLEAN
    /\ MaxFaults \in Nat

VARIABLES
    nm,      \* the NutanixMachine in the API server
    cache,   \* the NutanixMachine in the informer cache
    machine, \* what the owner Machine, its Cluster and the machine template say
    pc,      \* where the reconcile stands; "idle" between reconciles
    mem,     \* rctx.NutanixMachine, the copy the reconcile works on
    base,    \* the copy the deferred patch computes its diff from
    found,   \* the VM the reconcile works on
    seenVGs, \* volume groups on that VM when it was read
    callErr, \* the patch in progress already failed in its first half
    lapses,  \* history: what a pass, or a deletion, met too early or too late
    faults   \* faults so far

objVars  == <<nm, cache, machine, lapses>>
procVars == <<pc, mem, base, found, seenVGs, callErr>>
vars == <<prismVars, objVars, procVars, faults>>

\* live: the object exists.  fin: NutanixMachineFinalizer.  del: deletionTimestamp.
\* req: VMCreationRequestIDAnnotation.  prov: the UUID in spec.providerID.
\* uuid, ready, failed: status.vmUUID, status.ready, status.failureReason.
NM == [live: BOOLEAN, fin: BOOLEAN, del: BOOLEAN,
       req: ReqIDs \cup {None}, prov: VMs \cup {None},
       uuid: VMs \cup {None}, ready: BOOLEAN, failed: BOOLEAN]

NewNM == [live |-> TRUE, fin |-> FALSE, del |-> FALSE, req |-> None, prov |-> None,
          uuid |-> None, ready |-> FALSE, failed |-> FALSE]

PCs == {"idle", "find", "mint", "create", "wait", "recordSpec", "recordStatus",
        "running", "power", "refetch", "sync", "finish", "delFind", "delTasks", "delAct",
        "deferSpec", "deferStatus"}

\* A pass began with a copy older than the object: in its request id, in the UUIDs it
\* records, or in its life; or the object was deleted before it had its finalizer.
Lapses == {"key", "uuid", "life", "finalizer"}

\* Steps that dereference the VM found.
NeedsVM == {"wait", "recordSpec", "recordStatus", "running", "power", "refetch",
            "delTasks", "delAct"}

ObjTypeOK ==
    /\ nm \in NM /\ cache \in NM
    /\ machine \in [bootstrap: BOOLEAN, profile: Profiles,
                   prov: VMs \cup {None}, sys: VMs \cup {None}]
    /\ lapses \subseteq Lapses

ProcTypeOK ==
    /\ pc \in PCs
    /\ mem \in NM /\ base \in NM
    /\ found \in VMs \cup {None}
    /\ seenVGs \in 0..MaxVGs
    /\ callErr \in BOOLEAN

TypeOK == PrismTypeOK /\ ObjTypeOK /\ ProcTypeOK /\ faults \in 0..MaxFaults

Init ==
    /\ PrismInit
    /\ nm = NewNM /\ cache = NewNM
    /\ \E p \in Profiles :
          machine = [bootstrap |-> FALSE, profile |-> p, prov |-> None, sys |-> None]
    /\ pc = "idle" /\ mem = NewNM /\ base = NewNM
    /\ found = None /\ seenVGs = 0 /\ callErr = FALSE
    /\ lapses = {} /\ faults = 0

-----------------------------------------------------------------------------
(* Helpers.                                                                *)

\* r.Get: the cache, or the server itself where reads are assumed fresh.
Read == IF StaleReads THEN cache ELSE nm

\* Mutant: the fallback to spec.providerID is left out.
GetVMUUID_NoFallback(m) == IF machine.sys # None THEN machine.sys ELSE m.uuid

\* helpers.go GetVMUUID: system UUID, then status.vmUUID, then spec.providerID.
GetVMUUID(m) ==
    IF machine.sys # None THEN machine.sys
    ELSE IF m.uuid # None THEN m.uuid ELSE m.prov

\* A merge patch only carries the fields that differ between before and after,
\* and an object being deleted goes away with its last finalizer.
SpecPatch(o, before, after) ==
    IF ~o.live THEN o
    ELSE LET fin == IF before.fin # after.fin THEN after.fin ELSE o.fin
         IN [o EXCEPT !.fin  = fin,
                      !.live = fin \/ ~o.del,
                      !.req  = IF before.req # after.req THEN after.req ELSE @,
                      !.prov = IF before.prov # after.prov THEN after.prov ELSE @]

StatusPatch(o, before, after) ==
    IF ~o.live THEN o
    ELSE [o EXCEPT !.uuid   = IF before.uuid # after.uuid THEN after.uuid ELSE @,
                   !.ready  = IF before.ready # after.ready THEN after.ready ELSE @,
                   !.failed = IF before.failed # after.failed THEN after.failed ELSE @]

Fault == faults < MaxFaults /\ faults' = faults + 1

\* Outcome of a remote write: done and seen, done but the answer is lost, not done.
Done    == faults' = faults
Lost    == Fault
NotDone == Fault

\* return with an error: on to the deferred patch, with SetFailureStatus when the
\* error is not retryable (isRetryableAPIError).
ReturnErr(terminal) ==
    /\ mem' = [mem EXCEPT !.failed = @ \/ terminal]
    /\ pc' = "deferSpec"
    /\ UNCHANGED <<base, found, seenVGs, callErr>>

Goto(l) == pc' = l /\ UNCHANGED <<mem, base, found, seenVGs, callErr>>

\* A lookup fails; the reconcile returns the error.
CallFails(l, terminal) ==
    /\ pc = l
    /\ Fault
    /\ ReturnErr(terminal)
    /\ UNCHANGED <<prismVars, objVars>>
-----------------------------------------------------------------------------
(* Reconcile: read the object, keep the baseline, dispatch.                *)

\* What the copy a pass begins with has out of date.
Outdated ==
    {f \in Lapses : \/ f = "key"  /\ Read.req # nm.req
                    \/ f = "uuid" /\ (Read.prov # nm.prov \/ Read.uuid # nm.uuid)
                    \/ f = "life" /\ (Read.live # nm.live \/ Read.del # nm.del)}

Begin(l, m, v) ==
    /\ pc = "idle"
    /\ Read.live
    /\ base' = Read /\ mem' = m /\ found' = v /\ pc' = l
    /\ seenVGs' = 0 /\ callErr' = FALSE
    /\ lapses' = lapses \cup Outdated
    /\ UNCHANGED <<prismVars, nm, cache, machine, faults>>

\* Reconcile -> reconcileDelete.
StartDelete == Read.del /\ Begin("delFind", Read, None)

\* reconcileNormal adds the finalizer to the in-memory object and stops early
\* while the bootstrap data or the cluster infrastructure is not ready.
StartNormal ==
    /\ ~Read.del /\ ~Read.failed /\ ~Read.ready
    /\ Begin(IF machine.bootstrap THEN "find" ELSE "deferSpec",
             [Read EXCEPT !.fin = TRUE], None)

\* status.ready: wait for the Machine to take the providerID, then sync the UUID.
StartReady ==
    /\ ~Read.del /\ ~Read.failed /\ Read.ready
    /\ Begin(IF machine.prov # None THEN "sync" ELSE "deferSpec",
             [Read EXCEPT !.fin = TRUE], Read.uuid)
-----------------------------------------------------------------------------
(* getOrCreateVM.                                                          *)

\* Go on with a VM that exists; the power state is the one in Prism's answer.
UseVM(v) ==
    /\ found' = v
    /\ pc' = IF vmState[v] = "on" THEN "running" ELSE "power"
    /\ UNCHANGED <<mem, base, seenVGs, callErr>>

\* FindVM by UUID: a recorded VM that is missing is an error, never a new VM.
FindByUUID ==
    /\ pc = "find"
    /\ GetVMUUID(mem) # None
    /\ IF Exists(GetVMUUID(mem))
       THEN UseVM(GetVMUUID(mem))
       ELSE ReturnErr(FALSE)
    /\ UNCHANGED <<prismVars, objVars, faults>>

\* Mutant: every pass mints a key, also when one is stored.
FindByName_AlwaysMints ==
    /\ pc = "find"
    /\ GetVMUUID(mem) = None
    /\ \A v \in index : ~Exists(v)
    /\ Goto("mint")
    /\ UNCHANGED <<prismVars, objVars, faults>>

\* FindVMByName: list by name, then Get.  One VM is adopted, two are an error.
FindByName ==
    /\ pc = "find"
    /\ GetVMUUID(mem) = None
    /\ \/ /\ \E v, w \in index : v # w
          /\ ReturnErr(FALSE)
       \/ \E v \in VMs :
             /\ index = {v} /\ Exists(v)
             /\ UseVM(v)
       \/ /\ \A v, w \in index : v = w
          /\ \A v \in index : ~Exists(v)
          /\ Goto(IF mem.req = None THEN "mint" ELSE "create")
    /\ UNCHANGED <<prismVars, objVars, faults>>

\* getOrMintVMCreationRequestID: patch a copy that differs in the annotation only,
\* then put the key on the in-memory object.
Mint ==
    /\ pc = "mint"
    /\ \E k \in ReqIDs :
          /\ byKey[k] = None /\ k # nm.req
          /\ LET stored == SpecPatch(nm, mem, [mem EXCEPT !.req = k])
             IN \/ /\ nm.live /\ Done
                   /\ nm' = stored
                   /\ mem' = [mem EXCEPT !.req = k]
                   /\ pc' = "create"
                   /\ UNCHANGED <<base, found, seenVGs, callErr>>
                \/ /\ nm.live /\ Lost
                   /\ nm' = stored
                   /\ ReturnErr(FALSE)
    /\ UNCHANGED <<prismVars, cache, machine, lapses>>

\* The annotation patch fails: the object is gone, or the call did not get through.
MintFails ==
    /\ pc = "mint"
    /\ IF nm.live THEN NotDone ELSE Done
    /\ ReturnErr(FALSE)
    /\ UNCHANGED <<prismVars, objVars>>

\* createAndWaitForVM submits under the key; deployVMFromProfile sends none.
Submit(v) == IF machine.profile THEN CreateWithoutKey(v) ELSE CreateWithKey(mem.req, v)

Create ==
    /\ pc = "create"
    /\ \E v \in VMs :
          /\ Submit(v)
          /\ \/ /\ Done
                /\ found' = v /\ pc' = "wait"
                /\ UNCHANGED <<mem, base, seenVGs, callErr>>
             \/ Lost /\ ReturnErr(FALSE)
    /\ UNCHANGED objVars

\* A configuration check or the submission fails and there is no task.
CreateRejected == \E terminal \in BOOLEAN : CallFails("create", terminal)

\* Mutant: records the id of the request in place of the UUID of the VM.
WaitForVM_RecordsRequest ==
    /\ pc = "wait"
    /\ vmState[found] \in {"off", "on"}
    /\ mem' = [mem EXCEPT !.prov = mem.req, !.uuid = found]
    /\ pc' = "recordSpec"
    /\ UNCHANGED <<prismVars, objVars, base, found, seenVGs, callErr, faults>>

\* op.Wait returns the created VM, or the error of the failed task.
WaitForVM ==
    /\ pc = "wait"
    /\ vmState[found] # "creating"
    /\ \/ vmState[found] = "failed" /\ \E terminal \in BOOLEAN : ReturnErr(terminal)
       \/ /\ vmState[found] # "failed"
          /\ mem' = [mem EXCEPT !.prov = found, !.uuid = found]
          /\ pc' = IF machine.profile THEN "power" ELSE "recordSpec"
          /\ UNCHANGED <<base, found, seenVGs, callErr>>
    /\ UNCHANGED <<prismVars, objVars, faults>>

\* The wait gives up (a poll fails, the context ends) while the task goes on.
WaitFails == \E terminal \in BOOLEAN : CallFails("wait", terminal)

\* patchMachine(before) after creation.  before was taken when the finalizer was
\* already in memory, so the patch carries the two UUID fields and nothing else.
Before == [mem EXCEPT !.prov = base.prov, !.uuid = base.uuid]

RecordSpec ==
    /\ pc = "recordSpec"
    /\ \/ nm.live /\ Done /\ nm' = SpecPatch(nm, Before, mem) /\ callErr' = FALSE
       \/ ~nm.live /\ Done /\ UNCHANGED nm /\ callErr' = TRUE
       \/ nm.live /\ Lost /\ nm' = SpecPatch(nm, Before, mem) /\ callErr' = TRUE
       \/ nm.live /\ NotDone /\ UNCHANGED nm /\ callErr' = TRUE
    /\ pc' = "recordStatus"
    /\ UNCHANGED <<prismVars, cache, machine, lapses, mem, base, found, seenVGs>>

\* The helper sends the status patch even when the first one failed, and returns
\* both errors together.
RecordStatus ==
    /\ pc = "recordStatus"
    /\ \/ Done /\ nm' = StatusPatch(nm, Before, mem)
          /\ pc' = IF nm.live /\ ~callErr THEN "power" ELSE "deferSpec"
       \/ Lost /\ nm' = StatusPatch(nm, Before, mem) /\ pc' = "deferSpec"
       \/ NotDone /\ UNCHANGED nm /\ pc' = "deferSpec"
    /\ UNCHANGED <<prismVars, cache, machine, lapses, mem, base, found, seenVGs, callErr>>
-----------------------------------------------------------------------------
(* The rest of reconcileNormal.                                            *)

\* A VM that runs needs its custom attributes and nothing else.  The update is
\* skipped when the copy read has them, and fails for good on a VM that vanished.
RunningVM ==
    /\ pc = "running"
    /\ Goto("sync") \/ (~Exists(found) /\ ReturnErr(TRUE))
    /\ UNCHANGED <<prismVars, objVars, faults>>

\* Custom attributes, then powerOnVM, for a VM that was off when it was read.
PowerOnVM ==
    /\ pc = "power"
    /\ \/ ~Exists(found) /\ Done /\ ReturnErr(TRUE) /\ UNCHANGED prismVars
       \/ PowerOn(found) /\ Done /\ Goto("refetch")
       \/ PowerOn(found) /\ Lost /\ ReturnErr(FALSE)
    /\ UNCHANGED objVars

\* FindVMByUUID after power-on answers nil, without an error, for a VM that is gone.
Refetch ==
    /\ pc = "refetch"
    /\ found' = IF Exists(found) THEN found ELSE None
    /\ pc' = "sync"
    /\ UNCHANGED <<prismVars, objVars, mem, base, seenVGs, callErr, faults>>

PowerOnFails ==
    \E l \in {"running", "power", "refetch"}, terminal \in BOOLEAN : CallFails(l, terminal)

\* *vm.ExtId of a nil vm: the deferred patch runs, controller-runtime recovers.
NilVMPanics ==
    /\ pc = "sync" /\ found = None /\ ~mem.ready
    /\ ReturnErr(FALSE)
    /\ UNCHANGED <<prismVars, objVars, faults>>

\* syncVmUUID: the UUID the node reports wins over the one Prism reported.
SyncTarget == IF machine.sys # None THEN machine.sys ELSE found

SyncVmUUID ==
    /\ pc = "sync"
    /\ found # None \/ mem.ready
    /\ mem' = [mem EXCEPT !.uuid = SyncTarget]
    /\ \/ /\ nm.live \/ mem.uuid = SyncTarget
          /\ Done
          /\ nm' = StatusPatch(nm, mem, mem')
          /\ pc' = IF mem.ready THEN "deferSpec" ELSE "finish"
       \/ /\ mem.uuid # SyncTarget
          /\ pc' = "deferSpec"
          /\ \/ ~nm.live /\ Done /\ UNCHANGED nm
             \/ Lost /\ nm' = StatusPatch(nm, mem, mem')
             \/ NotDone /\ UNCHANGED nm
    /\ UNCHANGED <<prismVars, cache, machine, lapses, base, found, seenVGs, callErr>>

\* Mutant: status.ready is never set.
Finish_NotReady ==
    /\ pc = "finish"
    /\ Goto("deferSpec")
    /\ UNCHANGED <<prismVars, objVars, faults>>

\* Failure domain, vHA category and address checks, then status.ready.
Finish ==
    /\ pc = "finish"
    /\ mem' = [mem EXCEPT !.ready = TRUE]
    /\ pc' = "deferSpec"
    /\ UNCHANGED <<prismVars, objVars, base, found, seenVGs, callErr, faults>>

FinishFails == CallFails("finish", FALSE)
\* The project, its policy, the resource group or the list of VMs.
FindFails == \E terminal \in BOOLEAN : CallFails("find", terminal)
-----------------------------------------------------------------------------
(* reconcileDelete.                                                        *)

\* Mutant: a VM that is not found is an error.
DeleteLookup_MissingIsError ==
    /\ pc = "delFind"
    /\ LET v == GetVMUUID(mem)
       IN \/ /\ v # None /\ Exists(v)
             /\ found' = v /\ seenVGs' = vgs[v] /\ pc' = "delTasks"
             /\ UNCHANGED <<mem, base, callErr>>
          \/ v # None /\ ~Exists(v) /\ ReturnErr(FALSE)
          \/ /\ v = None
             /\ mem' = [mem EXCEPT !.fin = FALSE] /\ pc' = "deferSpec"
             /\ UNCHANGED <<base, found, seenVGs, callErr>>
    /\ UNCHANGED <<prismVars, objVars, faults>>

\* No UUID known, or the VM is gone: remove the finalizer.
DeleteLookup ==
    /\ pc = "delFind"
    /\ LET v == GetVMUUID(mem)
       IN IF v # None /\ Exists(v)
          THEN /\ found' = v /\ seenVGs' = vgs[v] /\ pc' = "delTasks"
               /\ UNCHANGED <<mem, base, callErr>>
          ELSE /\ mem' = [mem EXCEPT !.fin = FALSE] /\ pc' = "deferSpec"
               /\ UNCHANGED <<base, found, seenVGs, callErr>>
    /\ UNCHANGED <<prismVars, objVars, faults>>

\* VmHasTaskInProgress: requeue while anything runs on the VM.
DeleteCheckTasks ==
    /\ pc = "delTasks"
    /\ Goto(IF tasks[found] = {} THEN "delAct" ELSE "deferSpec")
    /\ UNCHANGED <<prismVars, objVars, faults>>

\* Mutant: deletes with volume groups attached.
DeleteAct_NoDetach ==
    /\ pc = "delAct"
    /\ StartTask(found, "delete")
    /\ Done \/ Lost
    /\ ReturnErr(FALSE)
    /\ UNCHANGED objVars

\* Mutant: releases the object as soon as the delete task is accepted.
DeleteAct_Releases ==
    /\ pc = "delAct"
    /\ StartTask(found, IF seenVGs > 0 THEN "detach" ELSE "delete")
    /\ Done
    /\ mem' = [mem EXCEPT !.fin = seenVGs > 0] /\ pc' = "deferSpec"
    /\ UNCHANGED <<objVars, base, found, seenVGs, callErr>>

\* Mutant: also detaches when there is nothing left to detach.
DeleteAct_AlwaysDetaches ==
    /\ pc = "delAct"
    /\ StartTask(found, IF seenVGs >= 0 THEN "detach" ELSE "delete")
    /\ Done \/ Lost
    /\ ReturnErr(FALSE)
    /\ UNCHANGED objVars

\* Detach one volume group, or delete the VM; requeue either way.
DeleteAct ==
    /\ pc = "delAct"
    /\ StartTask(found, IF seenVGs > 0 THEN "detach" ELSE "delete")
    /\ Done \/ Lost
    /\ ReturnErr(FALSE)
    /\ UNCHANGED objVars

DeleteFails == \E l \in {"delFind", "delTasks", "delAct"} : CallFails(l, FALSE)
-----------------------------------------------------------------------------
(* The deferred patchHelper.Patch of Reconcile: always runs, spec first.   *)

DeferSpec ==
    /\ pc = "deferSpec"
    /\ \/ Done /\ nm' = SpecPatch(nm, base, mem)
       \/ NotDone /\ UNCHANGED nm
    /\ Goto("deferStatus")
    /\ UNCHANGED <<prismVars, cache, machine, lapses>>

Rest == /\ pc' = "idle" /\ mem' = NewNM /\ base' = NewNM
        /\ found' = None /\ seenVGs' = 0 /\ callErr' = FALSE

DeferStatus ==
    /\ pc = "deferStatus"
    /\ \/ Done /\ nm' = StatusPatch(nm, base, mem)
       \/ NotDone /\ UNCHANGED nm
    /\ Rest
    /\ UNCHANGED <<prismVars, cache, machine, lapses>>

\* The manager stops; the next one lists the objects from the API server.
Crash ==
    /\ pc # "idle"
    /\ Fault
    /\ Rest
    /\ cache' = nm
    /\ UNCHANGED <<prismVars, nm, machine, lapses>>
-----------------------------------------------------------------------------
(* The world around the controller.                                        *)

\* The Machine controller deletes the object; without a finalizer it is gone at once.
UserDeletes ==
    /\ nm.live /\ ~nm.del
    /\ nm' = [nm EXCEPT !.del = TRUE, !.live = nm.fin]
    /\ lapses' = IF nm.fin THEN lapses ELSE lapses \cup {"finalizer"}
    /\ UNCHANGED <<prismVars, cache, machine, procVars, faults>>

CacheSync ==
    /\ StaleReads
    /\ cache # nm
    /\ cache' = nm
    /\ UNCHANGED <<prismVars, nm, machine, lapses, procVars, faults>>

BootstrapReady ==
    /\ ~machine.bootstrap
    /\ machine' = [machine EXCEPT !.bootstrap = TRUE]
    /\ UNCHANGED <<prismVars, nm, cache, lapses, procVars, faults>>

\* Cluster API copies spec.providerID of a ready NutanixMachine to the Machine ...
MachineTakesProviderID ==
    /\ nm.live /\ nm.ready /\ nm.prov # None /\ machine.prov = None
    /\ machine' = [machine EXCEPT !.prov = nm.prov]
    /\ UNCHANGED <<prismVars, nm, cache, lapses, procVars, faults>>

\* ... and finds the Node by it, which brings the system UUID.
NodeRegisters ==
    /\ machine.prov # None /\ machine.sys = None
    /\ vmState[machine.prov] = "on"
    /\ machine' = [machine EXCEPT !.sys = machine.prov]
    /\ UNCHANGED <<prismVars, nm, cache, lapses, procVars, faults>>

\* Volumes are attached to a node in use, not to a machine on its way out.
WorkloadAttachesVG(v) ==
    /\ nm.live /\ ~nm.del
    /\ AttachVG(v)
    /\ UNCHANGED <<objVars, procVars, faults>>

PrismStep(v) ==
    /\ PrismTask(v) \/ IndexCatchesUp(v)
    /\ UNCHANGED <<objVars, procVars, faults>>

PrismFault(v) ==
    /\ Fault
    /\ CreateFails(v) \/ OperatorDestroys(v)
    /\ UNCHANGED <<objVars, procVars>>
-----------------------------------------------------------------------------
Reconcile ==
    \/ StartDelete \/ StartNormal \/ StartReady
    \/ FindByUUID \/ FindByName \/ FindFails
    \/ Mint \/ MintFails \/ Create \/ CreateRejected \/ WaitForVM \/ WaitFails
    \/ RecordSpec \/ RecordStatus
    \/ RunningVM \/ PowerOnVM \/ Refetch \/ PowerOnFails \/ NilVMPanics
    \/ SyncVmUUID \/ Finish \/ FinishFails
    \/ DeleteLookup \/ DeleteCheckTasks \/ DeleteAct \/ DeleteFails
    \/ DeferSpec \/ DeferStatus

Environment ==
    \/ UserDeletes \/ BootstrapReady \/ MachineTakesProviderID \/ NodeRegisters
    \/ \E v \in VMs : WorkloadAttachesVG(v) \/ PrismFault(v)

Next ==
    \/ Reconcile \/ Crash \/ Environment \/ CacheSync
    \/ \E v \in VMs : PrismStep(v)

Spec == Init /\ [][Next]_vars

\* Work the queue hands out is done, tasks and indexes make progress, caches
\* sync, and the bootstrap provider delivers.  Users and faults owe nothing.
Fairness ==
    /\ WF_vars(Reconcile)
    /\ WF_vars(CacheSync)
    /\ WF_vars(BootstrapReady)
    /\ \A v \in VMs : WF_vars(PrismStep(v))

FairSpec == Spec /\ Fairness
-----------------------------------------------------------------------------
(* Properties.                                                             *)

\* Every step that dereferences a VM has one, and a Create that is sent under a
\* request id has the id: the code reads *vm.ExtId and the annotation unchecked.
\* The VM that powerOnVM returns is left out: see NilVMPanics.
NoNilDereference ==
    /\ pc \in NeedsVM => found # None
    /\ pc = "create" => mem.req # None

\* What the code itself does not survive: a lapse, or any fault on the path from a VM
\* profile, where the Create carries no request id.
Strayed == lapses # {} \/ (machine.profile /\ faults > 0)

\* A machine never gets a second VM, whatever calls are repeated after a lost answer, a
\* crash, a failed task or a VM that disappeared, and however old the copies a pass
\* begins with (getOrMintVMCreationRequestID, FindVM), unless a pass began with a copy
\* that lacks the stored request id or, from a VM profile, the machine strayed.
AtMostOneVM ==
    (IF machine.profile THEN ~Strayed ELSE "key" \notin lapses) =>
        \A v, w \in VMs : Born(v) /\ Born(w) => v = w

\* Why there is only one: the one key in use is the one stored with the object, a
\* reconcile that is about to create works with that key, and every VM has a key.
KeyInv ==
    /\ \A k \in ReqIDs : byKey[k] # None => nm.req = k
    /\ \A v \in VMs : vmState[v] # "none" => \E k \in ReqIDs : byKey[k] = v
    /\ \A v \in VMs : tasks[v] # {} => Exists(v)
    /\ pc = "find" => mem.req = nm.req /\ base.req = nm.req
    /\ pc = "mint" => mem.req = None /\ nm.req = None /\ base.req = None
    /\ pc = "create" => mem.req = nm.req /\ nm.req # None
    /\ mem.req = base.req \/ mem.req = nm.req

\* When the object leaves the API server, the VMs it had recorded are gone
\* (reconcileDelete removes the finalizer only after the VM is not found), also where a
\* second VM was made, unless the deletion was faster than the finalizer or a pass
\* began with a copy that lacks a UUID of the object.
Tracked == lapses \cap {"uuid", "finalizer"} = {}
RecordedVMGone ==
    ~nm.live /\ Tracked => \A v \in {nm.prov, nm.uuid} \ {None} : ~Exists(v)

\* When the object leaves the API server, no VM of the machine is left or on its
\* way (what NutanixMachineFinalizer is for).  A create whose answer is lost, then a
\* deletion that knows no UUID, leave the VM.
NoOrphan == ~nm.live => \A v \in VMs : vmState[v] \in {"none", "gone", "failed"}

\* A VM is deleted only after all its volume groups are detached
\* (reconcileDelete: one detach per reconcile, a requeue while a task runs).
DetachBeforeDelete == \A v \in VMs : "delete" \in tasks[v] => vgs[v] = 0

\* The idempotency key is minted once: a key in the API server is never replaced
\* (the comments of VMCreationRequestIDAnnotation and getOrMintVMCreationRequestID).
KeyIsStable == [][nm.req # None => nm'.req = nm.req]_vars

\* A machine being deleted goes away: the finalizer is released in the end.
DeletionCompletes == nm.del ~> ~nm.live

\* Nothing the reconciler does brings the VM up any more: it was deleted in Prism, its
\* create task failed and is the answer to every later Create under the request id, or
\* there are two of its name (FindVM, getOrCreateVM).
Stuck ==
    \/ \E v \in VMs : vmState[v] = "gone" \/ (vmState[v] = "failed" /\ ~machine.profile)
    \/ \E v, w \in VMs : v # w /\ Exists(v) /\ Exists(w)

\* A machine that is left alone gets its VM and becomes ready, unless the reconcile
\* failed for good or is stuck (reconcileNormal).
ProvisioningCompletes ==
    nm.live ~> nm.ready \/ nm.failed \/ nm.del \/ Stuck

\* What the reconciler promises in MachineContract: one VM at most, asked to go for a
\* deletion only, and the object released only after the VM it recorded.
Promise == INSTANCE MachineContract WITH
    VM       <- VMs,
    object   <- IF ~nm.live THEN "released" ELSE IF nm.del THEN "deleting" ELSE "kept",
    used     <- {v \in VMs : vmState[v] # "none"},
    owned    <- {v \in VMs : vmState[v] \in {"creating", "off", "on"}},
    doomed   <- {v \in VMs : "delete" \in tasks[v]},
    recorded <- {nm.prov, nm.uuid} \ {None},
    off      <- Strayed

\* The promise is kept at every step (reconcileNormal, reconcileDelete) ...
KeepsPromise == Promise!ContractSafety

\* ... and a deletion brings its VM and its object to an end.
KeepsContract == Promise!Contract
=============================================================================
