---------------------------- MODULE MetroRecovery ----------------------------
(***************************************************************************)
(* How NutanixMachineReconciler finds the VM of a metro machine once        *)
(* disaster recovery may have replaced it: FindVM in a provisioning pass,   *)
(* vmToDelete and resolveRecoveredVMForDelete in a deletion, of             *)
(* controllers/nutanixmachine_controller.go and controllers/helpers.go.     *)
(*                                                                         *)
(* An unplanned fail-over decouples the VM on the failed site and recovers  *)
(* it on the other one under its name and with a new UUID.  The decoupled   *)
(* one is left to disaster recovery, which removes it when the site is back. *)
(*                                                                         *)
(* The machine has its VM; how it came to it is in NutanixMachine.          *)
(***************************************************************************)
EXTENDS PrismVMs

CONSTANTS
    Original,     \* the VM the machine was made with
    MaxFailovers, \* bound: fail-overs
    MaxFaults     \* bound: failed calls, lost answers and crashes

ASSUME RecoveryAssumption ==
    /\ Original \in VMs
    /\ MaxFailovers \in Nat /\ MaxFaults \in Nat

VARIABLES
    nm,        \* the NutanixMachine in the API server, until fin goes
    sys,       \* Machine.status.nodeInfo.systemUUID
    decoupled, \* VMs whose DR role is kDecoupled
    pending,   \* a VM is decoupled and its successor is not there yet
    removed,   \* history: decoupled VMs that disaster recovery removed
    failovers,
    pc,        \* where the pass stands
    mem,       \* rctx.NutanixMachine of the pass
    mode,      \* what it means if no VM is found by name
    cands,     \* VMs of that name the pass has still to look at
    usable,    \* those it found not to be decoupled
    found,     \* the VM the pass asks about or works on
    seen,      \* what it read of it
    avoid,     \* history: the VMs that were decoupled when the pass began
    faults

passVars == <<pc, mem, mode, cands, usable, found, seen, avoid>>
drVars == <<decoupled, pending, removed, failovers>>
vars == <<prismVars, nm, sys, drVars, passVars, faults>>

\* skipped, recovered: the annotations capx.nutanix.com/skipped-decoupled-vm-uuid
\* and recovered-vm-uuid.  uuid: status.vmUUID.  spec.providerID stays Original.
NM == [fin: BOOLEAN, del: BOOLEAN, ready: BOOLEAN, uuid: VMs \cup {None},
       skipped: VMs \cup {None}, recovered: VMs \cup {None}]

PCs == {"idle", "recorded", "recordedGet", "recovered", "recoveredGet", "find", "findRole",
        "list", "check", "checkGet", "tasks", "act", "power", "sync", "end"}

\* Where the pass has a VM to ask about or to work on.
OneVM == {"recorded", "recordedGet", "recoveredGet", "find", "findRole", "checkGet",
          "tasks", "act", "power"}

\* An answer to a Get of the VM, and none.
See(v) == [vgs |-> vgs[v], on |-> vmState[v] = "on"]
Unseen == [vgs |-> 0, on |-> FALSE]

TypeOK ==
    /\ PrismTypeOK
    /\ nm \in NM /\ mem \in NM
    /\ sys \in VMs \cup {None}
    /\ decoupled \subseteq VMs /\ removed \subseteq VMs /\ avoid \subseteq VMs
    /\ pending \in BOOLEAN
    /\ failovers \in 0..MaxFailovers /\ faults \in 0..MaxFaults
    /\ pc \in PCs /\ mode \in {"wait", "gone", "error"}
    /\ cands \subseteq VMs /\ usable \subseteq VMs
    /\ found \in VMs \cup {None} /\ seen \in [vgs: 0..MaxVGs, on: BOOLEAN]
    /\ pc \in OneVM => found # None

\* status.vmUUID may be lost: its patch failed, or the cluster was moved.
Init ==
    /\ vmState = [v \in VMs |-> IF v = Original THEN "off" ELSE "none"]
    /\ vgs = [v \in VMs |-> 0] /\ tasks = [v \in VMs |-> {}]
    /\ byKey = [k \in ReqIDs |-> None] /\ index = {Original}
    /\ \E u \in {Original, None} :
          nm = [fin |-> TRUE, del |-> FALSE, ready |-> FALSE, uuid |-> u,
                skipped |-> None, recovered |-> None]
    /\ sys = None /\ decoupled = {} /\ pending = FALSE /\ removed = {} /\ failovers = 0
    /\ pc = "idle" /\ mem = nm /\ mode = "wait" /\ cands = {} /\ usable = {}
    /\ found = None /\ seen = Unseen /\ avoid = {}
    /\ faults = 0

-----------------------------------------------------------------------------
(* Helpers.                                                                *)

\* Mutant: a UUID that the status lost is not looked for in spec.providerID.
GetVMUUID_NoProviderID == IF sys # None THEN sys ELSE nm.uuid

GetVMUUID == IF sys # None THEN sys ELSE IF nm.uuid # None THEN nm.uuid ELSE Original

Fault == faults < MaxFaults /\ faults' = faults + 1
Fine == UNCHANGED faults

\* Outside the pass nothing changes.
Quiet == UNCHANGED <<prismVars, nm, sys, drVars>>

Goto(l, m, how) ==
    /\ pc' = l /\ mem' = m /\ mode' = how
    /\ UNCHANGED <<cands, usable, found, seen, avoid>>

\* Not decoupled: on to the Get of v.
Ask(l, v) ==
    /\ pc' = l /\ found' = v
    /\ UNCHANGED <<mem, mode, cands, usable, seen, avoid>>

\* Go on with v as it was read: the deletion, or the rest of the pass.
Work(v, s, m) ==
    /\ found' = v /\ seen' = s /\ mem' = m
    /\ pc' = IF m.del THEN "tasks" ELSE IF s.on THEN "sync" ELSE "power"
    /\ mode' = "wait" /\ cands' = {} /\ usable' = {}
    /\ UNCHANGED avoid

\* return: on to the deferred patch, which also runs after an error.
Return(m) ==
    /\ pc' = "end" /\ mem' = m /\ mode' = "wait" /\ cands' = {} /\ usable' = {}
    /\ found' = None /\ seen' = Unseen
    /\ UNCHANGED avoid

Release(m) == Return([m EXCEPT !.fin = FALSE])

CallFails(l) == pc = l /\ Fault /\ Return(mem) /\ Quiet

-----------------------------------------------------------------------------
(* The pass: Reconcile, reconcileNormal, reconcileDelete.                  *)

Start(l, v) ==
    /\ pc = "idle" /\ nm.fin
    /\ pc' = l /\ mem' = nm /\ mode' = "error" /\ cands' = {} /\ usable' = {}
    /\ found' = v /\ seen' = Unseen /\ avoid' = decoupled
    /\ Quiet /\ Fine

StartDelete == nm.del /\ Start("recorded", GetVMUUID)
StartFind == ~nm.del /\ ~nm.ready /\ Start("find", GetVMUUID)
StartReady == ~nm.del /\ nm.ready /\ Start("sync", nm.uuid)

\* vmToDelete: leave a decoupled VM to disaster recovery ...
Recorded ==
    /\ pc = "recorded" /\ Quiet /\ Fine
    /\ \/ found \in decoupled /\ Goto("recovered", [mem EXCEPT !.skipped = found], "wait")
       \/ found \notin decoupled /\ Ask("recordedGet", found)

\* ... else take the VM recorded, if it is there.  A Get that fails does not end
\* the lookup.
RecordedGet ==
    /\ pc = "recordedGet" /\ Quiet
    /\ \/ Fine /\ Exists(found) /\ Work(found, See(found), mem)
       \/ Fine /\ ~Exists(found) /\ Goto("recovered", mem, "gone")
       \/ Fault /\ Goto("recovered", mem, "error")

\* Mutant: the VM found before is not looked at again.
Recovered_NoRecheck ==
    /\ pc = "recovered" /\ Quiet /\ Fine
    /\ \/ mem.recovered = None /\ Goto("list", mem, mode)
       \/ mem.recovered # None /\ Ask("recoveredGet", mem.recovered)

\* resolveRecoveredVMForDelete: the VM an earlier pass found by name, if any and
\* not decoupled by now.
Recovered ==
    /\ pc = "recovered" /\ Quiet /\ Fine
    /\ LET r == mem.recovered
       IN \/ r = None /\ Goto("list", mem, mode)
          \/ r \in decoupled /\ Goto("list", [mem EXCEPT !.recovered = None], mode)
          \/ r \notin decoupled \cup {None} /\ Ask("recoveredGet", r)

\* If it is gone so is the machine, unless the Get of the recorded VM failed.
RecoveredGet ==
    /\ pc = "recoveredGet" /\ Quiet /\ Fine
    /\ \/ Exists(found) /\ Work(found, See(found), mem)
       \/ ~Exists(found) /\ (IF mode = "error" THEN Return(mem) ELSE Release(mem))

\* FindVM: the VM recorded, unless it is gone ...
FindVM ==
    /\ pc = "find" /\ Quiet /\ Fine
    /\ \/ /\ Exists(found)
          /\ pc' = "findRole" /\ seen' = See(found)
          /\ UNCHANGED <<mem, mode, cands, usable, found, avoid>>
       \/ ~Exists(found) /\ Goto("list", mem, "error")

\* Mutant: takes a decoupled VM if Prism has it.
FindVMRole_Any == pc = "findRole" /\ Quiet /\ Fine /\ Work(found, seen, mem)

\* ... or decoupled.
FindVMRole ==
    /\ pc = "findRole" /\ Quiet /\ Fine
    /\ IF found \in decoupled THEN Goto("list", mem, "error") ELSE Work(found, seen, mem)

\* findNonDecoupledVMByName: list the VMs of the name ...
ListByName ==
    /\ pc = "list"
    /\ pc' = "check" /\ cands' = index /\ usable' = {}
    /\ UNCHANGED <<mem, mode, found, seen, avoid>>
    /\ Quiet /\ Fine

\* ... and of those that are not decoupled ...
CheckOne ==
    /\ pc = "check" /\ Quiet /\ Fine
    /\ \E v \in cands :
          /\ cands' = cands \ {v}
          /\ IF v \in decoupled THEN UNCHANGED <<pc, found>> ELSE pc' = "checkGet" /\ found' = v
    /\ UNCHANGED <<mem, mode, usable, seen, avoid>>

\* ... keep each that is still there.
CheckGet ==
    /\ pc = "checkGet" /\ Quiet /\ Fine
    /\ pc' = "check"
    /\ IF Exists(found) THEN usable' = usable \cup {found} /\ seen' = See(found)
                        ELSE UNCHANGED <<usable, seen>>
    /\ UNCHANGED <<mem, mode, cands, found, avoid>>

\* Mutant: only decoupled VMs, and no wait for the one that is to come.
Listed_NoWait ==
    /\ pc = "check" /\ cands = {} /\ Quiet /\ Fine
    /\ \/ usable = {} /\ (IF mode = "error" THEN Return(mem) ELSE Release(mem))
       \/ \E v \in usable :
             Work(v, seen, IF mem.del THEN [mem EXCEPT !.recovered = v] ELSE mem)

\* Mutant: does not give up waiting when nothing is left.
Listed_AlwaysWaits ==
    /\ pc = "check" /\ cands = {} /\ Quiet /\ Fine
    /\ \/ usable = {} /\ Return(mem)
       \/ \E v \in usable :
             Work(v, seen, IF mem.del THEN [mem EXCEPT !.recovered = v] ELSE mem)

\* Two VMs are an error.  One is worked on, and remembered if it is to be deleted.
Listed ==
    /\ pc = "check" /\ cands = {} /\ Quiet /\ Fine
    /\ \/ usable = {} /\ (IF mode = "gone" THEN Release(mem) ELSE Return(mem))
       \/ Cardinality(usable) > 1 /\ Return(mem)
       \/ \E v \in VMs :
             /\ usable = {v}
             /\ Work(v, seen, IF mem.del THEN [mem EXCEPT !.recovered = v] ELSE mem)

CheckTasks ==
    /\ pc = "tasks" /\ Quiet /\ Fine
    /\ IF tasks[found] = {} THEN Goto("act", mem, mode) ELSE Return(mem)

\* Detach a volume group or delete; requeue either way, answered or not.
DeleteAct ==
    /\ pc = "act"
    /\ StartTask(found, IF seen.vgs > 0 THEN "detach" ELSE "delete")
    /\ Fine \/ Fault
    /\ Return(mem)
    /\ UNCHANGED <<nm, sys, drVars>>

PowerOnVM ==
    /\ pc = "power"
    /\ IF Exists(found) THEN PowerOn(found) /\ Goto("sync", mem, mode)
                        ELSE Return(mem) /\ UNCHANGED prismVars
    /\ Fine
    /\ UNCHANGED <<nm, sys, drVars>>

\* syncVmUUID: what the node reports wins.  A pass that found the VM makes the
\* machine ready; all that is in between is in MetroPlacement.
SyncVmUUID ==
    /\ pc = "sync"
    /\ LET target == IF sys # None THEN sys ELSE found
           synced == [mem EXCEPT !.uuid = target]
       IN \/ Fine /\ nm' = [nm EXCEPT !.uuid = target]
             /\ Return([synced EXCEPT !.ready = TRUE])
          \/ Fault /\ nm' \in {nm, [nm EXCEPT !.uuid = target]} /\ Return(synced)
    /\ UNCHANGED <<prismVars, sys, drVars>>

LookupFails ==
    \/ mem.recovered # None /\ CallFails("recovered")
    \/ cands # {} /\ CallFails("check")
    \/ \E l \in (OneVM \cup {"list"}) \ {"recordedGet"} : CallFails(l)

Rest ==
    /\ pc' = "idle" /\ mem' = nm' /\ mode' = "wait" /\ cands' = {} /\ usable' = {}
    /\ found' = None /\ seen' = Unseen /\ avoid' = {}

\* The deferred patch.  A deletion changes the metadata, any other pass the status.
EndPass ==
    /\ pc = "end"
    /\ \/ Fine /\ nm' = [mem EXCEPT !.del = nm.del]
       \/ Fault /\ UNCHANGED nm
    /\ Rest
    /\ UNCHANGED <<prismVars, sys, drVars>>

Crash ==
    /\ pc # "idle" /\ Fault
    /\ UNCHANGED <<prismVars, nm, sys, drVars>>
    /\ Rest

Reconcile ==
    \/ StartDelete \/ StartFind \/ StartReady
    \/ Recorded \/ RecordedGet \/ Recovered \/ RecoveredGet \/ FindVM \/ FindVMRole
    \/ ListByName \/ CheckOne \/ CheckGet \/ Listed
    \/ CheckTasks \/ DeleteAct \/ PowerOnVM \/ SyncVmUUID \/ LookupFails \/ EndPass

-----------------------------------------------------------------------------
(* Users, Prism and disaster recovery.                                     *)

UserDeletes ==
    /\ nm.fin /\ ~nm.del
    /\ nm' = [nm EXCEPT !.del = TRUE]
    /\ mem' = IF pc = "idle" THEN nm' ELSE mem
    /\ UNCHANGED <<prismVars, sys, drVars, pc, mode, cands, usable, found, seen,
                   avoid, faults>>

\* The site of the VM fails.
Failover(v) ==
    /\ failovers < MaxFailovers /\ ~pending
    /\ Exists(v) /\ v \notin decoupled
    /\ decoupled' = decoupled \cup {v} /\ pending' = TRUE /\ failovers' = failovers + 1
    /\ UNCHANGED <<prismVars, nm, sys, removed, passVars, faults>>

\* The VM is recovered on the other site, its volume groups with it.
Recover(v) ==
    /\ pending /\ vmState[v] = "none"
    /\ vmState' = [vmState EXCEPT ![v] = "on"]
    /\ \E n \in 0..MaxVGs : vgs' = [vgs EXCEPT ![v] = n]
    /\ pending' = FALSE
    /\ UNCHANGED <<tasks, byKey, index, nm, sys, decoupled, removed, failovers,
                   passVars, faults>>

\* The failed site is back, long after the recovery.
DRRemoves(v) ==
    /\ v \in decoupled /\ ~pending
    /\ \A w \in VMs : Exists(w) => w \in index
    /\ OperatorDestroys(v)
    /\ decoupled' = decoupled \ {v} /\ removed' = removed \cup {v}
    /\ UNCHANGED <<nm, sys, pending, failovers, passVars, faults>>

\* The kubelet of the VM that runs reports its system UUID.
NodeReports(v) ==
    /\ nm.ready /\ vmState[v] = "on" /\ v \notin decoupled /\ sys # v
    /\ sys' = v
    /\ UNCHANGED <<prismVars, nm, drVars, passVars, faults>>

\* No task gets anywhere on a decoupled VM.
PrismStep(v) ==
    /\ (v \notin decoupled /\ PrismTask(v)) \/ IndexCatchesUp(v)
    /\ UNCHANGED <<nm, sys, drVars, passVars, faults>>

DisasterRecovery(v) == Failover(v) \/ Recover(v) \/ DRRemoves(v)

Next ==
    \/ Reconcile \/ Crash \/ UserDeletes
    \/ \E v \in VMs : DisasterRecovery(v) \/ NodeReports(v) \/ PrismStep(v)

Spec == Init /\ [][Next]_vars

\* Requeued work is done, Prism's tasks and indexes make progress, and a VM that
\* was decoupled is recovered.  Disaster recovery need not remove anything.
Fairness ==
    /\ WF_vars(Reconcile)
    /\ \A v \in VMs : WF_vars(PrismStep(v))
    /\ WF_vars(\E v \in VMs : Recover(v))

FairSpec == Spec /\ Fairness

-----------------------------------------------------------------------------
(* Properties.                                                             *)

\* No pass powers on, detaches from or deletes a VM that was decoupled when the
\* pass began, whichever of the lookups brought it there: it belongs to disaster
\* recovery.  vmToDelete, resolveRecoveredVMForDelete, findNonDecoupledVMByName.
LeavesDecoupled ==
    [][\A v \in VMs :
          (tasks'[v] \ tasks[v] # {} \/ (vmState[v] = "off" /\ vmState'[v] = "on"))
              => v \notin avoid]_vars

\* Until its node reports, no pass records the UUID of a VM that was decoupled
\* when the pass began: the machine becomes ready with the recovered one.  The
\* exception: disaster recovery removed that VM between the two calls of FindVM,
\* after its Get and before it asked for the role.  FindVM, syncVmUUID.
AdoptsNoDecoupled ==
    [][nm'.uuid # nm.uuid /\ sys = None => nm'.uuid \notin avoid \ removed]_vars

\* After one fail-over, when the machine leaves the API server no VM of it is
\* left but the decoupled one, whichever UUID was recorded when.  Not kept by a second
\* fail-over, nor if the annotation names a VM that disaster recovery removed, one that
\* was found by name after a Get had failed and has failed over since (see NoneOverlooked).
\* vmToDelete.
NoneLeftBehind ==
    ~nm.fin /\ failovers <= 1 /\ nm.recovered \notin removed =>
        \A v \in VMs : Exists(v) => v \in decoupled

\* The comment of vmToDelete: "we always look up a non-decoupled VM by name before
\* giving up".  A machine is not given up because the VM of the annotation is gone
\* while a list by name shows a VM that lives.  Not kept: resolveRecoveredVMForDelete
\* asks for no list then.
NoneOverlooked ==
    [][pc = "recoveredGet" /\ mem.fin /\ ~mem'.fin =>
          \A v \in index : Exists(v) => v \in decoupled]_vars

\* A machine in deletion goes away, across fail-overs: it waits for the successor
\* of a decoupled VM, and no longer.  The exception: the annotation is stored after
\* the call that deletes the successor, so the machine forgets it if that patch is
\* lost, and waits until disaster recovery removes the other.  reconcileDelete.
Forgotten ==
    /\ faults > 0 /\ nm.recovered = None /\ ~pending
    /\ \A v \in VMs : Exists(v) => v \in decoupled
DeletionEnds == nm.del ~> ~nm.fin \/ Forgotten
=============================================================================
