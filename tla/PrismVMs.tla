------------------------------ MODULE PrismVMs ------------------------------
(***************************************************************************)
(* The VM service of Prism Central, as far as one machine can tell: the    *)
(* VMs that carry the machine's name, the idempotency keys of their Create *)
(* calls, the tasks that run on them and the index behind a list by name.  *)
(* External: the service is not part of the repository and is modelled     *)
(* from the calls controllers/helpers.go and                               *)
(* controllers/nutanixmachine_controller.go make and from what they do     *)
(* with the answers.                                                       *)
(***************************************************************************)
EXTENDS Integers, FiniteSets

CONSTANTS
    VMs,      \* the UUIDs Prism may hand out for this machine
    ReqIDs,   \* the Ntnx-Request-Id keys the controller may mint
    None,     \* "no UUID", "no key"
    MaxVGs    \* bound: volume groups attached to one VM

ASSUME NoneAssumption == None \notin VMs \cup ReqIDs
ASSUME MaxVGsAssumption == MaxVGs \in Nat

VARIABLES
    vmState,  \* life of each VM
    vgs,      \* volume groups attached to each VM
    tasks,    \* tasks running on each VM
    byKey,    \* the VM whose create task a request id is bound to
    index     \* VMs a list by name returns; follows vmState with a delay

prismVars == <<vmState, vgs, tasks, byKey, index>>

VMStates == {"none", "creating", "off", "on", "gone", "failed"}

PrismTypeOK ==
    /\ vmState \in [VMs -> VMStates]
    /\ vgs \in [VMs -> 0..MaxVGs]
    /\ tasks \in [VMs -> SUBSET {"detach", "delete"}]
    /\ byKey \in [ReqIDs -> VMs \cup {None}]
    /\ index \in SUBSET VMs

PrismInit ==
    /\ vmState = [v \in VMs |-> "none"]
    /\ vgs = [v \in VMs |-> 0]
    /\ tasks = [v \in VMs |-> {}]
    /\ byKey = [k \in ReqIDs |-> None]
    /\ index = {}

\* A Get by UUID answers with the VM, and not with NotFound.
Exists(v) == vmState[v] \in {"off", "on"}

\* The VM was brought, or is being brought, into existence.
Born(v) == vmState[v] \notin {"none", "failed"}

-----------------------------------------------------------------------------
(* Calls.  Each is the effect of a request the service accepted.           *)

\* Create under a request id: a key already bound answers with its own task.
CreateWithKey(k, v) ==
    /\ \/ byKey[k] = v /\ UNCHANGED <<vmState, byKey>>
       \/ /\ byKey[k] = None
          /\ vmState[v] = "none"
          /\ byKey' = [byKey EXCEPT ![k] = v]
          /\ vmState' = [vmState EXCEPT ![v] = "creating"]
    /\ UNCHANGED <<vgs, tasks, index>>

\* Create without a request id (a deploy from a VM profile): a new VM each time.
CreateWithoutKey(v) ==
    /\ vmState[v] = "none"
    /\ vmState' = [vmState EXCEPT ![v] = "creating"]
    /\ UNCHANGED <<vgs, tasks, byKey, index>>

PowerOn(v) ==
    /\ Exists(v)
    /\ vmState' = [vmState EXCEPT ![v] = "on"]
    /\ UNCHANGED <<vgs, tasks, byKey, index>>

\* DetachFromVM and DeleteAsync only start a task; on a VM that is gone they fail.
StartTask(v, t) ==
    /\ tasks' = IF Exists(v) THEN [tasks EXCEPT ![v] = @ \cup {t}] ELSE tasks
    /\ UNCHANGED <<vmState, vgs, byKey, index>>

-----------------------------------------------------------------------------
(* What the service does by itself.                                        *)

CreateDone(v) ==
    /\ vmState[v] = "creating"
    /\ vmState' = [vmState EXCEPT ![v] = "off"]
    /\ UNCHANGED <<vgs, tasks, byKey, index>>

\* A create task fails: no VM, and a later Create under the same key gets this task again.
CreateFails(v) ==
    /\ vmState[v] = "creating"
    /\ vmState' = [vmState EXCEPT ![v] = "failed"]
    /\ UNCHANGED <<vgs, tasks, byKey, index>>

DetachDone(v) ==
    /\ "detach" \in tasks[v]
    /\ tasks' = [tasks EXCEPT ![v] = @ \ {"detach"}]
    /\ vgs' = [vgs EXCEPT ![v] = IF @ > 0 THEN @ - 1 ELSE 0]
    /\ UNCHANGED <<vmState, byKey, index>>

DeleteDone(v) ==
    /\ "delete" \in tasks[v]
    /\ tasks' = [tasks EXCEPT ![v] = {}]
    /\ vmState' = [vmState EXCEPT ![v] = "gone"]
    /\ UNCHANGED <<vgs, byKey, index>>

\* The name index catches up with a VM that appeared or went away.
IndexCatchesUp(v) ==
    /\ (v \in index) # Exists(v)
    /\ index' = IF Exists(v) THEN index \cup {v} ELSE index \ {v}
    /\ UNCHANGED <<vmState, vgs, tasks, byKey>>

\* An operator deletes the VM in Prism, behind the controller's back.
OperatorDestroys(v) ==
    /\ Exists(v)
    /\ vmState' = [vmState EXCEPT ![v] = "gone"]
    /\ tasks' = [tasks EXCEPT ![v] = {}]
    /\ UNCHANGED <<vgs, byKey, index>>

\* The storage driver attaches a volume group to a running VM.
AttachVG(v) ==
    /\ vmState[v] = "on"
    /\ vgs[v] < MaxVGs
    /\ vgs' = [vgs EXCEPT ![v] = @ + 1]
    /\ UNCHANGED <<vmState, tasks, byKey, index>>

PrismTask(v) == CreateDone(v) \/ DetachDone(v) \/ DeleteDone(v)
=============================================================================
