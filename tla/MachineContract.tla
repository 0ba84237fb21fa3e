--------------------------- MODULE MachineContract --------------------------
(***************************************************************************)
(* What a NutanixMachine promises its owner, without the API server, the   *)
(* calls, the keys and the patches: at most one VM, ever; a VM that is     *)
(* asked to go only for a deletion; an object that is released after the   *)
(* VM it recorded and not before.  Prism may take a VM away at any time.   *)
(* Once off, nothing is promised any more of what a step may do.           *)
(***************************************************************************)
CONSTANT VM

VARIABLES
    object,   \* "kept", "deleting" or "released"
    used,     \* the VMs that were ever asked for
    owned,    \* the VMs that exist, or are on their way
    doomed,   \* the VMs asked to go
    recorded, \* the VMs the object names
    off       \* the promise lapsed

cvars == <<object, used, owned, doomed, recorded, off>>

ContractInit ==
    /\ object = "kept" /\ ~off
    /\ used = {} /\ owned = {} /\ doomed = {} /\ recorded = {}

Provision(v) ==
    /\ object # "released" /\ used = {}
    /\ used' = {v} /\ owned' = {v}
    /\ UNCHANGED <<object, doomed, recorded, off>>

\* The VM becomes known to the object, in its spec, in its status, or in both.
Record ==
    /\ recorded' \subseteq used
    /\ recorded # recorded'
    /\ UNCHANGED <<object, used, owned, doomed, off>>

RequestDelete ==
    /\ object = "kept"
    /\ object' = "deleting"
    /\ UNCHANGED <<used, owned, doomed, recorded, off>>

Doom(v) ==
    /\ object = "deleting" /\ v \in owned
    /\ doomed' = doomed \cup {v}
    /\ UNCHANGED <<object, used, owned, recorded, off>>

\* Prism takes the VM away: on request, by mistake, or because its task failed.
Vanish(v) ==
    /\ v \in owned
    /\ owned' = owned \ {v} /\ doomed' = doomed \ {v}
    /\ UNCHANGED <<object, used, recorded, off>>

Release ==
    /\ object = "deleting" /\ recorded \cap owned = {}
    /\ object' = "released"
    /\ UNCHANGED <<used, owned, doomed, recorded, off>>

ContractNext ==
    \/ off'
    \/ /\ ~off
       /\ \/ \E v \in VM : Provision(v) \/ Doom(v) \/ Vanish(v)
          \/ Record \/ RequestDelete \/ Release

ContractSafety == ContractInit /\ [][ContractNext]_cvars

\* A deletion asks the VM to go, a VM asked to go goes, and the object follows it.
Contract ==
    /\ ContractSafety
    /\ WF_cvars(\E v \in recorded : Doom(v))
    /\ WF_cvars(\E v \in doomed : Vanish(v))
    /\ WF_cvars(Release)
=============================================================================
