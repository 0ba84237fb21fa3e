--------------------------- MODULE ClusterObjects ---------------------------
(***************************************************************************)
(* What the controllers of one NutanixCluster share: the objects in the    *)
(* API server (the NutanixCluster, the Secret and ConfigMap it refers to,  *)
(* the NutanixVirtualHADomain of every metro), the resources in Prism      *)
(* Central behind them, and what Cluster API and users do to all of these. *)
(***************************************************************************)
EXTENDS Integers, Sequences, FiniteSets

CONSTANTS
    Metros,       \* the metros the cluster's failure domains refer to
    UUIDs,        \* the UUIDs Prism may hand out for one resource
    ByName,       \* what a category, which goes by key and value, is recorded as
    None,         \* no resource
    UseBundle,    \* spec.prismCentral.additionalTrustBundle is a ConfigMap
    DirectDelete, \* users delete the NutanixCluster itself, not only the Cluster
    MaxFaults     \* bound: failed calls, lost answers, crashes, stray deletions
                  \* and drift in Prism

ASSUME ClusterAssumption ==
    /\ None \notin UUIDs \cup {ByName} /\ ByName \notin UUIDs
    /\ {UseBundle, DirectDelete} \subseteq BOOLEAN
    /\ MaxFaults \in Nat

VARIABLES
    nc,      \* the NutanixCluster
    refs,    \* the Secret and the ConfigMap it refers to
    vha,     \* the NutanixVirtualHADomain of each metro
    listed,  \* the vHADomains and machines that the manager's cache shows, which lags
    res,     \* UUID of each vHADomain resource in Prism Central
    tag,     \* the default categories of the cluster exist in Prism Central
    mach,    \* the cluster has NutanixMachines
    capiDel, \* the Cluster is being deleted
    past,    \* history, for the properties only: what has happened, see Events
    faults   \* faults so far

apiVars == <<nc, refs, vha, listed>>
worldVars == <<res, tag, mach, capiDel, past>>

\* Made in this order by ensureVHADomainPCResources, for a metro of two failure
\* domains and one movement group.  Categories go by name, the others by UUID.
Order == <<"cat0", "cat1", "policy", "plan0", "plan1">>
Kinds == {"cat0", "cat1", "policy", "plan0", "plan1"}
Cats  == {"cat0", "cat1"}

Resources == [Kinds -> UUIDs \cup {ByName, None}]
NoResources == [k \in Kinds |-> None]

RefSeq == IF UseBundle THEN <<"secret", "bundle">> ELSE <<"secret">>
Refs == {RefSeq[i] : i \in 1..Len(RefSeq)}

\* cat: ClusterCategoryCreatedCondition with its reason.
NC == [live: BOOLEAN, fin: BOOLEAN, del: BOOLEAN, ready: BOOLEAN,
       cat: {"unset", "created", "deletionFailed", "deleting"}]
Ref == [live: BOOLEAN, fin: BOOLEAN, del: BOOLEAN, owner: {"free", "this", "other"}]
VHA == [live: BOOLEAN, fin: BOOLEAN, del: BOOLEAN, ready: BOOLEAN, spec: Resources]

NewNC == [live |-> TRUE, fin |-> FALSE, del |-> FALSE, ready |-> FALSE, cat |-> "unset"]
NewRef(owner) == [live |-> TRUE, fin |-> owner = "other", del |-> FALSE, owner |-> owner]
NewVHA == [live |-> TRUE, fin |-> FALSE, del |-> FALSE, ready |-> FALSE,
           spec |-> NoResources]
Absent == [NewVHA EXCEPT !.live = FALSE]

Listed == [domains: SUBSET Metros, machines: BOOLEAN]

\* checked:       a pass in deletion found no machines and went on;
\* missedMachine: ... while there were some, which its list did not show yet;
\* late:          a machine appeared after a pass had found none;
\* missedDomain:  a pass in deletion found no vHADomains and went on while there were
\*                some, which its list did not show yet;
\* hasty:         the NutanixCluster was deleted before its finalizer was stored.
Events == {"checked", "missedMachine", "late", "missedDomain", "hasty"}

Noted(e, happens) == IF happens THEN {e} ELSE {}

ObjectsTypeOK ==
    /\ nc \in NC /\ refs \in [Refs -> Ref] /\ vha \in [Metros -> VHA]
    /\ listed \in Listed
    /\ res \in [Metros -> Resources]
    /\ {tag, mach, capiDel} \subseteq BOOLEAN
    /\ past \in SUBSET Events
    /\ faults \in 0..MaxFaults

ObjectsInit ==
    /\ nc = NewNC
    /\ \E owner \in [Refs -> {"free", "other"}] : refs = [o \in Refs |-> NewRef(owner[o])]
    /\ vha = [m \in Metros |-> Absent]
    /\ listed = [domains |-> {}, machines |-> FALSE]
    /\ res = [m \in Metros |-> NoResources]
    /\ tag = FALSE /\ mach = FALSE /\ capiDel = FALSE
    /\ past = {} /\ faults = 0

\* Outcome of a remote write: done and seen, done but the answer is lost, not done.
Fault   == faults < MaxFaults /\ faults' = faults + 1
Done    == faults' = faults
Lost    == Fault
NotDone == Fault

\* Delete sets the timestamp; an object without finalizers is gone at once.
Deleted(o) == [o EXCEPT !.del = TRUE, !.live = @ /\ o.fin]

\* Update or patch of the finalizer: an object in deletion goes away with it, and
\* the API server takes no new finalizer for it.
WithFin(o, fin) ==
    IF fin THEN [o EXCEPT !.fin = @ \/ ~o.del]
           ELSE [o EXCEPT !.fin = FALSE, !.live = @ /\ ~o.del]

\* What there is to be listed.
Domains == {m \in Metros : vha[m].live}

\* The credentials can be read, which every client for Prism Central needs.
CredentialsLive == \A o \in Refs : refs[o].live
-----------------------------------------------------------------------------
(* Cluster API, users and the garbage collector.                           *)

DeleteCluster ==
    /\ ~capiDel
    /\ capiDel' = TRUE
    /\ UNCHANGED <<apiVars, res, tag, mach, past, faults>>

\* Cluster API deletes the NutanixCluster when the machines are gone; a user may
\* delete it by name.
DeleteNutanixCluster ==
    /\ nc.live /\ ~nc.del
    /\ DirectDelete \/ (capiDel /\ ~mach)
    /\ nc' = Deleted(nc)
    /\ past' = past \cup Noted("hasty", ~nc.fin)
    /\ UNCHANGED <<refs, vha, listed, res, tag, mach, capiDel, faults>>

\* A user deletes a vHADomain, the Secret or the ConfigMap by name.
StrayDelete ==
    /\ Fault
    /\ \/ \E m \in Metros :
             /\ vha[m].live /\ ~vha[m].del
             /\ vha' = [vha EXCEPT ![m] = Deleted(@)] /\ UNCHANGED refs
       \/ \E o \in Refs :
             /\ refs[o].live /\ ~refs[o].del
             /\ refs' = [refs EXCEPT ![o] = Deleted(@)] /\ UNCHANGED vha
    /\ UNCHANGED <<nc, listed, worldVars>>

\* Objects that the NutanixCluster owns are deleted after it.
CollectGarbage ==
    /\ ~nc.live
    /\ \/ \E m \in Metros :
             /\ vha[m].live /\ ~vha[m].del
             /\ vha' = [vha EXCEPT ![m] = Deleted(@)] /\ UNCHANGED refs
       \/ \E o \in Refs :
             /\ refs[o].live /\ ~refs[o].del /\ refs[o].owner = "this"
             /\ refs' = [refs EXCEPT ![o] = Deleted(@)] /\ UNCHANGED vha
    /\ UNCHANGED <<nc, listed, worldVars, faults>>

\* The cache of the manager's client catches up, kind by kind.
DomainListSyncs ==
    /\ listed.domains # Domains
    /\ listed' = [listed EXCEPT !.domains = Domains]
    /\ UNCHANGED <<nc, refs, vha, worldVars, faults>>

MachineListSyncs ==
    /\ listed.machines # mach
    /\ listed' = [listed EXCEPT !.machines = mach]
    /\ UNCHANGED <<nc, refs, vha, worldVars, faults>>

\* Somebody removes a resource of a vHADomain in Prism Central.
Drift ==
    /\ Fault
    /\ \E m \in Metros, k \in Kinds :
          /\ res[m][k] # None
          /\ res' = [res EXCEPT ![m][k] = None]
    /\ UNCHANGED <<apiVars, tag, mach, capiDel, past>>
-----------------------------------------------------------------------------
(* The NutanixMachines, reduced to what the cluster sees of them.          *)

\* Cluster API makes machines once the cluster is ready and until the Cluster is
\* deleted; a NutanixCluster that is deleted by name does not stop it.
MachineAppears ==
    /\ ~mach
    /\ nc.ready /\ ~capiDel
    /\ mach' = TRUE
    /\ past' = past \cup Noted("late", "checked" \in past)
    /\ UNCHANGED <<apiVars, res, tag, capiDel, faults>>

\* A create makes the default categories and sets the condition, unless it is set
\* (markClusterCategoryCreated).  A patch that fails is only logged.
MachineCreates ==
    /\ mach
    /\ nc.live /\ CredentialsLive
    /\ tag' = TRUE
    /\ \/ Done /\ nc' = [nc EXCEPT !.cat = "created"]
       \/ nc.cat # "created" /\ NotDone /\ UNCHANGED nc
    /\ UNCHANGED <<refs, vha, listed, res, mach, capiDel, past>>

\* A machine needs its NutanixCluster and the credentials to be deleted.
MachineGone ==
    /\ mach
    /\ nc.live /\ CredentialsLive
    /\ mach' = FALSE
    /\ UNCHANGED <<apiVars, res, tag, capiDel, past, faults>>

World ==
    \/ DeleteCluster \/ DeleteNutanixCluster \/ StrayDelete \/ CollectGarbage
    \/ DomainListSyncs \/ MachineListSyncs \/ Drift
    \/ MachineAppears \/ MachineCreates \/ MachineGone
=============================================================================
