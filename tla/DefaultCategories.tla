-------------------------- MODULE DefaultCategories --------------------------
(***************************************************************************)
(* The default category of a cluster, KubernetesClusterName with the name  *)
(* of the cluster as its value: made by the first machine that needs it     *)
(* (getOrCreateVM), noted as ClusterCategoryCreatedCondition on the         *)
(* NutanixCluster by the machine controller, and deleted by the cluster     *)
(* controller if that condition says so (reconcileCategoriesDelete).        *)
(* The clusters of this module have one name, in different namespaces.      *)
(*                                                                         *)
(* From Prism Central 7.6 on a category has an owner, a project; lookups    *)
(* are scoped, a machine's to its own project and a cluster's to the one    *)
(* its policy names.                                                        *)
(***************************************************************************)
EXTENDS PCVersions

CONSTANTS
    Clusters, Machines, Projects,
    ClusterOf,  \* [Machines -> Clusters]
    Project,    \* [Machines -> Projects]: spec.project, or the default project
    Policy,     \* [Clusters -> Projects \cup {None}]: the project of a single-project
                \* or default-only policy, None for unrestricted
    SharedWith, \* [Projects -> SUBSET Projects]: who else may use its categories
    Shared,     \* projects whose users may have made a category of that name before
    Version,    \* of Prism Central
    None,
    MaxFaults   \* bound: failed calls, lost answers and crashes

ASSUME CategoriesAssumption ==
    /\ ClusterOf \in [Machines -> Clusters] /\ Project \in [Machines -> Projects]
    /\ Policy \in [Clusters -> Projects \cup {None}]
    /\ SharedWith \in [Projects -> SUBSET Projects]
    /\ None \notin Projects /\ "none" \notin Projects \cup {None}
    /\ Shared \subseteq Projects /\ MaxFaults \in Nat

VARIABLES
    cats,   \* owners of the categories of that name; None: no project
    vm,     \* the category of each machine's VM, "none" if there is no VM
    stage,  \* of each NutanixMachine: there, or gone
    failed, \* why its failureReason is set
    pc,     \* where the pass of each machine stands
    saw,    \* the condition as the machine's pass read it with the NutanixCluster
    ref,    \* the category the pass will put on the VM
    cstage, cpc, csaw, \* the same for each NutanixCluster
    pick,   \* the category its pass deletes
    verdict, \* what its pass makes of the condition
    cond,   \* ClusterCategoryCreatedCondition of each NutanixCluster, or its reason
    made,   \* history: the categories its machines made and that are still there
    marked, \* history: clusters whose condition was True
    refused, \* history: clusters that had a Delete fail
    faults

machineVars == <<vm, stage, failed, pc, saw, ref>>
clusterVars == <<cstage, cpc, csaw, pick, verdict>>
vars == <<cats, machineVars, clusterVars, cond, made, marked, refused, faults>>

Scopes == Projects \cup {None}
Conds == {"unset", "true", "creationFailed", "deletionFailed", "deleting"}
MachinesOf(c) == {m \in Machines : ClusterOf[m] = c}

TypeOK ==
    /\ cats \subseteq Scopes
    /\ vm \in [Machines -> Scopes \cup {"none"}]
    /\ stage \in [Machines -> {"there", "gone"}]
    /\ failed \in [Machines -> {"no", "policy", "call", "category"}]
    /\ pc \in [Machines -> {"idle", "list", "create", "mark", "markFailed", "refs", "vm"}]
    /\ saw \in [Machines -> Conds]
    /\ ref \in [Machines -> Scopes]
    /\ cstage \in [Clusters -> {"there", "gone"}]
    /\ cpc \in [Clusters -> {"idle", "list", "delete", "finish"}]
    /\ csaw \in [Clusters -> Conds]
    /\ pick \in [Clusters -> Scopes]
    /\ verdict \in [Clusters -> Conds]
    /\ cond \in [Clusters -> Conds]
    /\ made \in [Clusters -> SUBSET Scopes]
    /\ marked \subseteq Clusters /\ refused \subseteq Clusters
    /\ faults \in 0..MaxFaults

Init ==
    /\ cats \in SUBSET Shared
    /\ vm = [m \in Machines |-> "none"]
    /\ stage = [m \in Machines |-> "there"] /\ failed = [m \in Machines |-> "no"]
    /\ pc = [m \in Machines |-> "idle"] /\ saw = [m \in Machines |-> "unset"]
    /\ ref = [m \in Machines |-> None]
    /\ cstage = [c \in Clusters |-> "there"] /\ cpc = [c \in Clusters |-> "idle"]
    /\ csaw = [c \in Clusters |-> "unset"] /\ pick = [c \in Clusters |-> None]
    /\ verdict = csaw /\ cond = csaw
    /\ made = [c \in Clusters |-> {}] /\ marked = {} /\ refused = {}
    /\ faults = 0

-----------------------------------------------------------------------------
(* Helpers.                                                                *)

Fault == faults < MaxFaults /\ faults' = faults + 1
Fine == UNCHANGED faults

ProjectAware == isPCVersionHigherThan75(Version)

\* The project a machine's lookups are scoped to (resolveEffectiveProject).
MachineScope(m) == IF ProjectAware THEN Project[m] ELSE None

\* Mutant: the policy is not looked at.
ClusterScope_Unscoped(c) == None

\* resolveProjectInfoForPolicy: what the deletion is scoped to.
ClusterScope(c) == IF ProjectAware THEN Policy[c] ELSE None

\* getCategoryForProject: unscoped, the first of a list in no particular order;
\* else the project's own, or one that is shared with it.
Candidates(p) ==
    IF p = None THEN cats
    ELSE IF p \in cats THEN {p}
    ELSE {q \in cats \ {None} : p \in SharedWith[q]}

\* What the patch helper of Cluster API makes of a condition that the pass read
\* as before and set to after: a conflict if another has changed it meanwhile.
Conflict(c, before, after) == cond[c] \notin {before, after}

Goto(m, l) == pc' = [pc EXCEPT ![m] = l]

InUse(q) == \E m \in Machines : vm[m] = q

-----------------------------------------------------------------------------
(* A machine that has no VM yet: the part of getOrCreateVM that is about    *)
(* categories.                                                             *)

PolicyAllows(m) == ~ProjectAware \/ Policy[ClusterOf[m]] \in {None, Project[m]}

\* validateProjectPolicy.
Start(m) ==
    /\ pc[m] = "idle" /\ stage[m] = "there" /\ failed[m] = "no" /\ vm[m] = "none"
    /\ IF PolicyAllows(m)
       THEN Goto(m, "list") /\ saw' = [saw EXCEPT ![m] = cond[ClusterOf[m]]] /\ UNCHANGED failed
       ELSE failed' = [failed EXCEPT ![m] = "policy"] /\ UNCHANGED <<pc, saw>>
    /\ UNCHANGED <<cats, vm, stage, ref, clusterVars, cond, made, marked, refused, faults>>

\* A call of the pass fails: for good, or to be tried again.
CallFails(m, l) ==
    /\ Fault
    /\ Goto(m, l)
    /\ failed' \in {failed, [failed EXCEPT ![m] = "call"]}
    /\ UNCHANGED <<vm, stage, saw, ref, clusterVars, cond, marked, refused>>

List(m) ==
    /\ pc[m] = "list"
    /\ UNCHANGED <<cats, made>>
    /\ \/ /\ Goto(m, IF Candidates(MachineScope(m)) = {} THEN "create" ELSE "mark") /\ Fine
          /\ UNCHANGED <<vm, stage, failed, saw, ref, clusterVars, cond, marked, refused>>
       \/ CallFails(m, "markFailed")

\* A category that came into being since the list is as good as a new one.
Create(m) ==
    /\ pc[m] = "create"
    /\ LET p == MachineScope(m)
           isNew == p \notin cats
       IN /\ \/ /\ Goto(m, "mark") /\ Fine
                /\ cats' = cats \cup {p}
                /\ UNCHANGED <<vm, stage, failed, saw, ref, clusterVars, cond, marked, refused>>
             \/ CallFails(m, "markFailed") /\ cats' \in {cats, cats \cup {p}}
          /\ made' = IF isNew /\ p \in cats'
                     THEN [made EXCEPT ![ClusterOf[m]] = @ \cup {p}] ELSE made

\* The condition is patched from what the pass read; a patch that fails, or that
\* conflicts, is only logged.
SetCondition(m, after) ==
    LET c == ClusterOf[m]
        set == cond' = [cond EXCEPT ![c] = after]
    IN \/ Conflict(c, saw[m], after) /\ UNCHANGED cond /\ Fine
       \/ ~Conflict(c, saw[m], after) /\ set /\ Fine
       \/ ~Conflict(c, saw[m], after) /\ UNCHANGED cond /\ Fault

\* Mutant: leaves it to the next machine.
markClusterCategoryCreated_Never(m) ==
    /\ pc[m] = "mark"
    /\ Goto(m, "refs") /\ UNCHANGED <<cond, marked>> /\ Fine
    /\ UNCHANGED <<cats, vm, stage, failed, saw, ref, clusterVars, made, refused>>

markClusterCategoryCreated(m) ==
    /\ pc[m] = "mark"
    /\ IF saw[m] = "true" THEN UNCHANGED cond /\ Fine ELSE SetCondition(m, "true")
    /\ marked' = {c \in Clusters : c \in marked \/ cond'[c] = "true"}
    /\ Goto(m, "refs")
    /\ UNCHANGED <<cats, vm, stage, failed, saw, ref, clusterVars, made, refused>>

\* Mutant: also if the category was there before.
markClusterCategoryCreationFailed_Always(m) ==
    /\ pc[m] = "markFailed"
    /\ SetCondition(m, "creationFailed")
    /\ Goto(m, "idle")
    /\ UNCHANGED <<cats, vm, stage, failed, saw, ref, clusterVars, made, marked, refused>>

markClusterCategoryCreationFailed(m) ==
    /\ pc[m] = "markFailed"
    /\ IF saw[m] = "true" THEN UNCHANGED cond /\ Fine ELSE SetCondition(m, "creationFailed")
    /\ Goto(m, "idle")
    /\ UNCHANGED <<cats, vm, stage, failed, saw, ref, clusterVars, made, marked, refused>>

\* GetPrismReferencesOfCategoryIdentifiersForProject: a second list, and a
\* category that is not in it is a terminal error.
References(m) ==
    /\ pc[m] = "refs"
    /\ UNCHANGED <<cats, made>>
    /\ \/ /\ Fine
          /\ IF Candidates(MachineScope(m)) = {}
             THEN /\ failed' = [failed EXCEPT ![m] = "category"]
                  /\ Goto(m, "idle") /\ UNCHANGED ref
             ELSE /\ \E q \in Candidates(MachineScope(m)) : ref' = [ref EXCEPT ![m] = q]
                  /\ Goto(m, "vm") /\ UNCHANGED failed
          /\ UNCHANGED <<vm, stage, saw, clusterVars, cond, marked, refused>>
       \/ CallFails(m, "idle")

\* The VM is made, unless its category is gone.  The answer may be lost.
MakeVM(m) ==
    /\ pc[m] = "vm"
    /\ IF ref[m] \in cats
       THEN vm' = [vm EXCEPT ![m] = ref[m]] /\ UNCHANGED failed
       ELSE failed' = [failed EXCEPT ![m] = "category"] /\ UNCHANGED vm
    /\ Goto(m, "idle") /\ Fine
    /\ UNCHANGED <<cats, stage, saw, ref, clusterVars, cond, made, marked, refused>>

MachinePass(m) ==
    \/ Start(m) \/ List(m) \/ Create(m) \/ References(m) \/ MakeVM(m)
    \/ markClusterCategoryCreated(m) \/ markClusterCategoryCreationFailed(m)

\* The machine is deleted and its VM with it; a VM it does not know of stays
\* (NutanixMachine).
Leave(m) ==
    /\ stage[m] = "there" /\ pc[m] = "idle"
    /\ stage' = [stage EXCEPT ![m] = "gone"]
    /\ \/ vm' = [vm EXCEPT ![m] = "none"] /\ Fine
       \/ vm[m] # "none" /\ UNCHANGED vm /\ Fault
    /\ UNCHANGED <<cats, failed, pc, saw, ref, clusterVars, cond, made, marked, refused>>

-----------------------------------------------------------------------------
(* The deletion of a cluster that has no machines any more:                 *)
(* reconcileCategoriesDelete.                                              *)

Verdict(c, l, v) ==
    /\ cpc' = [cpc EXCEPT ![c] = l] /\ verdict' = [verdict EXCEPT ![c] = v]

\* Mutant: a deletion that failed is not tried again.
Gate_OnlyTrue(k) == k = "true"

Gate(k) == k \in {"true", "deletionFailed"}

StartCluster(c) ==
    /\ cpc[c] = "idle" /\ cstage[c] = "there"
    /\ \A m \in MachinesOf(c) : stage[m] = "gone"
    /\ csaw' = [csaw EXCEPT ![c] = cond[c]]
    /\ \/ Gate(cond[c]) /\ Verdict(c, "list", cond[c]) /\ Fine
       \/ ~Gate(cond[c]) /\ Verdict(c, "finish", "deleting") /\ Fine
       \/ Gate(cond[c]) /\ Verdict(c, "finish", cond[c]) /\ Fault
    /\ UNCHANGED <<cats, machineVars, cstage, pick, cond, made, marked, refused>>

\* deleteCategoryKeyValuesForProject: one of the categories found, if any.
ListForDelete(c) ==
    /\ cpc[c] = "list"
    /\ \/ /\ Candidates(ClusterScope(c)) = {} /\ Fine
          /\ Verdict(c, "finish", "deleting") /\ UNCHANGED pick
       \/ /\ \E q \in Candidates(ClusterScope(c)) : pick' = [pick EXCEPT ![c] = q]
          /\ Verdict(c, "delete", verdict[c]) /\ Fine
       \/ Fault /\ Verdict(c, "finish", "deletionFailed") /\ UNCHANGED pick
    /\ UNCHANGED <<cats, machineVars, cstage, csaw, cond, made, marked, refused>>

\* Prism refuses to delete a category with VMs.  A Delete that fails ends the
\* deletion without an error; the obsolete categories are listed next.
DeleteOne(c) ==
    /\ cpc[c] = "delete"
    /\ LET q == pick[c]
           gone == q \in cats /\ ~InUse(q)
       IN \/ /\ Verdict(c, "finish", "deleting")
             /\ \/ Fine /\ cats' = IF gone THEN cats \ {q} ELSE cats
                \/ Fault /\ cats' \in {cats, IF gone THEN cats \ {q} ELSE cats}
             /\ refused' = IF cats' = cats THEN refused \cup {c} ELSE refused
          \/ /\ Verdict(c, "finish", "deletionFailed") /\ Fault
             /\ cats' = IF gone THEN cats \ {q} ELSE cats
             /\ refused' = IF cats' = cats THEN refused \cup {c} ELSE refused
    /\ made' = [d \in Clusters |-> made[d] \cap cats']
    /\ UNCHANGED <<machineVars, cstage, csaw, pick, cond, marked>>

\* The condition is patched; the finalizer goes unless something failed.
FinishCluster(c) ==
    /\ cpc[c] = "finish"
    /\ LET patched == IF Conflict(c, csaw[c], verdict[c]) THEN cond
                      ELSE [cond EXCEPT ![c] = verdict[c]]
       IN \/ /\ verdict[c] = "deleting" /\ Fine
             /\ cond' = patched /\ cstage' = [cstage EXCEPT ![c] = "gone"]
          \/ verdict[c] # "deleting" /\ Fine /\ cond' = patched /\ UNCHANGED cstage
          \/ Fault /\ cond' \in {cond, patched} /\ UNCHANGED cstage
    /\ cpc' = [cpc EXCEPT ![c] = "idle"]
    /\ UNCHANGED <<cats, machineVars, csaw, pick, verdict, made, marked, refused>>

ClusterPass(c) == StartCluster(c) \/ ListForDelete(c) \/ DeleteOne(c) \/ FinishCluster(c)

\* The manager stops: every pass ends where it is.
Crash ==
    /\ Fault
    /\ pc' = [m \in Machines |-> "idle"] /\ cpc' = [c \in Clusters |-> "idle"]
    /\ UNCHANGED <<cats, vm, stage, failed, saw, ref, cstage, csaw, pick, verdict,
                   cond, made, marked, refused>>

Next ==
    \/ \E m \in Machines : MachinePass(m) \/ Leave(m)
    \/ \E c \in Clusters : ClusterPass(c)
    \/ Crash

Spec == Init /\ [][Next]_vars

-----------------------------------------------------------------------------
(* What the controllers rely on.                                           *)

\* Both scope a category to the same project: projects are used, and every cluster
\* has a policy that names one.
Scoped == ProjectAware /\ \A c \in Clusters : Policy[c] # None

\* Nor can two clusters of one name use the same category.
Usable(p) == {q \in Projects : q = p \/ p \in SharedWith[q]}
Separate ==
    \A c, d \in Clusters : c # d => Usable(Policy[c]) \cap Usable(Policy[d]) = {}

-----------------------------------------------------------------------------
(* Properties.                                                             *)

\* A cluster that is gone, and none of whose calls failed, leaves none of the
\* categories its machines made.  Not kept if its machines are in projects that
\* its policy does not name (Scoped), or while another cluster of that name uses
\* the category (Separate).  reconcileCategoriesDelete.
CategoriesCollected ==
    \A c \in Clusters : cstage[c] = "gone" /\ faults = 0 => made[c] = {}

\* Once the condition was True they are deleted whatever else failed: only a
\* Delete that fails leaves one.  reconcileCategoriesDelete, the reason
\* DeletionFailed.
MarkedIsCollected ==
    \A c \in marked \ refused : cstage[c] = "gone" => made[c] = {}

\* What one machine's failure does not undo: the condition stays True until the
\* cluster is deleted.  markClusterCategoryCreationFailed, and the conflict check
\* of the patch.
MarkedIsKept ==
    [][\A c \in Clusters : cond[c] = "true" /\ cond'[c] # "true" => cpc[c] = "finish"]_vars

\* No machine fails for good because a category it had found or made was deleted
\* under it by another cluster of that name, in a project of its own.
\* References, getCategoryForProject.
NoneFailsForGood == \A m \in Machines : failed[m] # "category"
=============================================================================
