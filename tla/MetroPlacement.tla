---------------------------- MODULE MetroPlacement ----------------------------
(***************************************************************************)
(* How the machines of one metro find their site: getMetroFailureDomainSpec *)
(* with computeMetroPlacementIndex, and getMetroSiteFailureDomainSpec, of   *)
(* controllers/nutanixmachine_controller.go, called twice in every         *)
(* provisioning pass, by up to Workers passes at a time.                   *)
(*                                                                         *)
(* What a pass decides is in memory (mem) until the deferred patch at its  *)
(* end: the patches made on the way carry only what changed around them,   *)
(* and of those only the one after the checks may carry a choice.          *)
(* A pass is cut where another pass may read what it has not stored yet:   *)
(* after the choice, after the VM is made, and before each of the patches. *)
(***************************************************************************)
EXTENDS Integers, FiniteSets

CONSTANTS
    Machines,  \* the machines, as numbers in the order of their names
    Group,     \* the MachineSet (or control plane) of each machine
    Preferred, \* of a machine of a NutanixMetroSite: its preferredFailureDomain
    Workers,   \* MaxConcurrentReconciles
    MaxEvents, \* bound: calls that fail, lost answers, crashes, sites that go
               \* down or come up, and machines that are removed
    None

ASSUME PlacementAssumption ==
    /\ Machines \subseteq Nat /\ IsFiniteSet(Machines)
    /\ Workers \in Nat \ {0}
    /\ MaxEvents \in Nat

\* The positions in spec.failureDomains of the NutanixMetro, which has two.
Sites == {0, 1}
Other(s) == 1 - s
SiteOrNone == Sites \cup {None}

\* A VM: the site of its vHA category, and the site it is on.
PlacedVM == [native: Sites, at: Sites]

ASSUME NoneAssumption ==
    /\ None \notin Sites \cup PlacedVM
    /\ Preferred \in [Machines -> SiteOrNone]

VARIABLES
    stage,  \* of the Machine and its NutanixMachine
    o,      \* the NutanixMachine in the API server
    vm,     \* its VM
    pc,     \* where its pass stands
    mem,    \* rctx.NutanixMachine of the pass; o[m] between passes
    down,   \* the site that can take no VM now, by its recovery plan jobs
    events,
    lost    \* history: what was chosen for the VM that is there, and never stored

vars == <<stage, o, vm, pc, mem, down, events, lost>>

\* label: metro.nutanix.com/native-failuredomain.  active: the annotation
\* metro.nutanix.com/active-placement-pe.  cluster: spec.cluster.
NM == [label: SiteOrNone, active: SiteOrNone, cluster: SiteOrNone,
       ready: BOOLEAN, failed: BOOLEAN]
NewNM == [label |-> None, active |-> None, cluster |-> None,
          ready |-> FALSE, failed |-> FALSE]

\* Where a pass may stand: before the create, the checks, patchMachine after the
\* checks, and the deferred patch.
Points == {"idle", "create", "check", "patch", "end"}

\* "draining": the Machine is in deletion and its NutanixMachine is not yet.
TypeOK ==
    /\ stage \in [Machines -> {"absent", "live", "draining", "gone"}]
    /\ o \in [Machines -> NM]
    /\ vm \in [Machines -> PlacedVM \cup {None}]
    /\ pc \in [Machines -> Points]
    /\ mem \in [Machines -> NM]
    /\ down \in SiteOrNone
    /\ events \in 0..MaxEvents
    /\ lost \in [Machines -> SUBSET {"label", "cluster"}]

Init ==
    /\ stage = [m \in Machines |-> "absent"]
    /\ o = [m \in Machines |-> NewNM]
    /\ vm = [m \in Machines |-> None]
    /\ pc = [m \in Machines |-> "idle"]
    /\ mem = o
    /\ down \in SiteOrNone
    /\ events = 0
    /\ lost = [m \in Machines |-> {}]

Event == events < MaxEvents /\ events' = events + 1

-----------------------------------------------------------------------------
(* The choice of a site.                                                   *)

\* The NutanixMachine exists and has no deletionTimestamp.
Live(m) == stage[m] \in {"live", "draining"}

\* The machines to balance against.  Both lists are read from the server.
Siblings(m) == {n \in Machines : Live(n) /\ (Group[n] = Group[m] \/ Group[m] = None)}

Counts(m) == [s \in Sites |-> Cardinality({n \in Siblings(m) : o[n].label = s})]
Pending(m) == {n \in Siblings(m) : o[n].label = None} \cup {m}

\* Mutant: positions from one.
Least_FromOne(c) == IF c[1] < c[0] THEN 2 ELSE 1

Least(c) == IF c[1] < c[0] THEN 1 ELSE 0

\* Mutant: machines that have a site count as pending too.
Before_AllSiblings(m) == Cardinality({n \in Siblings(m) : n < m})

\* Where m stands among the pending machines, by name.
Before(m) == Cardinality({n \in Pending(m) : n < m})

\* The loop: each pending machine, in the order of the names, takes the site
\* with the fewest machines, and the first site on a tie.
LoopIndex(m) ==
    LET after[i \in 0..Before(m)] ==
            IF i = 0 THEN Counts(m)
            ELSE LET c == after[i - 1] IN [c EXCEPT ![Least(c)] = @ + 1]
    IN Least(after[Before(m)])

Gap(c) == IF c[1] < c[0] THEN c[0] - c[1] ELSE c[1] - c[0]

\* Mutant: the pending machines fill the gap, and then all take the first site.
computeMetroPlacementIndex_NoTurns(m) ==
    IF Before(m) < Gap(Counts(m)) THEN Least(Counts(m)) ELSE 0

\* What the loop comes to with two sites: the first of the pending machines
\* fill the gap, and the others alternate.
computeMetroPlacementIndex(m) ==
    LET counts == Counts(m)
        before == Before(m)
        gap == Gap(counts)
    IN IF before < gap THEN Least(counts) ELSE (before - gap) % 2

\* The other site if the recovery plan job, the availability of the Prism
\* Element or the validation of its spec says that s takes no VM.
ActiveSite(s) == IF s = down THEN Other(s) ELSE s

\* The site a machine gets for good: balanced, or the one its NutanixMetroSite
\* prefers (getMetroSiteFailureDomainSpec).
NativeSite(m) ==
    IF Preferred[m] # None THEN Preferred[m] ELSE computeMetroPlacementIndex(m)

\* Mutant: a label that is there is not looked at.
getMetroFailureDomainSpec_Again(m, c) ==
    LET s == NativeSite(m)
        p == ActiveSite(s)
    IN [nm |-> [c EXCEPT !.label = s, !.active = IF p # s THEN p ELSE @], fd |-> p]

\* The NutanixMachine c of the pass afterwards, and the failure domain returned.
\* A label that is there decides, wherever the VM was to be placed before.
getMetroFailureDomainSpec(m, c) ==
    IF c.label # None THEN [nm |-> c, fd |-> c.label]
    ELSE LET s == NativeSite(m)
             p == ActiveSite(s)
         IN [nm |-> [c EXCEPT !.label = s, !.active = IF p # s THEN p ELSE @], fd |-> p]

-----------------------------------------------------------------------------
(* A provisioning pass.                                                    *)

MayStart(m) ==
    /\ pc[m] = "idle" /\ Live(m) /\ ~o[m].ready /\ ~o[m].failed
    /\ Cardinality({n \in Machines : pc[n] # "idle"}) < Workers

Goto(m, where, c) ==
    /\ pc' = [pc EXCEPT ![m] = where]
    /\ mem' = [mem EXCEPT ![m] = c]

\* No VM: validateMachineConfig.  An error there is terminal, and may come
\* before or after the choice.
Choose(m) ==
    /\ MayStart(m) /\ vm[m] = None
    /\ LET r == getMetroFailureDomainSpec(m, o[m])
           placed == [r.nm EXCEPT !.cluster = r.fd]
       IN \/ Goto(m, "create", placed) /\ UNCHANGED events
          \/ \E c \in {o[m], r.nm, placed} :
                Goto(m, "end", [c EXCEPT !.failed = TRUE]) /\ Event
    /\ UNCHANGED <<stage, o, vm, down, lost>>

\* A VM of that name or UUID is there: getOrCreateVM returns it.
Adopt(m) ==
    /\ MayStart(m) /\ vm[m] # None
    /\ Goto(m, "check", o[m])
    /\ UNCHANGED <<stage, o, vm, down, events, lost>>

\* The VM gets the category of the native site.  The answer may be lost.
CreateVM(m) ==
    /\ pc[m] = "create" /\ mem[m].cluster # down
    /\ vm' = [vm EXCEPT ![m] = [native |-> mem[m].label, at |-> mem[m].cluster]]
    /\ \/ Goto(m, "check", mem[m]) /\ UNCHANGED events
       \/ Goto(m, "end", mem[m]) /\ Event
    /\ UNCHANGED <<stage, o, down, lost>>

CreateFails(m) ==
    /\ pc[m] = "create"
    /\ \/ mem[m].cluster = down /\ UNCHANGED events
       \/ Event
    /\ \E terminal \in BOOLEAN : Goto(m, "end", [mem[m] EXCEPT !.failed = terminal])
    /\ UNCHANGED <<stage, o, vm, down, lost>>

\* Mutant: a machine on the wrong site is not noticed.
Consistent_Always(c, fd) == TRUE

\* spec.cluster, if it is set, must be where the machine was recorded to be.
Consistent(c, fd) ==
    c.cluster \in {None, IF c.active # None THEN c.active ELSE fd}

\* checkFailureDomainStatus, which chooses again if there is no label, and the
\* rest of the pass if that changed nothing for patchMachine to store.
CheckStatus(m) ==
    /\ pc[m] = "check"
    /\ LET r == getMetroFailureDomainSpec(m, mem[m])
           fits == Consistent(r.nm, r.fd)
       IN \/ ~fits /\ Goto(m, "end", r.nm) /\ UNCHANGED events
          \/ fits /\ r.nm # mem[m] /\ Goto(m, "patch", r.nm) /\ UNCHANGED events
          \/ /\ fits /\ r.nm = mem[m]
             /\ Goto(m, "end", [mem[m] EXCEPT !.ready = TRUE])
             /\ UNCHANGED events
          \/ \E c \in {mem[m], r.nm} : Goto(m, "end", c) /\ Event
    /\ UNCHANGED <<stage, o, vm, down, lost>>

\* patchMachine, from the copy made before the checks, and the rest of the pass.
\* The pass took the NutanixMachine as it was stored, so what it stores is what
\* the checks changed.  The patch, its answer or the addresses may fail, at no cost
\* in events: there was one before the pass had anything to choose again.
PatchMachine(m) ==
    /\ pc[m] = "patch"
    /\ \/ /\ o' = [o EXCEPT ![m] = mem[m]]
          /\ Goto(m, "end", [mem[m] EXCEPT !.ready = TRUE])
       \/ /\ o' \in {o, [o EXCEPT ![m] = mem[m]]}
          /\ Goto(m, "end", mem[m])
    /\ UNCHANGED <<stage, vm, down, events, lost>>

\* The deferred patch.
EndPass(m) ==
    /\ pc[m] = "end"
    /\ o' = [o EXCEPT ![m] = mem[m]]
    /\ Goto(m, "idle", mem[m])
    /\ UNCHANGED <<stage, vm, down, events, lost>>

\* The manager stops, or the deferred patch fails: what the pass has not stored is
\* lost.
Crash(m) ==
    /\ pc[m] # "idle" /\ Event
    /\ Goto(m, "idle", o[m])
    /\ lost' = [lost EXCEPT ![m] = @ \cup
          {f \in {"label", "cluster"} : vm[m] # None /\ mem[m][f] # o[m][f]}]
    /\ UNCHANGED <<stage, o, vm, down>>

Reconcile(m) ==
    \/ Choose(m) \/ Adopt(m) \/ CreateVM(m) \/ CreateFails(m)
    \/ CheckStatus(m) \/ PatchMachine(m) \/ EndPass(m)

-----------------------------------------------------------------------------
(* The environment: Cluster API and the sites.                             *)

Appear(m) ==
    /\ stage[m] = "absent"
    /\ stage' = [stage EXCEPT ![m] = "live"]
    /\ UNCHANGED <<o, vm, pc, mem, down, events, lost>>

Remove(m) ==
    /\ stage[m] = "live"
    /\ Event
    /\ stage' = [stage EXCEPT ![m] = "draining"]
    /\ UNCHANGED <<o, vm, pc, mem, down, lost>>

\* What a pass still does for a machine in deletion touches no other machine.
Leave(m) ==
    /\ stage[m] = "draining"
    /\ stage' = [stage EXCEPT ![m] = "gone"]
    /\ Goto(m, "idle", o[m])
    /\ UNCHANGED <<o, vm, down, events, lost>>

Outage ==
    /\ Event
    /\ down' \in SiteOrNone \ {down}
    /\ UNCHANGED <<stage, o, vm, pc, mem, lost>>

Next ==
    \/ \E m \in Machines :
          Reconcile(m) \/ Crash(m) \/ Appear(m) \/ Remove(m) \/ Leave(m)
    \/ Outage

Spec == Init /\ [][Next]_vars

-----------------------------------------------------------------------------
(* Properties.                                                             *)

\* The closed form that the proofs use is the loop, whenever a machine may still
\* choose.  computeMetroPlacementIndex.
LoopAgrees ==
    \A m \in Machines : Live(m) /\ mem[m].label = None =>
        computeMetroPlacementIndex(m) = LoopIndex(m)

\* With w passes at a time, sites differ by at most 2w - 1 machines of a group
\* once each of them has its label, as long as none was removed and all of them
\* are placed on the metro, none on a site of it.  One pass at
\* a time balances perfectly; the passes that have chosen and not stored yet
\* count in neither site.  computeMetroPlacementIndex.
Members(g) == {m \in Machines : Group[m] = g}
On(g, s) == {m \in Members(g) : o[m].label = s}
AllPlaced(g) ==
    \A m \in Members(g) : stage[m] # "absent" => stage[m] = "live" /\ o[m].label # None
OnMetro(g) == \A m \in Members(g) : Preferred[m] = None
Balanced ==
    \A g \in {Group[m] : m \in Machines} \ {None} :
        OnMetro(g) /\ AllPlaced(g) => \A s \in Sites :
            Cardinality(On(g, s)) <= Cardinality(On(g, Other(s))) + 2 * Workers - 1

\* A native site that is stored is the one whose vHA category the VM has, however
\* often the pass is repeated, unless the choice for that VM was lost before it was
\* stored; for a machine of a metro site it is the preferred one, wherever the VM had
\* to go.  getMetroFailureDomainSpec, getMetroSiteFailureDomainSpec.
NativeSiteStays ==
    \A m \in Machines : o[m].label # None =>
        /\ vm[m] # None /\ "label" \notin lost[m] => o[m].label = vm[m].native
        /\ Preferred[m] # None => o[m].label = Preferred[m]

\* A machine is only ready on the site it is recorded on, the annotation if there
\* is one, else the label, unless what was chosen for its VM was lost.
\* checkFailureDomainStatus.
ReadyWhereRecorded ==
    \A m \in Machines : o[m].ready /\ lost[m] = {} =>
        vm[m].at = IF o[m].active # None THEN o[m].active ELSE o[m].label

\* A machine with the annotation, and so with the condition
\* MetroRecoveryPlacement, has its VM away from its native site.
RecoveryMeansPaired ==
    \A m \in Machines : o[m].active # None /\ vm[m] # None => vm[m].at # vm[m].native
=============================================================================
