---------------------------- MODULE MetroScaleDown ----------------------------
(***************************************************************************)
(* The scale-down balancer (controllers/nutanixmetro_scaledown_controller.go) *)
(* of one MachineSet on a metro, against the MachineSet controller of      *)
(* Cluster API, which deletes annotated machines first.  Where a machine   *)
(* is placed is left open: any site at any time (see MetroPlacement).      *)
(*                                                                         *)
(* A pass takes the MachineSet, the machines and their sites from the       *)
(* manager's cache, which follows the server one kind of object at a time, *)
(* selects the victims, and then patches one machine after the other: what *)
(* it goes by may be older than the pass, and is as old as the pass when a *)
(* patch is made.                                                          *)
(***************************************************************************)
EXTENDS Integers, FiniteSets

CONSTANTS
    Machines,  \* the machines, as numbers in the order of their creation
    MaxEvents, \* bound: changes of spec.replicas, failed patches, machines that
               \* others remove or an operator annotates, the MachineSet's deletion
    None

ASSUME ScaleAssumption ==
    /\ Machines \subseteq Nat /\ IsFiniteSet(Machines)
    /\ MaxEvents \in Nat

\* The two failure domains of the metro, in the order of their names.
Sites == {0, 1}
Other(s) == 1 - s
ASSUME NoneAssumption == None \notin Sites

VARIABLES
    replicas, \* spec.replicas of the MachineSet
    skip,     \* why Reconcile returns before it lists anything, if it does
    st,       \* of each Machine; "gone" from its deletionTimestamp on
    site,     \* the native-failuredomain label of its NutanixMachine
    mark,     \* "delete": delete-machine; "managed": managed-delete-machine
    cache,    \* all of these as the manager's cache has them
    on,       \* machines that the pass in progress has yet to annotate
    off,      \* machines that it has yet to clear
    goal,     \* history: how far apart the sites may be after this scale-down
    crossed,  \* history: machines that an operator annotated while the balancer
              \* still took them for its own, by its cache or its pass
    events    \* so far

vars == <<replicas, skip, st, site, mark, cache, on, off, goal, crossed, events>>

\* "paused": the Cluster or the MachineSet is paused, or the Cluster is not to be
\* found.  "deleted": the MachineSet has a deletionTimestamp.
Skips == {"no", "paused", "deleted"}

\* What a pass goes by, and what is so.
View == [replicas: Nat, skip: Skips, st: [Machines -> {"absent", "live", "gone"}],
         site: [Machines -> Sites \cup {None}],
         mark: [Machines -> SUBSET {"delete", "managed"}]]
Now == [replicas |-> replicas, skip |-> skip, st |-> st, site |-> site, mark |-> mark]

TypeOK ==
    /\ Now \in View /\ cache \in View
    /\ {replicas, cache.replicas} \subseteq 0..Cardinality(Machines)
    /\ on \in SUBSET Machines /\ off \in SUBSET Machines /\ crossed \in SUBSET Machines
    /\ goal \in Nat \cup {None}
    /\ events \in 0..MaxEvents

Init ==
    /\ replicas = Cardinality(Machines)
    /\ skip \in {"no", "paused"}
    /\ st = [m \in Machines |-> "absent"]
    /\ site = [m \in Machines |-> None]
    /\ mark = [m \in Machines |-> {}]
    /\ cache = Now
    /\ on = {} /\ off = {} /\ goal = None /\ crossed = {}
    /\ events = 0

Event == events < MaxEvents /\ events' = events + 1

-----------------------------------------------------------------------------
(* selectVictims.                                                          *)

Live(v)  == {m \in Machines : v.st[m] = "live"}
Known(v) == {m \in Live(v) : v.site[m] # None}
Count(v) == [s \in Sites |-> Cardinality({m \in Known(v) : v.site[m] = s})]

Apart(c) == IF c[0] < c[1] THEN c[1] - c[0] ELSE c[0] - c[1]

\* Mutant: the machines of the only site that has any are surplus to it.
siteExcess_Always(c) == Apart(c)

\* Nothing to even out while only one site has machines.
siteExcess(c) == IF c[0] = 0 \/ c[1] = 0 THEN 0 ELSE Apart(c)

Surplus(v) ==
    IF v.replicas < Cardinality(Live(v)) THEN Cardinality(Live(v)) - v.replicas ELSE 0

HowMany(v) ==
    LET k == IF Surplus(v) > 0 THEN Surplus(v) ELSE siteExcess(Count(v))
    IN IF k > Cardinality(Known(v)) THEN Cardinality(Known(v)) ELSE k

\* Mutant: on a tie, and otherwise, the smaller site is drained.
Fuller_Smaller(c) == IF c[0] > 0 /\ (c[0] <= c[1] \/ c[1] = 0) THEN 0 ELSE 1

Fuller(c) == IF c[1] > c[0] THEN 1 ELSE 0

\* What each site keeps when one machine after the other goes from the fuller.
Kept(v) ==
    LET after[i \in 0..HowMany(v)] ==
            IF i = 0 THEN Count(v)
            ELSE [after[i - 1] EXCEPT ![Fuller(after[i - 1])] = @ - 1]
    IN after[HowMany(v)]

\* The newest machines of a site go.
selectVictims(v) ==
    LET has == Count(v)
        keeps == Kept(v)
    IN {m \in Known(v) :
          Cardinality({n \in Known(v) : v.site[n] = v.site[m] /\ n > m})
              < has[v.site[m]] - keeps[v.site[m]]}

\* What applyDeleteAnnotations has to patch: victims without the annotation,
\* and machines that are no victims and carry the balancer's own annotation.
ToMark(v) == {m \in selectVictims(v) : "delete" \notin v.mark[m]}

\* Mutant: every annotation is cleared, not only the balancer's own.
ToClear_Any(v) == {m \in Live(v) \ selectVictims(v) : "delete" \in v.mark[m]}

\* Mutant: a machine that is no victim any more keeps its annotation.
ToClear_None(v) == {}

ToClear(v) == {m \in Live(v) \ selectVictims(v) : "managed" \in v.mark[m]}

\* The annotations are those that selectVictims asks for.
Settled(v) ==
    LET victims == selectVictims(v)
    IN \A m \in Live(v) : IF m \in victims THEN "delete" \in v.mark[m]
                                           ELSE "managed" \notin v.mark[m]

-----------------------------------------------------------------------------
(* The balancer.                                                           *)

server == <<replicas, skip, st, site>>

\* The cache follows, one kind of object at a time.
SyncSet ==
    /\ cache' = [cache EXCEPT !.replicas = replicas, !.skip = skip]
    /\ UNCHANGED <<server, mark, on, off, goal, crossed, events>>

SyncMachines ==
    /\ cache' = [cache EXCEPT !.st = st, !.mark = mark]
    /\ UNCHANGED <<server, mark, on, off, goal, crossed, events>>

SyncNutanixMachines ==
    /\ cache' = [cache EXCEPT !.site = site]
    /\ UNCHANGED <<server, mark, on, off, goal, crossed, events>>

Reconcile ==
    /\ on = {} /\ off = {} /\ cache.skip = "no"
    /\ on' = ToMark(cache) /\ off' = ToClear(cache)
    /\ on' \cup off' # {}
    /\ UNCHANGED <<server, mark, cache, goal, crossed, events>>

\* patchMachineAnnotations, a merge patch without a resource version.  An error, or
\* a machine that is not there any more, ends the pass.
Patch(m) ==
    /\ m \in on \cup off
    /\ \/ /\ mark' = IF st[m] # "live" THEN mark ELSE
                       [mark EXCEPT ![m] = IF m \in on THEN {"delete", "managed"} ELSE {}]
          /\ on' = on \ {m} /\ off' = off \ {m}
          /\ UNCHANGED events
       \/ /\ IF st[m] = "live" THEN Event ELSE UNCHANGED events
          /\ on' = {} /\ off' = {}
          /\ UNCHANGED mark
    /\ UNCHANGED <<server, cache, goal, crossed>>

-----------------------------------------------------------------------------
(* Cluster API, the placement and the operators.                           *)

balancer == <<cache, on, off>>

\* Anything but the scale-down itself makes its goal void.
Disturbed == goal' = None

Scale ==
    /\ Event
    /\ replicas' \in (0..Cardinality(Machines)) \ {replicas}
    /\ Disturbed
    /\ UNCHANGED <<skip, st, site, mark, balancer, crossed>>

Add(m) ==
    /\ st[m] = "absent" /\ Cardinality(Live(Now)) < replicas /\ skip # "deleted"
    /\ \A n \in Machines : n < m => st[n] # "absent"
    /\ st' = [st EXCEPT ![m] = "live"]
    /\ Disturbed
    /\ UNCHANGED <<replicas, skip, site, mark, balancer, crossed, events>>

Place(m) ==
    /\ st[m] = "live" /\ site[m] = None
    /\ \E s \in Sites : site' = [site EXCEPT ![m] = s]
    /\ Disturbed
    /\ UNCHANGED <<replicas, skip, st, mark, balancer, crossed, events>>

\* The MachineSet controller: machines with the annotation first, then any.
\* The goal is set by the first deletion of a scale-down, if the balancer had
\* caught up, and given up by the first for which it had not.
ScaleDown(m) ==
    LET live == Live(Now)
        trusted == Settled(Now) /\ Known(Now) = live /\ \A n \in live : mark[n] # {"delete"}
        k == Surplus(Now)
        apart == Apart(Count(Now))
        best == IF apart > k THEN apart - k ELSE 1
    IN /\ m \in live /\ k > 0
       /\ "delete" \in mark[m] \/ \A n \in live : "delete" \notin mark[n]
       /\ st' = [st EXCEPT ![m] = "gone"]
       /\ goal' = IF ~trusted THEN None ELSE IF goal = None THEN best ELSE goal
       /\ UNCHANGED <<replicas, skip, site, mark, balancer, crossed, events>>

\* A health check or a user; or the MachineSet is in deletion.
Vanish(m) ==
    /\ m \in Live(Now)
    /\ IF skip = "deleted" THEN UNCHANGED events ELSE Event
    /\ st' = [st EXCEPT ![m] = "gone"]
    /\ Disturbed
    /\ UNCHANGED <<replicas, skip, site, mark, balancer, crossed>>

OperatorMarks(m) ==
    /\ m \in Live(Now) /\ "delete" \notin mark[m]
    /\ Event
    /\ mark' = [mark EXCEPT ![m] = @ \cup {"delete"}]
    /\ crossed' = IF "managed" \in cache.mark[m] \/ m \in off THEN crossed \cup {m}
                                                              ELSE crossed \ {m}
    /\ Disturbed
    /\ UNCHANGED <<replicas, skip, st, site, balancer>>

Unpause ==
    /\ skip = "paused" /\ skip' = "no"
    /\ UNCHANGED <<replicas, st, site, mark, balancer, goal, crossed, events>>

DeleteSet ==
    /\ skip # "deleted" /\ skip' = "deleted"
    /\ Event
    /\ Disturbed
    /\ UNCHANGED <<replicas, st, site, mark, balancer, crossed>>

Next ==
    \/ SyncSet \/ SyncMachines \/ SyncNutanixMachines
    \/ Reconcile \/ Scale \/ Unpause \/ DeleteSet
    \/ \E m \in Machines :
          Patch(m) \/ Add(m) \/ Place(m) \/ ScaleDown(m) \/ Vanish(m) \/ OperatorMarks(m)

Spec == Init /\ [][Next]_vars

\* The informers deliver.  The work queue hands the MachineSet out again after an
\* error and on every change; a pass that began goes on.  Nothing else is owed.
FairSpec ==
    /\ Spec
    /\ WF_vars(SyncSet) /\ WF_vars(SyncMachines) /\ WF_vars(SyncNutanixMachines)
    /\ WF_vars(Reconcile) /\ WF_vars(\E m \in Machines : Patch(m))

-----------------------------------------------------------------------------
(* Properties.                                                             *)

\* A scale-down whose deletions found the annotations up to date leaves the
\* sites no further apart than one, or than it had to.  selectVictims.
ScaleDownBalances ==
    goal # None /\ Cardinality(Live(Now)) = replicas => Apart(Count(Now)) <= goal

\* Of what the pass sees, the victims are as many as asked for.  Without them the sites
\* are as close together as that many machines can bring them, and evening out empties
\* no site.  selectVictims.
VictimsFit ==
    LET victims == selectVictims(cache)
        has == Count(cache)
        k == HowMany(cache)
        left == [s \in Sites |->
                    Cardinality({m \in Known(cache) \ victims : cache.site[m] = s})]
    IN /\ Cardinality(victims) = k
       /\ Apart(left) <= IF Apart(has) > k THEN Apart(has) - k ELSE 1
       /\ Surplus(cache) = 0 => \A s \in Sites : has[s] > 0 => left[s] > 0

\* An annotation that only an operator has put on a machine is cleared by no pass,
\* unless he did so while the cache or the pass of the balancer was yet to see that
\* the machine was not its own any more.  applyDeleteAnnotations.
OperatorMarkStays ==
    [][\A m \in Machines \ crossed : mark[m] = {"delete"} => "delete" \in mark'[m]]_vars

\* Whatever machines came, went and failed, the annotations are in the end
\* those of the machines there are.  Reconcile, applyDeleteAnnotations.
MarksSettle == <>[](skip # "no" \/ Settled(Now))
=============================================================================
