--------------------------- MODULE MetroReferences ---------------------------
(***************************************************************************)
(* How NutanixFailureDomains, NutanixMetros and NutanixMetroSites are kept *)
(* while something uses them: the three reconcilers add a finalizer before *)
(* anything else and, once the object is in deletion, list the objects     *)
(* that may refer to it and drop the finalizer when none does.             *)
(*                                                                         *)
(* A pass reads everything (its own object included) through caches, and   *)
(* makes one write, at its end.  The caches lag object by object, so one   *)
(* action per pass has all the interleavings of its reads; a pass that     *)
(* fails half-way has changed nothing.                                     *)
(***************************************************************************)
EXTENDS Integers, FiniteSets

CONSTANTS
    FDs,          \* NutanixFailureDomains
    Metros,       \* NutanixMetros
    Sites,        \* NutanixMetroSites
    MDs,          \* MachineDeployments
    NCs,          \* NutanixClusters, with the control plane made for them
    Machines,     \* Machines
    FDsOf,        \* spec.failureDomains of each metro, immutable
    MetroOf,      \* spec.metroRef of each site, immutable
    PreferredOf,  \* spec.preferredFailureDomain of each site, immutable
    MaxLag        \* bound: objects the caches lag in when users change something

Objects == FDs \cup Metros \cup Sites
Owners  == MDs \cup NCs
Users   == Owners \cup Machines
Things  == Objects \cup Users

ASSUME KindsAssumption ==
    /\ FDs \cap Metros = {} /\ FDs \cap Sites = {} /\ Metros \cap Sites = {}
    /\ MDs \cap NCs = {} /\ MDs \cap Machines = {} /\ NCs \cap Machines = {}
    /\ Objects \cap Users = {}
ASSUME SpecAssumption ==
    /\ FDsOf \in [Metros -> SUBSET FDs]
    /\ MetroOf \in [Sites -> Metros]
    /\ PreferredOf \in [Sites -> FDs]

VARIABLES
    store,  \* every object in the API server
    shown,  \* what the caches show of it
    valid,  \* the metros and sites whose Validated condition is true
    since   \* history: for an object in deletion, who has used it ever since

vars == <<store, shown, valid, since>>

\* fin is of Objects; names of Users: what a failure domain string, or a list
\* of them, refers to.
Item == [st: {"absent", "live", "gone"}, del: BOOLEAN, fin: BOOLEAN, names: SUBSET Objects]
Absent == [st |-> "absent", del |-> FALSE, fin |-> FALSE, names |-> {}]

TypeOK ==
    /\ store \in [Things -> Item]
    /\ shown \in [Things -> Item]
    /\ valid \in SUBSET (Metros \cup Sites)
    /\ since \in [Objects -> SUBSET (Things \X Objects)]

Live(x) == store[x].st = "live"

-----------------------------------------------------------------------------
(* Who uses what, in a view of the objects.  An object in deletion uses    *)
(* nothing, but a site in deletion still leads to its metro.               *)

Names(view, x) ==
    CASE x \in Users  -> view[x].names
      [] x \in Metros -> FDsOf[x]
      [] x \in Sites  -> {MetroOf[x], PreferredOf[x]}
      [] OTHER        -> {}

LeadsTo(view, r, o) ==
    \/ r = o
    \/ r \in Sites /\ view[r].st = "live" /\ o = MetroOf[r]

Uses(view, x, r, o) ==
    /\ view[x].st = "live" /\ ~view[x].del
    /\ r \in Names(view, x)
    /\ LeadsTo(view, r, o)

\* Mutant: users in deletion are not skipped.
Counts_Deleting(x) == shown[x].st = "live"

\* What the reconcilers find with their lists.
Counts(x) == shown[x].st = "live" /\ ~shown[x].del

FDInUse(f) ==
    \/ \E x \in Machines : Counts(x) /\ f \in shown[x].names
    \/ \E m \in Metros : Counts(m) /\ f \in FDsOf[m]
    \/ \E s \in Sites : Counts(s) /\ f = PreferredOf[s]

\* Mutant: the failure domain of a site is not followed to its metro.
failureDomainReferencesMetro_Direct(r, m) == r = m

failureDomainReferencesMetro(r, m) ==
    \/ r = m
    \/ r \in Sites /\ shown[r].st = "live" /\ m = MetroOf[r]

MetroInUse(m) ==
    \/ \E x \in Users : Counts(x) /\ \E r \in shown[x].names : failureDomainReferencesMetro(r, m)
    \/ \E s \in Sites : Counts(s) /\ m = MetroOf[s]

SiteInUse(s) == \E x \in Users : Counts(x) /\ s \in shown[x].names

InUse(o) ==
    \/ o \in FDs /\ FDInUse(o)
    \/ o \in Metros /\ MetroInUse(o)
    \/ o \in Sites /\ SiteInUse(o)

-----------------------------------------------------------------------------
(* The reconcilers.  The deferred patch fails when the object is gone.     *)

PatchFinalizer(o, fin) ==
    /\ Live(o)
    /\ store' = [store EXCEPT ![o] = [@ EXCEPT
                   !.fin = fin, !.st = IF store[o].del /\ ~fin THEN "gone" ELSE "live"]]
    /\ valid' = {v \in valid : store'[v].st = "live"}
    /\ UNCHANGED shown

PatchValidated(o, ok) ==
    /\ Live(o)
    /\ valid' = IF ok THEN valid \cup {o} ELSE valid \ {o}
    /\ UNCHANGED <<store, shown>>

AddFinalizer(o) ==
    /\ shown[o].st = "live" /\ ~shown[o].fin
    /\ PatchFinalizer(o, TRUE)

\* An object in use gives an error, and the pass is made again.
reconcileDelete(o) ==
    /\ shown[o].st = "live" /\ shown[o].fin /\ shown[o].del
    /\ ~InUse(o)
    /\ PatchFinalizer(o, FALSE)

ValidMetro(m) == \A f \in FDsOf[m] : shown[f].st = "live"

\* Mutant: a metro in deletion does not count as found.
ValidSite_MetroNotDeleting(s) ==
    /\ Counts(MetroOf[s])
    /\ shown[PreferredOf[s]].st = "live"
    /\ PreferredOf[s] \in FDsOf[MetroOf[s]]

ValidSite(s) ==
    /\ shown[MetroOf[s]].st = "live"
    /\ shown[PreferredOf[s]].st = "live"
    /\ PreferredOf[s] \in FDsOf[MetroOf[s]]

\* Mutant: a failure domain gets the condition too.
reconcileNormal_Any(o) ==
    /\ shown[o].st = "live" /\ shown[o].fin /\ ~shown[o].del
    /\ PatchValidated(o, TRUE)

\* A failure domain has nothing to validate.
reconcileNormal(o) ==
    /\ shown[o].st = "live" /\ shown[o].fin /\ ~shown[o].del
    /\ \/ o \in Metros /\ PatchValidated(o, ValidMetro(o))
       \/ o \in Sites /\ PatchValidated(o, ValidSite(o))

Reconcile(o) == AddFinalizer(o) \/ reconcileDelete(o) \/ reconcileNormal(o)

-----------------------------------------------------------------------------
(* External: the API server, its watches, users and Cluster API.           *)

\* A watch brings the cache up to date with one object.
Sync(x) ==
    /\ shown' = [shown EXCEPT ![x] = store[x]]
    /\ UNCHANGED <<store, valid>>

\* Only a NutanixCluster may name several.
NamesFor(x) ==
    IF x \in NCs THEN SUBSET Objects \ {{}} ELSE {{o} : o \in Objects}

Create(x) ==
    /\ store[x].st = "absent"
    /\ \/ x \in Objects /\ store' = [store EXCEPT ![x] = [@ EXCEPT !.st = "live"]]
       \/ x \in Users /\ \E N \in NamesFor(x) :
             store' = [store EXCEPT ![x] = [@ EXCEPT !.st = "live", !.names = N]]
    /\ UNCHANGED <<shown, valid>>

\* A template or a list of control-plane failure domains is edited.
Retarget(w) ==
    /\ Live(w) /\ ~store[w].del
    /\ \E N \in NamesFor(w) : store' = [store EXCEPT ![w] = [@ EXCEPT !.names = N]]
    /\ UNCHANGED <<shown, valid>>

\* Without a finalizer an object goes at once; a user has one of its own.
Delete(x) ==
    /\ Live(x) /\ ~store[x].del
    /\ store' = [store EXCEPT ![x] = [@ EXCEPT
                   !.del = TRUE, !.st = IF x \in Objects /\ ~store[x].fin THEN "gone" ELSE "live"]]
    /\ UNCHANGED <<shown, valid>>

Leave(x) ==
    /\ Live(x) /\ store[x].del
    /\ store' = [store EXCEPT ![x] = [Absent EXCEPT !.st = "gone"]]
    /\ UNCHANGED <<shown, valid>>

-----------------------------------------------------------------------------
\* A use <<x, r>>, of x by its reference r, counts from the time the deletion is
\* asked for, if the caches know of it by then, and for as long as it lasts.
Settled(x, r, o) == Uses(shown, x, r, o) /\ (x \in Users => shown[x] = store[x])

Track ==
    since' = [o \in Objects |->
        {u \in Things \X Objects :
           /\ store'[o].del /\ store'[o].st = "live"
           /\ IF store[o].del THEN u \in since[o] ELSE Settled(u[1], u[2], o)
           /\ Uses(store', u[1], u[2], o)}]

Init ==
    /\ store = [x \in Things |-> Absent]
    /\ shown = store
    /\ valid = {}
    /\ since = [o \in Objects |-> {}]

Step ==
    \/ \E o \in Objects : Reconcile(o)
    \/ \E x \in Things : Sync(x)
    \/ /\ Cardinality({x \in Things : shown[x] # store[x]}) < MaxLag
       /\ \/ \E x \in Things : Create(x) \/ Delete(x)
          \/ \E w \in Owners : Retarget(w)
          \/ \E x \in Users : Leave(x)

Next == Step /\ Track

Spec == Init /\ [][Next]_vars

\* A pass that ends with an error is queued again, and a change of an object
\* queues it; a watch delivers what changed.
FairSpec ==
    /\ Spec
    /\ \A o \in Objects : WF_vars(Reconcile(o) /\ Track)
    /\ \A x \in Things : WF_vars(Sync(x) /\ Track)
-----------------------------------------------------------------------------
(* Properties.                                                             *)

Releases(o) == store[o].fin /\ ~store'[o].fin

\* What the code holds an object for: a failure domain is not held for the
\* MachineDeployments and NutanixClusters that name it.
Holds(x, o) == ~(o \in FDs /\ x \in Owners)

\* A NutanixFailureDomain, NutanixMetro or NutanixMetroSite does not lose its
\* finalizer while something that used it when its deletion was asked for,
\* directly or through a site, uses it still (the three reconcileDelete).
HeldWhileUsed ==
    [][\A o \in Objects : Releases(o) => ~\E u \in since[o] : Holds(u[1], o)]_vars

\* FailureDomainInUse: the failure domain is used by Machines and/or referenced
\* by cluster; so one that a cluster or its workers refer to is not released.
\* Not kept: only Machines, metros and sites are listed.
FDHeldForClusters ==
    [][\A f \in FDs : Releases(f) => ~\E u \in since[f] : u[1] \in Owners]_vars

InDeletion(o) == Live(o) /\ store[o].del

\* An object in deletion goes, unless something uses it (again): a deletion that
\* was refused is tried again when the last user has left.
UnusedIsReleased ==
    \A o \in Objects :
        InDeletion(o) ~> (~Live(o) \/ \E x \in Things, r \in Objects : Uses(store, x, r, o))

\* A metro, or a site whose failure domain is one of its metro's, is found valid
\* once the objects it refers to are there, in whatever order all were made.
ValidatedOrMissing ==
    /\ \A m \in Metros :
           (Live(m) /\ ~store[m].del)
              ~> (m \in valid \/ store[m].del \/ \E f \in FDsOf[m] : ~Live(f))
    /\ \A s \in Sites :
           (Live(s) /\ ~store[s].del /\ PreferredOf[s] \in FDsOf[MetroOf[s]])
              ~> (s \in valid \/ store[s].del \/ ~Live(MetroOf[s]) \/ ~Live(PreferredOf[s]))
=============================================================================
