--------------------------- MODULE ClusterTeardown --------------------------
(***************************************************************************)
(* NutanixClusterReconciler and NutanixVirtualHADomainReconciler in one    *)
(* manager, over the objects they share.  The passes of different objects  *)
(* interleave at every call; a crash of the manager ends all of them.      *)
(***************************************************************************)
EXTENDS NutanixCluster, NutanixVHADomain

vars == <<apiVars, worldVars, faults, clusterVars, domainVars>>

TypeOK == ObjectsTypeOK /\ ClusterTypeOK /\ DomainTypeOK

Init == ObjectsInit /\ ClusterInit /\ DomainInit

ClusterStep == ReconcileCluster /\ UNCHANGED domainVars
DomainStep(m) == ReconcileDomain(m) /\ UNCHANGED clusterVars
WorldStep == World /\ UNCHANGED <<clusterVars, domainVars>>

\* The manager stops; the next one lists the objects from the API server.
Crash ==
    /\ cpc # "idle" \/ \E m \in Metros : dpc[m] # "idle"
    /\ Fault
    /\ ClusterRest
    /\ dpc' = [m \in Metros |-> "idle"]
    /\ dmem' = [m \in Metros |-> NewVHA] /\ dbase' = [m \in Metros |-> NewVHA]
    /\ di' = [m \in Metros |-> 1] /\ draft' = [m \in Metros |-> NoResources]
    /\ listed' = [domains |-> Domains, machines |-> mach]
    /\ UNCHANGED <<nc, refs, vha, worldVars>>

Next ==
    \/ ClusterStep
    \/ \E m \in Metros : DomainStep(m)
    \/ WorldStep
    \/ Crash

Spec == Init /\ [][Next]_vars

\* Work the queues hand out is done, caches sync, the garbage collector runs, and in
\* a Cluster being deleted Cluster API removes the machines, then the NutanixCluster.
\* Faults and the user who deletes the Cluster owe nothing.
Drain(step) == step /\ capiDel /\ UNCHANGED <<clusterVars, domainVars>>

Fairness ==
    /\ WF_vars(ClusterStep)
    /\ \A m \in Metros : WF_vars(DomainStep(m))
    /\ WF_vars(DomainListSyncs /\ UNCHANGED <<clusterVars, domainVars>>)
    /\ WF_vars(MachineListSyncs /\ UNCHANGED <<clusterVars, domainVars>>)
    /\ WF_vars(CollectGarbage /\ UNCHANGED <<clusterVars, domainVars>>)
    /\ WF_vars(Drain(MachineGone)) /\ WF_vars(Drain(DeleteNutanixCluster))

FairSpec == Spec /\ Fairness
-----------------------------------------------------------------------------
(* Properties.                                                             *)

\* While a vHADomain has something to clean up, its NutanixCluster and the
\* credentials for Prism Central are there (the comment in the vHADomain's
\* Reconcile, the wait in the cluster's reconcileDelete).  Only a list that lags, or a
\* deletion before the finalizer is stored, can take them away.
CredentialsOutliveDomains ==
    past \cap {"missedDomain", "hasty"} = {} =>
        \A m \in Metros : vha[m].live /\ vha[m].fin => nc.live /\ CredentialsLive

\* While the cluster has machines, their NutanixCluster and the credentials are
\* there to delete the VMs with (reconcileDelete waits for the machines).  What it does
\* not wait for is a machine that its list does not show yet, or one that appears after
\* the list.
MachinesKeepCluster ==
    mach /\ past \cap {"missedMachine", "late", "hasty"} = {} => nc.live /\ CredentialsLive

\* A vHADomain leaves the API server after the policy and the plans it records are
\* gone (deleteVHADomainPCResources before the finalizer is removed).
RecordedResourcesGone ==
    \A m \in Metros : ~vha[m].live =>
        \A k \in Kinds \ Cats : vha[m].spec[k] # None => res[m][k] # vha[m].spec[k]

\* The protection of the VMs is taken down by the controller only when no machine is
\* left, also if a vHADomain is deleted by mistake (the check of both owners).
ProtectedWhileUsed ==
    [][\A m \in Metros, k \in Kinds :
          dpc[m] = "cleanup" /\ res[m][k] # None /\ res'[m][k] = None => ~mach]_vars

\* A Cluster that is deleted comes to an end: the NutanixCluster goes away.
TeardownCompletes == capiDel ~> ~nc.live

\* The one thing that can keep a teardown from its end, and only after a fault: a pass
\* failed after it gave the credentials up, and every later pass starts by asking for
\* them.  The two controllers never wait for each other for ever.
Wedged == faults > 0 /\ cpc = "idle" /\ nc.fin /\ ~CredentialsLive

TeardownEndsOrWedges == capiDel ~> (~nc.live \/ Wedged)

\* A vHADomain comes to be ready with all it needs in Prism Central, also after
\* errors and after resources were removed there.
Backed(m) == vha[m].ready /\ Complete(vha[m].spec) /\ Intact(m, vha[m].spec)

DomainHeals ==
    \A m \in Metros :
        <>[](vha[m].live /\ ~vha[m].del /\ nc.live /\ ~nc.del => Backed(m))

\* The parts come and go in the order of TeardownOrder: machines and vHADomains need
\* the cluster and the credentials, and the credentials need the cluster.  They do so
\* until a pass misses something in its lists, a machine comes late, or a deletion is
\* faster than the first finalizer.
OrderParts == {"cluster", "machines"} \cup Refs \cup Metros

ASSUME PartsAssumption == Metros \cap ({"cluster", "machines"} \cup Refs) = {}

OrderNeeds(x) ==
    IF x = "cluster" THEN {} ELSE {"cluster"} \cup (IF x \in Refs THEN {} ELSE Refs)

InPlace(x) ==
    CASE x = "cluster"  -> nc.live
      [] x = "machines" -> mach
      [] x \in Refs     -> refs[x].live /\ refs[x].fin /\ refs[x].owner = "this"
      [] x \in Metros   -> vha[x].live /\ vha[x].fin

Ordered == INSTANCE TeardownOrder WITH
    Parts <- OrderParts,
    Needs <- [x \in OrderParts |-> OrderNeeds(x)],
    First <- {"cluster"},
    alive <- {x \in OrderParts : InPlace(x)},
    off   <- past \ {"checked"} # {}

KeepsOrder == Ordered!OrderSpec
=============================================================================
