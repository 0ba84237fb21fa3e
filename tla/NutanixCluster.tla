--------------------------- MODULE NutanixCluster ---------------------------
(***************************************************************************)
(* NutanixClusterReconciler (controllers/nutanixcluster_controller.go):    *)
(* one pass adopts the Secret and the ConfigMap, then either creates the   *)
(* vHADomains of the cluster or, in deletion, waits for the machines,      *)
(* deletes the vHADomains and waits for them, deletes the categories,      *)
(* gives up the Secret and the ConfigMap and drops the finalizer.          *)
(***************************************************************************)
EXTENDS ClusterObjects

VARIABLES
    cpc,   \* where the pass stands; "idle" between passes
    cmem,  \* the copy the pass works on
    cbase, \* the copy the deferred patch computes its diff from
    ci,    \* the reference being worked on, an index in RefSeq
    todo   \* metros left to create, or vHADomains left to delete

clusterVars == <<cpc, cmem, cbase, ci, todo>>

ClusterPCs == {"idle", "ref", "dispatch", "list", "create", "machines", "delete",
               "categories", "release", "remove", "deferCond", "deferSpec", "deferStatus"}

ClusterTypeOK ==
    /\ cpc \in ClusterPCs
    /\ cmem \in NC /\ cbase \in NC
    /\ ci \in 1..Len(RefSeq)
    /\ todo \in SUBSET Metros

ClusterRest == cpc' = "idle" /\ cmem' = NewNC /\ cbase' = NewNC /\ ci' = 1 /\ todo' = {}

ClusterInit == cpc = "idle" /\ cmem = NewNC /\ cbase = NewNC /\ ci = 1 /\ todo = {}

CGoto(l) == cpc' = l /\ UNCHANGED <<cmem, cbase, ci, todo>>

\* return, with an error or for a requeue: on to the deferred patch.
CReturn == CGoto("deferCond")

\* Mutant: steps past the last reference.
NextRef_NoEnd(again, l) ==
    /\ ci' = ci + 1 /\ cpc' = IF ci < Len(RefSeq) THEN again ELSE l
    /\ UNCHANGED <<cbase, todo>>

\* The next of the two references, or l after the last one.
NextRef(again, l) ==
    /\ IF ci < Len(RefSeq) THEN ci' = ci + 1 /\ cpc' = again ELSE ci' = 1 /\ cpc' = l
    /\ UNCHANGED <<cbase, todo>>

StartCluster ==
    /\ cpc = "idle"
    /\ nc.live
    /\ cpc' = "ref" /\ cmem' = nc /\ cbase' = nc /\ ci' = 1 /\ todo' = {}
    /\ UNCHANGED <<apiVars, worldVars, faults>>

\* A read fails.
ClusterCallFails ==
    /\ cpc \in {"ref", "dispatch", "list", "create", "machines", "delete", "release"}
    /\ Fault
    /\ CReturn
    /\ UNCHANGED <<apiVars, worldVars>>

\* reconcileCredentialRef, reconcileTrustBundleRef: in every pass, also in deletion.
ReconcileRef ==
    LET o == RefSeq[ci]
    IN /\ cpc = "ref"
       /\ IF ~refs[o].live \/ refs[o].owner = "other"
          THEN Done /\ CReturn /\ UNCHANGED refs
          ELSE /\ refs' = [refs EXCEPT ![o] = [WithFin(@, TRUE) EXCEPT !.owner = "this"]]
               /\ \/ Done /\ NextRef("ref", "dispatch") /\ UNCHANGED cmem
                  \/ Lost /\ CReturn
       /\ UNCHANGED <<nc, vha, listed, worldVars>>

\* The clients for Prism Central, then reconcileDelete or reconcileNormal, which
\* adds the finalizer to the in-memory object.
Dispatch ==
    /\ cpc = "dispatch"
    /\ CredentialsLive
    /\ cmem' = [cmem EXCEPT !.fin = @ \/ ~cmem.del]
    /\ cpc' = IF cmem.del THEN "machines" ELSE "list"
    /\ UNCHANGED <<apiVars, worldVars, faults, cbase, ci, todo>>
-----------------------------------------------------------------------------
(* reconcileNormal.                                                        *)

\* reconcileVHADomains lists what is there, then creates what is missing.
ListMissing ==
    /\ cpc = "list" /\ ~cmem.del
    /\ todo' = Metros \ listed.domains
    /\ cpc' = "create"
    /\ UNCHANGED <<apiVars, worldVars, faults, cmem, cbase, ci>>

\* Create answers AlreadyExists for a vHADomain the list did not show.
CreateDomain ==
    /\ cpc = "create"
    /\ \E m \in todo :
          \/ vha[m].live /\ Done /\ CReturn /\ UNCHANGED vha
          \/ /\ ~vha[m].live
             /\ vha' = [vha EXCEPT ![m] = NewVHA]
             /\ \/ Done /\ todo' = todo \ {m} /\ UNCHANGED <<cpc, cmem, cbase, ci>>
                \/ Lost /\ CReturn
    /\ UNCHANGED <<nc, refs, listed, worldVars>>

ClusterReady ==
    /\ cpc = "create" /\ todo = {}
    /\ cmem' = [cmem EXCEPT !.ready = TRUE]
    /\ cpc' = "deferCond"
    /\ UNCHANGED <<apiVars, worldVars, faults, cbase, ci, todo>>
-----------------------------------------------------------------------------
(* reconcileDelete.                                                        *)

\* Mutant: goes on while machines are left.
WaitForMachines_Ignores ==
    /\ cpc = "machines"
    /\ CGoto("list")
    /\ past' = past \cup {"checked"} \cup Noted("missedMachine", ~listed.machines /\ mach)
    /\ UNCHANGED <<apiVars, res, tag, mach, capiDel, faults>>

\* GetNutanixMachinesInCluster: requeue while any is left.
WaitForMachines ==
    /\ cpc = "machines"
    /\ CGoto(IF listed.machines THEN "deferCond" ELSE "list")
    /\ past' = past \cup Noted("checked", ~listed.machines)
                    \cup Noted("missedMachine", ~listed.machines /\ mach)
    /\ UNCHANGED <<apiVars, res, tag, mach, capiDel, faults>>

\* Mutant: deletes the vHADomains and goes on without waiting for them.
ListDomains_NoWait ==
    /\ cpc = "list" /\ cmem.del
    /\ todo' = {m \in listed.domains : ~vha[m].del}
    /\ cpc' = IF todo' = {} THEN "categories" ELSE "delete"
    /\ past' = past \cup Noted("missedDomain", listed.domains = {} /\ Domains # {})
    /\ UNCHANGED <<apiVars, res, tag, mach, capiDel, faults, cmem, cbase, ci>>

\* getOwnedVHADomains: while any vHADomain is left the pass only deletes and requeues.
ListDomains ==
    /\ cpc = "list" /\ cmem.del
    /\ todo' = {m \in listed.domains : ~vha[m].del}
    /\ cpc' = IF listed.domains = {} THEN "categories" ELSE "delete"
    /\ past' = past \cup Noted("missedDomain", listed.domains = {} /\ Domains # {})
    /\ UNCHANGED <<apiVars, res, tag, mach, capiDel, faults, cmem, cbase, ci>>

DeleteDomain ==
    /\ cpc = "delete"
    /\ \E m \in todo :
          /\ vha' = IF vha[m].live THEN [vha EXCEPT ![m] = Deleted(@)] ELSE vha
          /\ \/ Done /\ todo' = todo \ {m} /\ UNCHANGED <<cpc, cmem, cbase, ci>>
             \/ Lost /\ CReturn
    /\ UNCHANGED <<nc, refs, listed, worldVars>>

RequeueForDomains ==
    /\ cpc = "delete" /\ todo = {}
    /\ CReturn
    /\ UNCHANGED <<apiVars, worldVars, faults>>

\* reconcileCategoriesDelete, behind the condition the machines set.  A lookup that
\* fails is an error; a delete that fails is logged and forgotten.
DeleteCategories ==
    /\ cpc = "categories"
    /\ LET wanted == cmem.cat \in {"created", "deletionFailed"}
           end(cat, l) == /\ cmem' = [cmem EXCEPT !.cat = cat] /\ cpc' = l
                          /\ UNCHANGED <<cbase, ci, todo>>
       IN \/ ~wanted /\ Done /\ end("deleting", "release") /\ UNCHANGED tag
          \/ wanted /\ Done /\ end("deleting", "release") /\ tag' = FALSE
          \/ wanted /\ NotDone /\ end("deleting", "release") /\ UNCHANGED tag
          \/ wanted /\ NotDone /\ end("deletionFailed", "deferCond") /\ UNCHANGED tag
    /\ UNCHANGED <<apiVars, res, mach, capiDel, past>>

\* The end of reconcileDelete: the finalizer leaves the in-memory object.
Released(again) ==
    /\ NextRef(again, "deferCond")
    /\ cmem' = [cmem EXCEPT !.fin = (ci < Len(RefSeq)) /\ @]

\* Mutant: leaves the finalizer of the Secret where it is.
ReleaseRef_KeepsFinalizer ==
    /\ cpc = "release"
    /\ CGoto("remove") /\ Done
    /\ UNCHANGED <<apiVars, worldVars>>

\* reconcileCredentialRefDelete, reconcileTrustBundleRefDelete: an Update without
\* the finalizers ...
ReleaseRef ==
    LET o == RefSeq[ci]
    IN /\ cpc = "release"
       /\ IF ~refs[o].live
          THEN Done /\ Released("release") /\ UNCHANGED refs
          ELSE /\ refs' = [refs EXCEPT ![o] = WithFin(@, FALSE)]
               /\ \/ /\ Done
                     /\ IF refs[o].del THEN Released("release") ELSE CGoto("remove")
                  \/ Lost /\ CReturn
       /\ UNCHANGED <<nc, vha, listed, worldVars>>

\* ... then a Delete.
RemoveRef ==
    LET o == RefSeq[ci]
    IN /\ cpc = "remove"
       /\ \/ Done /\ refs' = [refs EXCEPT ![o] = IF @.live THEN Deleted(@) ELSE @]
             /\ Released("release")
          \/ Lost /\ refs' = [refs EXCEPT ![o] = IF @.live THEN Deleted(@) ELSE @]
             /\ CReturn
          \/ NotDone /\ UNCHANGED refs /\ CReturn
       /\ UNCHANGED <<nc, vha, listed, worldVars>>
-----------------------------------------------------------------------------
(* The deferred patch: conditions, spec and status, each of them tried.    *)

Patch(o, changed, patched) == IF o.live /\ changed THEN patched ELSE o

PatchCond ==
    /\ cpc = "deferCond"
    /\ \/ Done /\ nc' = Patch(nc, cbase.cat # cmem.cat, [nc EXCEPT !.cat = cmem.cat])
       \/ NotDone /\ UNCHANGED nc
    /\ CGoto("deferSpec")
    /\ UNCHANGED <<refs, vha, listed, worldVars>>

PatchSpec ==
    /\ cpc = "deferSpec"
    /\ \/ Done /\ nc' = Patch(nc, cbase.fin # cmem.fin, WithFin(nc, cmem.fin))
       \/ NotDone /\ UNCHANGED nc
    /\ CGoto("deferStatus")
    /\ UNCHANGED <<refs, vha, listed, worldVars>>

PatchStatus ==
    /\ cpc = "deferStatus"
    /\ \/ Done /\ nc' = Patch(nc, cbase.ready # cmem.ready, [nc EXCEPT !.ready = cmem.ready])
       \/ NotDone /\ UNCHANGED nc
    /\ ClusterRest
    /\ UNCHANGED <<refs, vha, listed, worldVars>>

ReconcileCluster ==
    \/ StartCluster \/ ClusterCallFails \/ ReconcileRef \/ Dispatch
    \/ ListMissing \/ CreateDomain \/ ClusterReady
    \/ WaitForMachines \/ ListDomains \/ DeleteDomain \/ RequeueForDomains
    \/ DeleteCategories \/ ReleaseRef \/ RemoveRef
    \/ PatchCond \/ PatchSpec \/ PatchStatus
=============================================================================
