-------------------------- MODULE NutanixVHADomain --------------------------
(***************************************************************************)
(* NutanixVirtualHADomainReconciler                                        *)
(* (controllers/nutanixvirtualhadomain_controller.go), one worker per      *)
(* vHADomain: it makes the categories, the protection policy and the       *)
(* recovery plans of a metro, records them in the spec when all of them    *)
(* are there, validates them while the domain is ready, and removes what   *)
(* the spec records when the cluster is being deleted.                     *)
(***************************************************************************)
EXTENDS ClusterObjects

VARIABLES
    dpc,   \* where the pass of each vHADomain stands
    dmem,  \* the copy the pass works on
    dbase, \* the copy the deferred patch computes its diff from
    di,    \* the resource being worked on, an index in Order or DeleteOrder
    draft  \* the resources ensured so far, not yet in the spec

domainVars == <<dpc, dmem, dbase, di, draft>>

\* deleteVHADomainPCResources: recovery plans, protection policy, categories.
DeleteOrder == <<"plan0", "plan1", "policy", "cat0", "cat1">>

DomainTypeOK ==
    /\ dpc \in [Metros -> {"idle", "resolve", "metro", "validate", "ensure", "cleanup",
                           "deferSpec", "deferStatus"}]
    /\ dmem \in [Metros -> VHA] /\ dbase \in [Metros -> VHA]
    /\ di \in [Metros -> 1..Len(Order)]
    /\ draft \in [Metros -> Resources]

DomainInit ==
    /\ dpc = [m \in Metros |-> "idle"]
    /\ dmem = [m \in Metros |-> NewVHA] /\ dbase = [m \in Metros |-> NewVHA]
    /\ di = [m \in Metros |-> 1]
    /\ draft = [m \in Metros |-> NoResources]

DGoto(m, l) == dpc' = [dpc EXCEPT ![m] = l]
DSet(m, o)  == dmem' = [dmem EXCEPT ![m] = o]

\* return from reconcileNormal or reconcileDelete: on to the deferred patch with o.
DReturn(m, o) ==
    /\ DGoto(m, "deferSpec") /\ DSet(m, o)
    /\ di' = [di EXCEPT ![m] = 1] /\ draft' = [draft EXCEPT ![m] = NoResources]
    /\ UNCHANGED dbase

\* An error in reconcileNormal: not ready, and the spec as it was read.
NotReady(m) == [dmem[m] EXCEPT !.ready = FALSE, !.spec = dbase[m].spec]
Failed(m) == IF dmem[m].del \/ dpc[m] = "resolve" THEN dmem[m] ELSE NotReady(m)

StartDomain(m) ==
    /\ dpc[m] = "idle"
    /\ vha[m].live
    /\ DGoto(m, "resolve") /\ DSet(m, vha[m])
    /\ dbase' = [dbase EXCEPT ![m] = vha[m]]
    /\ UNCHANGED <<di, draft, apiVars, worldVars, faults>>

DomainCallFails(m) ==
    /\ dpc[m] \in {"resolve", "metro", "validate", "ensure", "cleanup"}
    /\ dpc[m] = "metro" => dmem[m].fin
    /\ Fault
    /\ DReturn(m, Failed(m))
    /\ UNCHANGED <<apiVars, worldVars>>

\* Mutant: only the Cluster has to be in deletion.
Resolve_ClusterOnly(m) ==
    /\ dpc[m] = "resolve"
    /\ IF nc.live /\ CredentialsLive /\ (dmem[m].del => capiDel)
       THEN /\ DGoto(m, IF dmem[m].del THEN "cleanup" ELSE "metro")
            /\ UNCHANGED <<dmem, dbase, di, draft>>
       ELSE DReturn(m, dmem[m])
    /\ UNCHANGED <<apiVars, worldVars, faults>>

\* Mutant: a deletion waits until the NutanixCluster is gone.
Resolve_AfterOwner(m) ==
    /\ dpc[m] = "resolve"
    /\ IF CredentialsLive /\ (dmem[m].del => ~nc.live)
       THEN /\ DGoto(m, IF dmem[m].del THEN "cleanup" ELSE "metro")
            /\ UNCHANGED <<dmem, dbase, di, draft>>
       ELSE DReturn(m, dmem[m])
    /\ UNCHANGED <<apiVars, worldVars, faults>>

\* The Cluster, the NutanixCluster and the clients for Prism Central; a deletion is
\* refused until both owners are in deletion.
Resolve(m) ==
    /\ dpc[m] = "resolve"
    /\ IF nc.live /\ CredentialsLive /\ (dmem[m].del => capiDel /\ nc.del)
       THEN /\ DGoto(m, IF dmem[m].del THEN "cleanup" ELSE "metro")
            /\ UNCHANGED <<dmem, dbase, di, draft>>
       ELSE DReturn(m, dmem[m])
    /\ UNCHANGED <<apiVars, worldVars, faults>>
-----------------------------------------------------------------------------
(* reconcileNormal.                                                        *)

\* The finalizer is added in a pass of its own, before anything is made.
AddFinalizer(m) ==
    /\ dpc[m] = "metro" /\ ~dmem[m].fin
    /\ DReturn(m, [dmem[m] EXCEPT !.fin = TRUE])
    /\ UNCHANGED <<apiVars, worldVars, faults>>

\* The metro, its failure domains and their subnets are read.
FetchMetro(m) ==
    /\ dpc[m] = "metro" /\ dmem[m].fin
    /\ DGoto(m, IF dmem[m].ready THEN "validate" ELSE "ensure")
    /\ UNCHANGED <<dmem, dbase, di, draft, apiVars, worldVars, faults>>

\* Mutant: a resource that is missing does not take the readiness away.
Validate_Lenient(m) ==
    /\ dpc[m] = "validate"
    /\ DReturn(m, dmem[m])
    /\ UNCHANGED <<apiVars, worldVars, faults>>

\* What a spec records still exists.
Intact(m, spec) == \A k \in Kinds : spec[k] # None => res[m][k] = spec[k]
Complete(spec) == \A k \in Kinds : spec[k] # None

\* validateVHADomainPCResources, then the readiness of the spec as it stands.
Validate(m) ==
    /\ dpc[m] = "validate"
    /\ DReturn(m, IF Intact(m, dmem[m].spec)
                  THEN [dmem[m] EXCEPT !.ready = Complete(dmem[m].spec)]
                  ELSE NotReady(m))
    /\ UNCHANGED <<apiVars, worldVars, faults>>

\* A category is the same category when it is made again; the others get a UUID
\* that nobody refers to.
Identities(m, k) ==
    IF k \in Cats THEN {ByName}
    ELSE UUIDs \ {vha[m].spec[k], dmem[m].spec[k], dbase[m].spec[k]}

\* The next resource, or after the last one the spec and the readiness.
Ensured(m, u) ==
    LET d == [draft[m] EXCEPT ![Order[di[m]]] = u]
    IN IF di[m] < Len(Order)
       THEN /\ di' = [di EXCEPT ![m] = @ + 1] /\ draft' = [draft EXCEPT ![m] = d]
            /\ UNCHANGED <<dpc, dmem, dbase>>
       ELSE DReturn(m, [dmem[m] EXCEPT !.spec = d, !.ready = TRUE])

\* getOrCreate by name, one resource at a time.  The policy is created with its
\* categories, which are got or created once more.
Ensure(m) ==
    LET k == Order[di[m]]
        with(u) == [j \in Kinds |-> IF j = k THEN u
                                   ELSE IF k = "policy" /\ j \in Cats THEN ByName
                                   ELSE res[m][j]]
    IN /\ dpc[m] = "ensure"
       /\ \/ res[m][k] # None /\ Done /\ Ensured(m, res[m][k]) /\ UNCHANGED res
          \/ /\ res[m][k] = None
             /\ \E u \in Identities(m, k) :
                   /\ res' = [res EXCEPT ![m] = with(u)]
                   /\ \/ Done /\ Ensured(m, u)
                      \/ Lost /\ DReturn(m, NotReady(m))
       /\ UNCHANGED <<apiVars, tag, mach, capiDel, past>>
-----------------------------------------------------------------------------
(* reconcileDelete.                                                        *)

\* The next resource, or after the last one the finalizer.
Cleaned(m, last) ==
    IF di[m] < Len(DeleteOrder) /\ ~last
    THEN di' = [di EXCEPT ![m] = @ + 1] /\ UNCHANGED <<dpc, dmem, dbase, draft>>
    ELSE DReturn(m, [dmem[m] EXCEPT !.fin = FALSE])

\* Prism refuses to delete a category that a policy or a plan refers to.
InUse(m, k) == k \in Cats /\ \E j \in Kinds \ Cats : res[m][j] # None

\* Mutant: a recovery plan or policy that cannot be deleted is logged and forgotten.
Cleanup_Tolerant(m) ==
    LET k == DeleteOrder[di[m]]
    IN /\ dpc[m] = "cleanup"
       /\ \/ dmem[m].spec[k] # res[m][k] /\ Done /\ Cleaned(m, FALSE) /\ UNCHANGED res
          \/ /\ dmem[m].spec[k] = res[m][k]
             /\ \/ Done /\ res' = [res EXCEPT ![m][k] = None] /\ Cleaned(m, FALSE)
                \/ NotDone /\ UNCHANGED res /\ Cleaned(m, FALSE)
       /\ UNCHANGED <<apiVars, tag, mach, capiDel, past>>

\* What the spec records is deleted; what is gone already is skipped.  A category
\* that cannot be deleted ends the clean-up as if it had succeeded.
Cleanup(m) ==
    LET k == DeleteOrder[di[m]]
        gone == [res EXCEPT ![m][k] = None]
    IN /\ dpc[m] = "cleanup"
       /\ \/ /\ dmem[m].spec[k] = None \/ dmem[m].spec[k] # res[m][k]
             /\ Done /\ Cleaned(m, FALSE) /\ UNCHANGED res
          \/ /\ dmem[m].spec[k] # None /\ dmem[m].spec[k] = res[m][k]
             /\ \/ ~InUse(m, k) /\ Done /\ res' = gone /\ Cleaned(m, FALSE)
                \/ ~InUse(m, k) /\ Lost /\ res' = gone
                   /\ IF k \in Cats THEN Cleaned(m, TRUE) ELSE DReturn(m, dmem[m])
                \/ InUse(m, k) /\ Done /\ Cleaned(m, TRUE) /\ UNCHANGED res
                \/ k \in Cats /\ NotDone /\ Cleaned(m, TRUE) /\ UNCHANGED res
       /\ UNCHANGED <<apiVars, tag, mach, capiDel, past>>
-----------------------------------------------------------------------------
(* The deferred patch.                                                     *)

\* A merge patch of what the pass changed; the spec has no other writer.
DPatchSpec(m) ==
    LET o == vha[m]
        recorded == IF dbase[m].spec # dmem[m].spec THEN dmem[m].spec ELSE o.spec
        changed == [WithFin(o, IF dbase[m].fin # dmem[m].fin THEN dmem[m].fin ELSE o.fin)
                       EXCEPT !.spec = recorded]
    IN /\ dpc[m] = "deferSpec"
       /\ \/ Done /\ vha' = IF o.live THEN [vha EXCEPT ![m] = changed] ELSE vha
          \/ NotDone /\ UNCHANGED vha
       /\ DGoto(m, "deferStatus")
       /\ UNCHANGED <<dmem, dbase, di, draft, nc, refs, listed, worldVars>>

DPatchStatus(m) ==
    /\ dpc[m] = "deferStatus"
    /\ \/ /\ Done
          /\ vha' = IF vha[m].live /\ dbase[m].ready # dmem[m].ready
                    THEN [vha EXCEPT ![m].ready = dmem[m].ready] ELSE vha
       \/ NotDone /\ UNCHANGED vha
    /\ DGoto(m, "idle") /\ DSet(m, NewVHA)
    /\ dbase' = [dbase EXCEPT ![m] = NewVHA]
    /\ UNCHANGED <<di, draft, nc, refs, listed, worldVars>>

ReconcileDomain(m) ==
    \/ StartDomain(m) \/ DomainCallFails(m) \/ Resolve(m)
    \/ AddFinalizer(m) \/ FetchMetro(m) \/ Validate(m) \/ Ensure(m)
    \/ Cleanup(m)
    \/ DPatchSpec(m) \/ DPatchStatus(m)
=============================================================================
