----------------------- MODULE DefaultCategoriesProofs -----------------------
(***************************************************************************)
(* Proofs about DefaultCategories, for any clusters, machines, projects and *)
(* faults.                                                                 *)
(***************************************************************************)
EXTENDS DefaultCategories, FiniteSetTheorems, TLAPS

USE CategoriesAssumption DEF Scopes, Conds

LEMMA FaultType ==
    ASSUME TypeOK, Fault \/ Fine
    PROVE  faults' \in 0..MaxFaults
BY DEF TypeOK, Fault, Fine

LEMMA ScopeType ==
    /\ \A m \in Machines : MachineScope(m) \in Scopes /\ ClusterOf[m] \in Clusters
    /\ \A c \in Clusters : ClusterScope(c) \in Scopes
BY DEF MachineScope, ClusterScope

LEMMA CandidatesType ==
    ASSUME TypeOK, NEW p \in Scopes
    PROVE  Candidates(p) \subseteq cats /\ cats \subseteq Scopes
BY DEF Candidates, TypeOK

\* What setting the condition can do.
LEMMA SetType ==
    ASSUME TypeOK, NEW m \in Machines, NEW k \in Conds, SetCondition(m, k)
    PROVE  /\ cond' \in [Clusters -> Conds] /\ faults' \in 0..MaxFaults
           /\ cond' # cond => /\ ~Conflict(ClusterOf[m], saw[m], k)
                              /\ cond' = [cond EXCEPT ![ClusterOf[m]] = k]
<1>1. Fault \/ Fine
  BY DEF SetCondition
<1>2. cond' = cond \/ cond' = [cond EXCEPT ![ClusterOf[m]] = k]
  BY DEF SetCondition
<1> QED
  BY <1>1, <1>2, FaultType, ScopeType DEF TypeOK, SetCondition

-----------------------------------------------------------------------------
(* Types.                                                                  *)

LEMMA InitType == Init => TypeOK
BY DEF Init, TypeOK

LEMMA MachineType ==
    ASSUME TypeOK, NEW m \in Machines, MachinePass(m) \/ Leave(m)
    PROVE  TypeOK'
<1> USE DEF TypeOK
<1>1. MachineScope(m) \in Scopes /\ ClusterOf[m] \in Clusters
  BY ScopeType
<1>2. CASE Start(m)
  BY <1>1, <1>2 DEF Start, Goto, machineVars, clusterVars
<1>3. ASSUME NEW l \in {"idle", "markFailed"}, CallFails(m, l)
      PROVE  /\ faults' \in 0..MaxFaults /\ pc' \in [Machines -> {"idle", "list", "create", "mark", "markFailed", "refs", "vm"}]
             /\ failed' \in [Machines -> {"no", "policy", "call", "category"}]
             /\ UNCHANGED <<vm, stage, saw, ref, clusterVars, cond, marked, refused>>
  BY <1>3, FaultType DEF CallFails, Goto
<1>4. CASE List(m)
  BY <1>3, <1>4, FaultType DEF List, Goto, clusterVars, Fine
<1>5. CASE Create(m)
  <2>1. /\ cats' \in {cats, cats \cup {MachineScope(m)}}
        /\ made' \in {made, [made EXCEPT ![ClusterOf[m]] = @ \cup {MachineScope(m)}]}
    BY <1>5 DEF Create
  <2>2. cats' \subseteq Scopes /\ made' \in [Clusters -> SUBSET Scopes]
    BY <1>1, <2>1
  <2>3. CASE /\ Goto(m, "mark") /\ Fine
             /\ UNCHANGED <<vm, stage, failed, saw, ref, clusterVars, cond, marked, refused>>
    BY <2>2, <2>3 DEF Goto, clusterVars, Fine
  <2>4. CASE CallFails(m, "markFailed")
    BY <1>3, <2>2, <2>4 DEF clusterVars
  <2> QED
    BY <1>5, <2>3, <2>4 DEF Create
<1>6. CASE References(m)
  <2>1. \A q \in Candidates(MachineScope(m)) : q \in Scopes
    BY <1>1, CandidatesType
  <2>2. CASE CallFails(m, "idle")
    BY <1>3, <1>6, <2>2 DEF References, clusterVars
  <2>3. CASE Fine
    <3>1. /\ UNCHANGED <<cats, made, vm, stage, saw, clusterVars, cond, marked, refused>>
          /\ failed' \in {failed, [failed EXCEPT ![m] = "category"]}
          /\ \E l \in {"idle", "vm"} : Goto(m, l)
          /\ ref' = ref \/ \E q \in Candidates(MachineScope(m)) : ref' = [ref EXCEPT ![m] = q]
      BY <1>6, <2>3 DEF References, CallFails, Fine, Fault
    <3> QED
      BY <2>1, <2>3, <3>1 DEF Goto, clusterVars, Fine
  <2> QED
    BY <1>6, <2>2, <2>3 DEF References
<1>7. CASE MakeVM(m)
  BY <1>7 DEF MakeVM, Goto, clusterVars, Fine
<1>8. CASE markClusterCategoryCreated(m)
  <2>1. cond' \in [Clusters -> Conds] /\ faults' \in 0..MaxFaults
    BY <1>8, SetType DEF markClusterCategoryCreated, Fine
  <2>2. /\ \E l \in {"refs", "idle"} : Goto(m, l)
        /\ marked' \subseteq Clusters
        /\ UNCHANGED <<cats, vm, stage, failed, saw, ref, clusterVars, made, refused>>
    BY <1>8 DEF markClusterCategoryCreated
  <2> QED
    BY <2>1, <2>2 DEF Goto, clusterVars
<1>9. CASE markClusterCategoryCreationFailed(m)
  <2>1. cond' \in [Clusters -> Conds] /\ faults' \in 0..MaxFaults
    BY <1>9, SetType DEF markClusterCategoryCreationFailed, Fine
  <2>2. /\ \E l \in {"refs", "idle"} : Goto(m, l)
        /\ marked' \subseteq Clusters
        /\ UNCHANGED <<cats, vm, stage, failed, saw, ref, clusterVars, made, refused>>
    BY <1>9 DEF markClusterCategoryCreationFailed
  <2> QED
    BY <2>1, <2>2 DEF Goto, clusterVars
<1>10. CASE Leave(m)
  <2>1. faults' \in 0..MaxFaults
    BY <1>10, FaultType DEF Leave
  <2>2. /\ stage' = [stage EXCEPT ![m] = "gone"]
        /\ vm' \in {vm, [vm EXCEPT ![m] = "none"]}
        /\ UNCHANGED <<cats, failed, pc, saw, ref, clusterVars, cond, made, marked, refused>>
    BY <1>10 DEF Leave
  <2> QED
    BY <2>1, <2>2 DEF clusterVars
<1> QED
  BY <1>2, <1>4, <1>5, <1>6, <1>7, <1>8, <1>9, <1>10 DEF MachinePass

LEMMA ClusterType ==
    ASSUME TypeOK, NEW c \in Clusters, ClusterPass(c)
    PROVE  TypeOK'
<1> USE DEF TypeOK
<1>1. Fault \/ Fine
  BY DEF ClusterPass, StartCluster, ListForDelete, DeleteOne, FinishCluster
<1>0. ASSUME NEW l \in {"list", "delete", "finish"}, NEW v \in Conds, Verdict(c, l, v)
      PROVE  /\ cpc' \in [Clusters -> {"idle", "list", "delete", "finish"}]
             /\ verdict' \in [Clusters -> Conds]
  BY <1>0 DEF Verdict
<1>2. CASE StartCluster(c)
  <2>1. cond[c] \in Conds /\ csaw' \in [Clusters -> Conds]
    BY <1>2 DEF StartCluster
  <2>2. \E l \in {"list", "delete", "finish"}, v \in Conds : Verdict(c, l, v)
    BY <1>2, <2>1 DEF StartCluster
  <2>3. /\ cpc' \in [Clusters -> {"idle", "list", "delete", "finish"}]
        /\ verdict' \in [Clusters -> Conds]
    BY <1>0, <2>2
  <2>4. UNCHANGED <<cats, machineVars, cstage, pick, cond, made, marked, refused>>
    BY <1>2 DEF StartCluster
  <2> QED
    BY <1>1, <2>1, <2>3, <2>4, FaultType DEF machineVars
<1>3. CASE ListForDelete(c)
  <2>1. \A q \in Candidates(ClusterScope(c)) : q \in Scopes
    BY ScopeType, CandidatesType
  <2>2. verdict[c] \in Conds
    OBVIOUS
  <2>3. \E l \in {"list", "delete", "finish"}, v \in Conds : Verdict(c, l, v)
    BY <1>3, <2>2 DEF ListForDelete
  <2>4. /\ cpc' \in [Clusters -> {"idle", "list", "delete", "finish"}]
        /\ verdict' \in [Clusters -> Conds]
    BY <1>0, <2>3
  <2>5. pick' \in [Clusters -> Scopes]
    BY <1>3, <2>1 DEF ListForDelete
  <2>6. UNCHANGED <<cats, machineVars, cstage, csaw, cond, made, marked, refused>>
    BY <1>3 DEF ListForDelete
  <2> QED
    BY <1>1, <2>4, <2>5, <2>6, FaultType DEF machineVars
<1>4. CASE DeleteOne(c)
  <2>1. /\ cats' \subseteq cats /\ refused' \subseteq Clusters
        /\ made' = [d \in Clusters |-> made[d] \cap cats']
    BY <1>4 DEF DeleteOne
  <2>2. \E v \in Conds : Verdict(c, "finish", v)
    BY <1>4 DEF DeleteOne
  <2> QED
    BY <1>1, <1>4, <2>1, <2>2, FaultType DEF DeleteOne, Verdict, machineVars
<1>5. CASE FinishCluster(c)
  <2>1. cond' \in {cond, [cond EXCEPT ![c] = verdict[c]]} /\ cstage' \in {cstage, [cstage EXCEPT ![c] = "gone"]}
    BY <1>5 DEF FinishCluster
  <2> QED
    BY <1>1, <1>5, <2>1, FaultType DEF FinishCluster, machineVars
<1> QED
  BY <1>2, <1>3, <1>4, <1>5 DEF ClusterPass

LEMMA NextType ==
    ASSUME TypeOK, [Next]_vars
    PROVE  TypeOK'
<1>1. CASE Crash
  BY <1>1, FaultType DEF Crash, TypeOK
<1>2. CASE UNCHANGED vars
  BY <1>2 DEF vars, machineVars, clusterVars, TypeOK
<1> QED
  BY <1>1, <1>2, MachineType, ClusterType DEF Next

\* The type invariant, for any clusters, machines, projects and faults.
THEOREM TypeCorrect == Spec => []TypeOK
  BY InitType, NextType, PTL DEF Spec

-----------------------------------------------------------------------------
(* The invariant behind MarkedIsCollected.                                 *)

Gone(c) == \A m \in MachinesOf(c) : stage[m] = "gone"

\* A machine with a pass is there, and in the project of its cluster's policy.
PassInv ==
    \A m \in Machines : pc[m] # "idle" =>
        stage[m] = "there" /\ Project[m] = Policy[ClusterOf[m]]

\* What the machines of a cluster made is in that project.
OwnInv == \A c \in Clusters : made[c] \subseteq cats \cap {Policy[c]}

\* Nothing of the deletion of a cluster happens before its machines are gone.
GoneInv ==
    \A c \in Clusters :
        /\ cpc[c] # "idle" \/ cstage[c] = "gone" \/ cond[c] \in {"deletionFailed", "deleting"}
              => Gone(c)
        /\ cstage[c] = "gone" => cpc[c] = "idle"

\* What a pass of the cluster carries.
CarryInv ==
    \A c \in Clusters :
        /\ cpc[c] # "idle" => csaw[c] = cond[c] /\ verdict[c] \in {"true", "deletionFailed", "deleting"}
        /\ cpc[c] \in {"list", "delete"} => verdict[c] # "deleting"
        /\ cpc[c] = "delete" /\ made[c] # {} => pick[c] = Policy[c]

\* A cluster whose condition is, or is about to be, True.
TrueInv ==
    \A c \in Clusters :
        cond[c] = "true" \/ (cpc[c] # "idle" /\ verdict[c] = "true") => c \in marked

\* One that was marked stays so until its categories are deleted.
Cleared(c) == made[c] = {}

MarkInv ==
    \A c \in marked \ refused :
        /\ cond[c] \in {"true", "deletionFailed"} \/ (cond[c] = "deleting" /\ Cleared(c))
        /\ cstage[c] = "gone" => Cleared(c)
        /\ cpc[c] = "finish" /\ verdict[c] = "deleting" => Cleared(c)

CollectInv == PassInv /\ OwnInv /\ GoneInv /\ CarryInv /\ TrueInv /\ MarkInv

LEMMA InitCollect == Init => CollectInv
BY DEF Init, CollectInv, PassInv, OwnInv, GoneInv, CarryInv, TrueInv, MarkInv, Conds

\* With a machine of it there the cluster has no pass, is there, and its deletion
\* has left no trace in the condition.
LEMMA ThereType ==
    ASSUME TypeOK, GoneInv, NEW m \in Machines, stage[m] = "there"
    PROVE  /\ ClusterOf[m] \in Clusters
           /\ cpc[ClusterOf[m]] = "idle" /\ cstage[ClusterOf[m]] = "there"
           /\ cond[ClusterOf[m]] \notin {"deletionFailed", "deleting"}
BY ScopeType DEF GoneInv, Gone, MachinesOf, TypeOK

\* A machine's pass scopes a category as the deletion of its cluster does.
LEMMA MachinePassInv ==
    ASSUME Scoped, TypeOK, PassInv, NEW m \in Machines, MachinePass(m) \/ Leave(m)
    PROVE  /\ PassInv'
           /\ \A n \in Machines : stage[n] = "gone" => stage'[n] = "gone"
<1> USE DEF TypeOK
<1>1. CASE Start(m)
  <2>1. PolicyAllows(m) => Project[m] = Policy[ClusterOf[m]]
    BY ScopeType DEF PolicyAllows, Scoped
  <2> QED
    BY <1>1, <2>1 DEF Start, Goto, PassInv
<1>2. CASE Leave(m)
  BY <1>2 DEF Leave, PassInv
<1>3. ASSUME pc[m] # "idle", stage' = stage,
             \E l \in {"idle", "list", "create", "mark", "markFailed", "refs", "vm"} : Goto(m, l)
      PROVE  PassInv'
  BY <1>3 DEF Goto, PassInv
<1>4. CASE \/ List(m) \/ Create(m) \/ References(m) \/ MakeVM(m)
           \/ markClusterCategoryCreated(m) \/ markClusterCategoryCreationFailed(m)
  <2>1. /\ pc[m] # "idle" /\ stage' = stage
        /\ \E l \in {"idle", "list", "create", "mark", "markFailed", "refs", "vm"} : Goto(m, l)
    BY <1>4 DEF List, Create, CallFails, References, MakeVM,
         markClusterCategoryCreated, markClusterCategoryCreationFailed
  <2> QED
    BY <1>3, <2>1
<1> QED
  BY <1>1, <1>2, <1>4 DEF MachinePass

\* What it makes is the cluster's.
LEMMA MachineOwn ==
    ASSUME Scoped, TypeOK, PassInv, OwnInv, NEW m \in Machines, MachinePass(m) \/ Leave(m)
    PROVE  /\ OwnInv'
           /\ \A c \in Clusters : made'[c] # made[c] => c = ClusterOf[m] /\ stage[m] = "there"
<1> USE DEF TypeOK
<1>1. CASE Create(m)
  <2>1. /\ stage[m] = "there" /\ Project[m] = Policy[ClusterOf[m]]
        /\ MachineScope(m) = Project[m]
    BY <1>1 DEF Create, PassInv, MachineScope, Scoped
  <2>2. /\ cats \subseteq cats'
        /\ \/ made' = made
           \/ /\ made' = [made EXCEPT ![ClusterOf[m]] = @ \cup {MachineScope(m)}]
              /\ MachineScope(m) \in cats'
    BY <1>1 DEF Create
  <2> QED
    BY <2>1, <2>2, ScopeType DEF OwnInv
<1>2. CASE UNCHANGED <<cats, made>>
  BY <1>2 DEF OwnInv
<1>3. Create(m) \/ UNCHANGED <<cats, made>>
  BY DEF MachinePass, Leave, Start, List, References, MakeVM,
         markClusterCategoryCreated, markClusterCategoryCreationFailed
<1> QED
  BY <1>1, <1>2, <1>3

\* What it may do to the condition: True, or, from one that is not True,
\* CreationFailed; the patch that would undo another's True conflicts.
LEMMA MachineMarks ==
    ASSUME TypeOK, TrueInv, NEW m \in Machines, MachinePass(m) \/ Leave(m)
    PROVE  /\ \A c \in Clusters : cond'[c] # cond[c] =>
                 /\ c = ClusterOf[m] /\ pc[m] # "idle"
                 /\ cond'[c] = "true" \/ (cond[c] # "true" /\ cond'[c] = "creationFailed")
           /\ \A c \in Clusters : c \in marked' <=> c \in marked \/ cond'[c] = "true"
<1> USE DEF TypeOK
<1>1. CASE markClusterCategoryCreated(m)
  <2>1. cond' = cond \/ cond' = [cond EXCEPT ![ClusterOf[m]] = "true"]
    BY <1>1 DEF markClusterCategoryCreated, SetCondition
  <2> QED
    BY <1>1, <2>1 DEF markClusterCategoryCreated
<1>2. CASE markClusterCategoryCreationFailed(m)
  <2>1. \/ cond' = cond
        \/ /\ saw[m] # "true" /\ ~Conflict(ClusterOf[m], saw[m], "creationFailed")
           /\ cond' = [cond EXCEPT ![ClusterOf[m]] = "creationFailed"]
    BY <1>2 DEF markClusterCategoryCreationFailed, SetCondition
  <2>2. marked' = marked /\ pc[m] # "idle"
    BY <1>2 DEF markClusterCategoryCreationFailed
  <2> QED
    BY <2>1, <2>2 DEF Conflict, TrueInv
<1>3. CASE UNCHANGED <<cond, marked>>
  BY <1>3 DEF TrueInv
<1>4. \/ markClusterCategoryCreated(m) \/ markClusterCategoryCreationFailed(m)
      \/ UNCHANGED <<cond, marked>>
  BY DEF MachinePass, Leave, Start, List, Create, CallFails, References, MakeVM
<1> QED
  BY <1>1, <1>2, <1>3, <1>4

LEMMA MachineCollect ==
    ASSUME Scoped, TypeOK, CollectInv, NEW m \in Machines, MachinePass(m) \/ Leave(m)
    PROVE  CollectInv'
<1> USE DEF TypeOK
<1> DEFINE d == ClusterOf[m]
<1>1. UNCHANGED <<cstage, cpc, csaw, pick, verdict, refused>>
  BY DEF MachinePass, Leave, Start, List, Create, CallFails, References, MakeVM,
         markClusterCategoryCreated, markClusterCategoryCreationFailed, clusterVars
<1>2. /\ PassInv' /\ OwnInv'
      /\ \A n \in Machines : stage[n] = "gone" => stage'[n] = "gone"
  BY MachinePassInv, MachineOwn DEF CollectInv
<1>3. \A c \in Clusters : cond'[c] # cond[c] \/ made'[c] # made[c] =>
         c = d /\ stage[m] = "there"
  BY MachineMarks, MachineOwn DEF CollectInv, PassInv
<1>4. \A c \in Clusters : cond'[c] # cond[c] \/ made'[c] # made[c] =>
         /\ cpc[c] = "idle" /\ cstage[c] = "there"
         /\ cond[c] \notin {"deletionFailed", "deleting"}
  BY <1>3, ThereType DEF CollectInv
<1>5. GoneInv'
  <2>1. \A c \in Clusters : Gone(c) => Gone(c)'
    BY <1>2 DEF Gone, MachinesOf
  <2>2. \A c \in Clusters : cond'[c] = cond[c] \/ cond'[c] \in {"true", "creationFailed"}
    BY MachineMarks DEF CollectInv
  <2> QED
    BY <1>1, <2>1, <2>2 DEF GoneInv, CollectInv
<1>6. CarryInv'
  BY <1>1, <1>4 DEF CarryInv, CollectInv
<1>7. TrueInv'
  BY <1>1, MachineMarks DEF TrueInv, CollectInv
<1>8. MarkInv'
  <2> SUFFICES ASSUME NEW c \in (marked \ refused)'
               PROVE  /\ \/ cond'[c] \in {"true", "deletionFailed"}
                         \/ cond'[c] = "deleting" /\ made'[c] = {}
                      /\ cstage'[c] = "gone" => made'[c] = {}
                      /\ cpc'[c] = "finish" /\ verdict'[c] = "deleting" => made'[c] = {}
    BY DEF MarkInv, Cleared
  <2>1. c \in Clusters /\ c \notin refused
    BY <1>1, NextType, MachineType
  <2>2. CASE cond'[c] = cond[c] /\ made'[c] = made[c]
    <3>1. c \in marked
      BY <2>1, <2>2, MachineMarks DEF CollectInv, TrueInv
    <3> QED
      BY <1>1, <2>1, <2>2, <3>1 DEF CollectInv, MarkInv, Cleared
  <2>3. CASE cond'[c] # cond[c] \/ made'[c] # made[c]
    <3>1. cond'[c] = "true"
      <4>1. c \in marked => cond[c] = "true"
        BY <1>4, <2>1, <2>3 DEF CollectInv, MarkInv
      <4> QED
        BY <2>1, <4>1, MachineMarks DEF CollectInv
    <3> QED
      BY <1>1, <1>4, <2>1, <2>3, <3>1
  <2> QED
    BY <2>2, <2>3
<1> QED
  BY <1>2, <1>5, <1>6, <1>7, <1>8 DEF CollectInv

LEMMA ClusterCollect ==
    ASSUME Scoped, TypeOK, CollectInv, NEW c \in Clusters, ClusterPass(c)
    PROVE  CollectInv'
<1> USE DEF TypeOK
<1>1. /\ UNCHANGED <<stage, pc, marked>> /\ PassInv'
      /\ \A e \in Clusters : Gone(e)' <=> Gone(e)
  <2>1. UNCHANGED <<stage, pc, marked>>
    BY DEF ClusterPass, StartCluster, ListForDelete, DeleteOne, FinishCluster, machineVars
  <2> QED
    BY <2>1 DEF PassInv, CollectInv, Gone, MachinesOf
<1>2. /\ \A e \in Clusters \ {c} :
            /\ cpc'[e] = cpc[e] /\ verdict'[e] = verdict[e] /\ csaw'[e] = csaw[e]
            /\ pick'[e] = pick[e] /\ cond'[e] = cond[e] /\ cstage'[e] = cstage[e]
            /\ e \in refused' <=> e \in refused
      /\ \A e \in Clusters : made'[e] \subseteq made[e]
      /\ refused \subseteq refused'
  <2>1. CASE StartCluster(c)
    BY <2>1 DEF StartCluster, Verdict
  <2>2. CASE ListForDelete(c)
    BY <2>2 DEF ListForDelete, Verdict
  <2>3. CASE DeleteOne(c)
    BY <2>3 DEF DeleteOne, Verdict
  <2>4. CASE FinishCluster(c)
    BY <2>4 DEF FinishCluster
  <2> QED
    BY <2>1, <2>2, <2>3, <2>4 DEF ClusterPass
<1>3. Gone(c)
  <2>1. cpc[c] # "idle" \/ Gone(c)
    BY DEF ClusterPass, StartCluster, ListForDelete, DeleteOne, FinishCluster, Gone
  <2> QED
    BY <2>1 DEF CollectInv, GoneInv
<1>4. OwnInv'
  <2>1. \/ cats' = cats
        \/ \A e \in Clusters : made'[e] \subseteq cats'
    BY DEF ClusterPass, StartCluster, ListForDelete, DeleteOne, FinishCluster
  <2> QED
    BY <1>2, <2>1 DEF OwnInv, CollectInv
<1>5. SUFFICES /\ cstage'[c] = "gone" => cpc'[c] = "idle"
               /\ cpc'[c] # "idle" => /\ csaw'[c] = cond'[c]
                                      /\ verdict'[c] \in {"true", "deletionFailed", "deleting"}
               /\ cpc'[c] \in {"list", "delete"} => verdict'[c] # "deleting"
               /\ cpc'[c] = "delete" /\ made'[c] # {} => pick'[c] = Policy[c]
               /\ cond'[c] = "true" \/ (cpc'[c] # "idle" /\ verdict'[c] = "true") => c \in marked
               /\ c \in marked \ refused' =>
                    /\ \/ cond'[c] \in {"true", "deletionFailed"}
                       \/ cond'[c] = "deleting" /\ made'[c] = {}
                    /\ cstage'[c] = "gone" => made'[c] = {}
                    /\ cpc'[c] = "finish" /\ verdict'[c] = "deleting" => made'[c] = {}
  <2>1. GoneInv'
    BY <1>1, <1>2, <1>3, <1>5 DEF GoneInv, CollectInv
  <2>2. CarryInv'
    BY <1>2, <1>5 DEF CarryInv, CollectInv
  <2>3. TrueInv'
    BY <1>1, <1>2, <1>5 DEF TrueInv, CollectInv
  <2>4. MarkInv'
    BY <1>1, <1>2, <1>5 DEF MarkInv, Cleared, CollectInv
  <2> QED
    BY <1>1, <1>4, <2>1, <2>2, <2>3, <2>4 DEF CollectInv
<1>6. /\ cpc[c] # "idle" => csaw[c] = cond[c] /\ verdict[c] \in {"true", "deletionFailed", "deleting"}
      /\ cpc[c] \in {"list", "delete"} => verdict[c] # "deleting"
      /\ cpc[c] = "delete" /\ made[c] # {} => pick[c] = Policy[c]
      /\ cond[c] = "true" \/ (cpc[c] # "idle" /\ verdict[c] = "true") => c \in marked
      /\ cpc[c] # "idle" => cstage[c] = "there"
      /\ made[c] \subseteq cats \cap {Policy[c]}
      /\ c \in marked \ refused =>
           /\ cond[c] \in {"true", "deletionFailed"} \/ (cond[c] = "deleting" /\ made[c] = {})
           /\ cstage[c] = "gone" => made[c] = {}
           /\ cpc[c] = "finish" /\ verdict[c] = "deleting" => made[c] = {}
  BY DEF CollectInv, CarryInv, TrueInv, GoneInv, OwnInv, MarkInv, Cleared
<1>7. CASE StartCluster(c)
  BY <1>6, <1>7 DEF StartCluster, Verdict, Gate
<1>8. CASE ListForDelete(c)
  <2>1. ClusterScope(c) = Policy[c] /\ Policy[c] \in Projects
    BY DEF ClusterScope, Scoped
  <2>2. made[c] # {} => Candidates(ClusterScope(c)) = {Policy[c]}
    BY <1>6, <2>1 DEF Candidates
  <2>3. UNCHANGED <<cond, csaw, cstage, made, marked, refused>> /\ cpc[c] = "list"
    BY <1>8 DEF ListForDelete
  <2>4. \/ made[c] = {} /\ cpc'[c] = "finish" /\ verdict'[c] = "deleting"
        \/ /\ cpc'[c] = "delete" /\ verdict'[c] = verdict[c]
           /\ pick'[c] \in Candidates(ClusterScope(c))
        \/ cpc'[c] = "finish" /\ verdict'[c] = "deletionFailed"
    <3>1. CASE Candidates(ClusterScope(c)) = {} /\ Verdict(c, "finish", "deleting")
      BY <2>2, <3>1 DEF Verdict
    <3>2. CASE /\ \E q \in Candidates(ClusterScope(c)) : pick' = [pick EXCEPT ![c] = q]
               /\ Verdict(c, "delete", verdict[c])
      BY <3>2 DEF Verdict
    <3>3. CASE Verdict(c, "finish", "deletionFailed")
      BY <3>3 DEF Verdict
    <3> QED
      BY <1>8, <3>1, <3>2, <3>3 DEF ListForDelete
  <2> QED
    BY <1>6, <2>2, <2>3, <2>4
<1>9. CASE DeleteOne(c)
  <2>1. /\ UNCHANGED <<cond, csaw, cstage, pick>> /\ cpc[c] = "delete"
        /\ cpc' = [cpc EXCEPT ![c] = "finish"]
        /\ \E v \in {"deleting", "deletionFailed"} : verdict' = [verdict EXCEPT ![c] = v]
    BY <1>9 DEF DeleteOne, Verdict
  <2>2. c \notin refused' => made'[c] = {}
    <3>1. c \notin refused' => cats' = cats \ {pick[c]}
      BY <1>9 DEF DeleteOne
    <3>2. made'[c] = made[c] \cap cats'
      BY <1>9 DEF DeleteOne
    <3> QED
      BY <1>6, <2>1, <3>1, <3>2
  <2> QED
    BY <1>2, <1>6, <2>1, <2>2
<1>10. CASE FinishCluster(c)
  <2>1. /\ UNCHANGED <<made, refused, csaw, pick, verdict>> /\ cpc[c] = "finish"
        /\ cpc' = [cpc EXCEPT ![c] = "idle"]
        /\ cond'[c] \in {cond[c], verdict[c]}
        /\ cstage'[c] = cstage[c] \/ (cstage'[c] = "gone" /\ verdict[c] = "deleting")
    BY <1>10 DEF FinishCluster
  <2> QED
    BY <1>6, <2>1
<1> QED
  BY <1>7, <1>8, <1>9, <1>10 DEF ClusterPass

LEMMA CollectStep ==
    ASSUME Scoped, TypeOK, CollectInv, [Next]_vars
    PROVE  CollectInv'
<1> USE DEF CollectInv, PassInv, OwnInv, GoneInv, Gone, MachinesOf, CarryInv, TrueInv,
            MarkInv, Cleared
<1>1. CASE Crash
  BY <1>1 DEF Crash, TypeOK
<1>2. CASE UNCHANGED vars
  BY <1>2 DEF vars, machineVars, clusterVars
<1> QED
  BY <1>1, <1>2, MachineCollect, ClusterCollect DEF Next

\* If projects are used and every cluster's policy names one, no category that
\* its machines made is left by a cluster whose condition was True and that had
\* no Delete fail: whatever else fails, is lost or stops.  reconcileCategoriesDelete.
THEOREM Collected == Scoped => (Spec => []MarkedIsCollected)
<1> SUFFICES ASSUME Scoped PROVE Spec => []MarkedIsCollected
  OBVIOUS
<1> DEFINE IInv == TypeOK /\ CollectInv
<1>1. Init => IInv
  BY InitType, InitCollect
<1>2. IInv /\ [Next]_vars => IInv'
  BY NextType, CollectStep
<1>3. IInv => MarkedIsCollected
  BY DEF CollectInv, MarkInv, Cleared, MarkedIsCollected, TypeOK
<1> QED
  BY <1>1, <1>2, <1>3, PTL DEF Spec

-----------------------------------------------------------------------------

\* Without any such condition: only the deletion of the cluster takes a True
\* back.  markClusterCategoryCreationFailed, and the conflict check of the patch.
THEOREM TrueIsKept == Spec => MarkedIsKept
<1>1. TypeOK /\ [Next]_vars =>
         [\A c \in Clusters : cond[c] = "true" /\ cond'[c] # "true" => cpc[c] = "finish"]_vars
  <2> SUFFICES ASSUME TypeOK, Next, NEW c \in Clusters, cond[c] = "true", cond'[c] # "true"
               PROVE  cpc[c] = "finish"
    OBVIOUS
  <2>1. ASSUME NEW m \in Machines, MachinePass(m) \/ Leave(m) PROVE FALSE
    <3>1. CASE markClusterCategoryCreated(m)
      BY <3>1 DEF markClusterCategoryCreated, SetCondition, TypeOK
    <3>2. CASE markClusterCategoryCreationFailed(m)
      BY <3>2 DEF markClusterCategoryCreationFailed, SetCondition, Conflict, TypeOK
    <3> QED
      BY <2>1, <3>1, <3>2 DEF MachinePass, Leave, Start, List, Create, CallFails, References, MakeVM
  <2>2. ASSUME NEW e \in Clusters, ClusterPass(e) PROVE cpc[c] = "finish"
    <3>1. CASE FinishCluster(e)
      BY <3>1 DEF FinishCluster, TypeOK
    <3> QED
      BY <2>2, <3>1 DEF ClusterPass, StartCluster, ListForDelete, DeleteOne
  <2>3. ~Crash
    BY DEF Crash
  <2> QED
    BY <2>1, <2>2, <2>3 DEF Next
<1> QED
  BY <1>1, TypeCorrect, PTL DEF Spec, MarkedIsKept
-----------------------------------------------------------------------------
(* Categories of one cluster are out of the reach of the others.           *)

\* A machine between two lookups still has a category to find, one between the
\* second and the VM has the one it found, and every VM has one of its own project
\* or shared with it.
UseInv ==
    /\ \A m \in Machines :
          /\ pc[m] \in {"mark", "refs"} => cats \cap Usable(Project[m]) # {}
          /\ pc[m] = "vm" => ref[m] \in cats \cap Usable(Project[m])
          /\ vm[m] # "none" => vm[m] \in Usable(Policy[ClusterOf[m]])
          /\ failed[m] # "category"
    /\ \A c \in Clusters : cpc[c] = "delete" => pick[c] \in Usable(Policy[c])

\* What getCategoryForProject finds.
LEMMA Finds ==
    ASSUME TypeOK, NEW p \in Projects
    PROVE  /\ Candidates(p) \subseteq cats \cap Usable(p)
           /\ cats \cap Usable(p) # {} => Candidates(p) # {}
BY DEF Candidates, Usable, TypeOK

LEMMA MachineUse ==
    ASSUME Scoped, TypeOK, PassInv, UseInv, NEW m \in Machines, MachinePass(m) \/ Leave(m)
    PROVE  UseInv'
<1> USE DEF TypeOK
<1> DEFINE p == Project[m]
           Kept == /\ pc'[m] \in {"mark", "refs"} => cats' \cap Usable(p) # {}
                   /\ pc'[m] = "vm" => ref'[m] \in cats' \cap Usable(p)
                   /\ vm'[m] # "none" => vm'[m] \in Usable(Policy[ClusterOf[m]])
                   /\ failed'[m] # "category"
<1>1. /\ cats \subseteq cats' /\ UNCHANGED <<cpc, pick>>
      /\ \A n \in Machines \ {m} :
            pc'[n] = pc[n] /\ ref'[n] = ref[n] /\ vm'[n] = vm[n] /\ failed'[n] = failed[n]
  <2>1. CASE Start(m)
    BY <2>1 DEF Start, Goto, clusterVars
  <2>2. CASE List(m)
    BY <2>2 DEF List, CallFails, Goto, clusterVars
  <2>3. CASE Create(m)
    BY <2>3 DEF Create, CallFails, Goto, clusterVars
  <2>4. CASE References(m)
    BY <2>4 DEF References, CallFails, Goto, clusterVars
  <2>5. CASE MakeVM(m)
    BY <2>5 DEF MakeVM, Goto, clusterVars
  <2>6. CASE markClusterCategoryCreated(m) \/ markClusterCategoryCreationFailed(m)
    BY <2>6 DEF markClusterCategoryCreated, markClusterCategoryCreationFailed, Goto, clusterVars
  <2>7. CASE Leave(m)
    BY <2>7 DEF Leave, clusterVars
  <2> QED
    BY <2>1, <2>2, <2>3, <2>4, <2>5, <2>6, <2>7 DEF MachinePass
<1>2. MachineScope(m) = p /\ p \in Projects
  BY DEF MachineScope, Scoped
<1>3. /\ Candidates(p) \subseteq cats \cap Usable(p)
      /\ cats \cap Usable(p) # {} => Candidates(p) # {}
  BY <1>2, Finds
<1>4. /\ pc[m] \in {"mark", "refs"} => cats \cap Usable(p) # {}
      /\ pc[m] = "vm" => ref[m] \in cats \cap Usable(p)
      /\ vm[m] # "none" => vm[m] \in Usable(Policy[ClusterOf[m]])
      /\ failed[m] # "category"
      /\ pc[m] # "idle" => p = Policy[ClusterOf[m]]
  BY DEF UseInv, PassInv
<1> HIDE DEF p
<1>5. ASSUME Start(m)
      PROVE  Kept
  BY <1>4, <1>5 DEF Start, Goto
<1>6. ASSUME NEW l \in {"idle", "markFailed"}, CallFails(m, l)
      PROVE  Kept
  BY <1>4, <1>6 DEF CallFails, Goto
<1>7. ASSUME List(m)
      PROVE  Kept
  <2>1. CASE Goto(m, IF Candidates(p) = {} THEN "create" ELSE "mark")
             /\ UNCHANGED <<cats, vm, ref, failed>>
    BY <1>3, <1>4, <2>1 DEF Goto
  <2> QED
    BY <1>2, <1>6, <1>7, <2>1 DEF List
<1>8. ASSUME Create(m)
      PROVE  Kept
  <2>1. CASE Goto(m, "mark") /\ cats' = cats \cup {p} /\ UNCHANGED <<vm, ref, failed>>
    <3>1. p \in Usable(p)
      BY <1>2 DEF Usable
    <3> QED
      BY <1>4, <2>1, <3>1 DEF Goto
  <2> QED
    BY <1>2, <1>6, <1>8, <2>1 DEF Create
<1>9. ASSUME References(m)
      PROVE  Kept
  <2>1. Candidates(p) # {} /\ pc[m] = "refs"
    BY <1>3, <1>4, <1>9 DEF References
  <2>2. CASE /\ \E q \in Candidates(p) : ref' = [ref EXCEPT ![m] = q]
             /\ Goto(m, "vm") /\ UNCHANGED <<cats, vm, failed>>
    BY <1>3, <1>4, <2>2 DEF Goto
  <2> QED
    BY <1>2, <1>6, <1>9, <2>1, <2>2 DEF References
<1>10. ASSUME MakeVM(m)
      PROVE  Kept
  BY <1>4, <1>10 DEF MakeVM, Goto
<1>11. ASSUME markClusterCategoryCreated(m) \/ markClusterCategoryCreationFailed(m)
      PROVE  Kept
  BY <1>4, <1>11 DEF markClusterCategoryCreated, markClusterCategoryCreationFailed, Goto
<1>12. ASSUME Leave(m)
      PROVE  Kept
  BY <1>4, <1>12 DEF Leave
<1>13. Kept
  BY <1>5, <1>7, <1>8, <1>9, <1>10, <1>11, <1>12 DEF MachinePass
<1>14. ASSUME NEW n \in Machines
       PROVE  /\ pc'[n] \in {"mark", "refs"} => cats' \cap Usable(Project[n]) # {}
              /\ pc'[n] = "vm" => ref'[n] \in cats' \cap Usable(Project[n])
              /\ vm'[n] # "none" => vm'[n] \in Usable(Policy[ClusterOf[n]])
              /\ failed'[n] # "category"
  <2>1. CASE n = m
    BY <1>13, <2>1 DEF p
  <2>2. CASE n # m
    BY <1>1, <2>2 DEF UseInv
  <2> QED
    BY <2>1, <2>2
<1>15. \A c \in Clusters : cpc'[c] = "delete" => pick'[c] \in Usable(Policy[c])
  BY <1>1 DEF UseInv
<1> QED
  BY <1>14, <1>15 DEF UseInv

LEMMA ClusterUse ==
    ASSUME Scoped, Separate, TypeOK, CollectInv, UseInv, NEW c \in Clusters, ClusterPass(c)
    PROVE  UseInv'
<1> USE DEF TypeOK
<1>1. UNCHANGED machineVars
  BY DEF ClusterPass, StartCluster, ListForDelete, DeleteOne, FinishCluster
<1>2. /\ \A d \in Clusters \ {c} : cpc'[d] = cpc[d] /\ pick'[d] = pick[d]
      /\ cats' = cats \/ (cats \ {pick[c]} \subseteq cats' /\ cpc[c] = "delete")
  <2>1. CASE StartCluster(c)
    BY <2>1 DEF StartCluster, Verdict
  <2>2. CASE ListForDelete(c)
    BY <2>2 DEF ListForDelete, Verdict
  <2>3. CASE DeleteOne(c)
    BY <2>3 DEF DeleteOne, Verdict
  <2>4. CASE FinishCluster(c)
    BY <2>4 DEF FinishCluster
  <2> QED
    BY <2>1, <2>2, <2>3, <2>4 DEF ClusterPass
<1>3. cpc'[c] = "delete" => pick'[c] \in Usable(Policy[c])
  <2>1. CASE ListForDelete(c)
    <3>1. ClusterScope(c) = Policy[c] /\ Policy[c] \in Projects
      BY DEF ClusterScope, Scoped
    <3>2. Candidates(ClusterScope(c)) \subseteq Usable(Policy[c])
      BY <3>1, Finds
    <3> QED
      BY <2>1, <3>2 DEF ListForDelete, Verdict
  <2>2. CASE StartCluster(c) \/ DeleteOne(c) \/ FinishCluster(c)
    BY <2>2 DEF StartCluster, DeleteOne, FinishCluster, Verdict
  <2> QED
    BY <2>1, <2>2 DEF ClusterPass
\* A machine with a pass belongs to another cluster, and uses nothing of this one's.
<1>4. ASSUME NEW m \in Machines, pc[m] # "idle", NEW q \in cats \cap Usable(Project[m])
      PROVE  q \in cats'
  <2>1. stage[m] = "there" /\ Project[m] = Policy[ClusterOf[m]] /\ ClusterOf[m] \in Clusters
    BY <1>4, ScopeType DEF CollectInv, PassInv
  <2>2. CASE cpc[c] = "delete"
    <3>1. ClusterOf[m] # c
      BY <2>1, <2>2, ThereType DEF CollectInv
    <3>2. pick[c] \in Usable(Policy[c])
      BY <2>2 DEF UseInv
    <3>3. q # pick[c]
      BY <2>1, <3>1, <3>2 DEF Separate
    <3> QED
      BY <1>2, <3>3
  <2> QED
    BY <1>2, <2>2
<1>5. \A m \in Machines :
          /\ pc'[m] \in {"mark", "refs"} => cats' \cap Usable(Project[m]) # {}
          /\ pc'[m] = "vm" => ref'[m] \in cats' \cap Usable(Project[m])
          /\ vm'[m] # "none" => vm'[m] \in Usable(Policy[ClusterOf[m]])
          /\ failed'[m] # "category"
  BY <1>1, <1>4 DEF machineVars, UseInv
<1> QED
  BY <1>2, <1>3, <1>5 DEF UseInv

LEMMA UseStep ==
    ASSUME Scoped, Separate, TypeOK, CollectInv, UseInv, [Next]_vars
    PROVE  UseInv'
<1>1. CASE Crash
  BY <1>1 DEF Crash, UseInv, TypeOK
<1>2. CASE UNCHANGED vars
  BY <1>2 DEF vars, machineVars, clusterVars, UseInv
<1> QED
  BY <1>1, <1>2, MachineUse, ClusterUse DEF Next, CollectInv

LEMMA InitUse == Init => UseInv
BY DEF Init, UseInv

\* If, besides, no category can be used by two clusters of one name, no machine ever
\* fails for good because a category it had found or made was deleted under it, whatever
\* fails or stops.  GetPrismReferencesOfCategoryIdentifiersForProject, getCategoryForProject.
THEOREM NoneDeletedUnderIt == Scoped /\ Separate => (Spec => []NoneFailsForGood)
<1> SUFFICES ASSUME Scoped, Separate PROVE Spec => []NoneFailsForGood
  OBVIOUS
<1> DEFINE IInv == TypeOK /\ CollectInv /\ UseInv
<1>1. Init => IInv
  BY InitType, InitCollect, InitUse
<1>2. IInv /\ [Next]_vars => IInv'
  BY NextType, CollectStep, UseStep
<1>3. IInv => NoneFailsForGood
  BY DEF UseInv, NoneFailsForGood
<1> QED
  BY <1>1, <1>2, <1>3, PTL DEF Spec

-----------------------------------------------------------------------------
(* The invariant behind CategoriesCollected.                               *)

\* As long as no call failed: what a machine made is known to the condition, or will
\* be by the next call of its pass, and no VM of a cluster is left by its machines.
CleanMachine(m) ==
    /\ pc[m] # "markFailed"
    /\ stage[m] = "gone" => vm[m] = "none"
    /\ pc[m] # "idle" => saw[m] \in {"unset", cond[ClusterOf[m]]}
CleanCluster(c) ==
    /\ cond[c] \in {"unset", "true", "deleting"}
    /\ made[c] # {} => cond[c] = "true" \/ \E m \in MachinesOf(c) : pc[m] = "mark"
    /\ cpc[c] = "finish" => verdict[c] = "deleting" /\ made[c] = {}
    /\ cstage[c] = "gone" => made[c] = {}
CleanInv ==
    faults = 0 =>
        /\ \A m \in Machines : CleanMachine(m)
        /\ \A c \in Clusters : CleanCluster(c)

LEMMA NoFault ==
    ASSUME TypeOK, Fault
    PROVE  faults' # 0
BY DEF TypeOK, Fault

\* A pass that found or made a category makes the condition True.
LEMMA Marks ==
    ASSUME TypeOK, CollectInv, CleanInv, NEW m \in Machines, faults = 0, faults' = 0,
           markClusterCategoryCreated(m)
    PROVE  cond' = [cond EXCEPT ![ClusterOf[m]] = "true"]
<1> USE DEF TypeOK
<1> DEFINE c == ClusterOf[m]
<1>1. c \in Clusters /\ cond[c] \in {"unset", "true"} /\ saw[m] \in {"unset", cond[c]}
  <2>1. stage[m] = "there" /\ pc[m] # "idle"
    BY DEF markClusterCategoryCreated, CollectInv, PassInv
  <2> QED
    BY <2>1, ThereType DEF CollectInv, CleanInv, CleanMachine, CleanCluster
<1>2. ~Fault
  BY NoFault
<1>3. CASE saw[m] = "true"
  BY <1>1, <1>3 DEF markClusterCategoryCreated
<1>4. CASE saw[m] # "true"
  <2>1. SetCondition(m, "true") /\ ~Conflict(c, saw[m], "true")
    BY <1>1, <1>4 DEF markClusterCategoryCreated, Conflict
  <2> QED
    BY <1>2, <2>1 DEF SetCondition
<1> QED
  BY <1>3, <1>4

LEMMA MachineClean ==
    ASSUME Scoped, TypeOK, CollectInv, CleanInv, faults = 0, faults' = 0,
           NEW m \in Machines, MachinePass(m) \/ Leave(m)
    PROVE  CleanInv'
<1> USE DEF TypeOK
<1> DEFINE d == ClusterOf[m]
<1>1. ~Fault /\ UNCHANGED <<cstage, cpc, verdict>> /\ d \in Clusters
  BY NoFault, ScopeType DEF MachinePass, Leave, Start, List, Create, CallFails, References,
     MakeVM, markClusterCategoryCreated, markClusterCategoryCreationFailed, clusterVars
<1>2. /\ \A n \in Machines : CleanMachine(n)
      /\ \A c \in Clusters : CleanCluster(c)
      /\ pc[m] # "idle" => stage[m] = "there"
  BY DEF CleanInv, CollectInv, PassInv
<1>3. stage[m] = "there" /\ cpc[d] = "idle" /\ cstage[d] = "there"
      /\ cond[d] \in {"unset", "true"}
  <2>1. stage[m] = "there"
    BY <1>2 DEF MachinePass, Leave, Start, List, Create, References,
     MakeVM, markClusterCategoryCreated, markClusterCategoryCreationFailed
  <2> QED
    BY <1>1, <1>2, <2>1, ThereType DEF CollectInv, CleanCluster
<1>4. \/ cond' = cond /\ pc[m] # "mark"
      \/ cond' = [cond EXCEPT ![d] = "true"] /\ made' = made
  <2>1. CASE markClusterCategoryCreated(m)
    BY <2>1, Marks DEF markClusterCategoryCreated
  <2>2. ~markClusterCategoryCreationFailed(m)
    BY <1>2 DEF CleanMachine, markClusterCategoryCreationFailed
  <2> QED
    BY <2>1, <2>2 DEF MachinePass, Leave, Start, List, Create, CallFails, References, MakeVM
<1>5. \/ made' = made
      \/ /\ pc'[m] = "mark"
         /\ \A c \in Clusters \ {d} : made'[c] = made[c]
  BY <1>1 DEF MachinePass, Leave, Start, List, Create, CallFails, References, MakeVM,
     markClusterCategoryCreated, markClusterCategoryCreationFailed, Goto
<1>6. \A n \in Machines \ {m} :
         pc'[n] = pc[n] /\ saw'[n] = saw[n] /\ vm'[n] = vm[n] /\ stage'[n] = stage[n]
  <2>1. CASE Start(m)
    BY <2>1 DEF Start, Goto
  <2>2. CASE List(m)
    BY <2>2 DEF List, CallFails, Goto
  <2>3. CASE Create(m)
    BY <2>3 DEF Create, CallFails, Goto
  <2>4. CASE References(m)
    BY <2>4 DEF References, CallFails, Goto
  <2>5. CASE MakeVM(m)
    BY <2>5 DEF MakeVM, Goto
  <2>6. CASE markClusterCategoryCreated(m) \/ markClusterCategoryCreationFailed(m)
    BY <2>6 DEF markClusterCategoryCreated, markClusterCategoryCreationFailed, Goto
  <2>7. CASE Leave(m)
    BY <2>7 DEF Leave
  <2> QED
    BY <2>1, <2>2, <2>3, <2>4, <2>5, <2>6, <2>7 DEF MachinePass
<1>7. /\ pc'[m] # "markFailed"
      /\ stage'[m] = "gone" => vm'[m] = "none"
      /\ pc'[m] # "idle" => saw'[m] = saw[m] \/ saw'[m] = cond[d]
      /\ pc'[m] # "idle" /\ pc[m] = "idle" => saw'[m] = cond[d]
  <2>1. CASE Start(m)
    BY <1>3, <2>1 DEF Start, Goto
  <2>2. CASE List(m)
    BY <1>1, <1>3, <2>2 DEF List, CallFails, Goto
  <2>3. CASE Create(m)
    BY <1>1, <1>3, <2>3 DEF Create, CallFails, Goto
  <2>4. CASE References(m)
    BY <1>1, <1>3, <2>4 DEF References, CallFails, Goto
  <2>5. CASE MakeVM(m)
    BY <1>3, <2>5 DEF MakeVM, Goto
  <2>6. CASE markClusterCategoryCreated(m) \/ markClusterCategoryCreationFailed(m)
    BY <1>3, <2>6 DEF markClusterCategoryCreated, markClusterCategoryCreationFailed, Goto
  <2>7. CASE Leave(m)
    BY <1>1, <2>7 DEF Leave
  <2> QED
    BY <2>1, <2>2, <2>3, <2>4, <2>5, <2>6, <2>7 DEF MachinePass
<1>8. \A c \in Clusters : cond'[c] = cond[c] \/ (c = d /\ cond'[c] = "true")
  BY <1>4
<1>9. ASSUME NEW n \in Machines PROVE CleanMachine(n)'
  <2>0. ClusterOf[n] \in Clusters
    BY ScopeType
  <2>1. CASE n # m
    <3>1. saw[n] = "unset" \/ saw[n] = cond[ClusterOf[n]] \/ pc[n] = "idle"
      BY <1>2 DEF CleanMachine
    <3> QED
      BY <1>2, <1>3, <1>6, <1>8, <2>0, <2>1, <3>1 DEF CleanMachine
  <2>2. CASE n = m
    <3>1. pc'[m] # "idle" => saw'[m] \in {"unset", cond[d]}
      BY <1>2, <1>7 DEF CleanMachine
    <3> QED
      BY <1>3, <1>7, <1>8, <2>0, <2>2, <3>1 DEF CleanMachine
  <2> QED
    BY <2>1, <2>2
<1>10. ASSUME NEW c \in Clusters PROVE CleanCluster(c)'
  <2>1. CASE c # d
    <3>1. /\ cond'[c] = cond[c] /\ made'[c] = made[c]
          /\ \A n \in MachinesOf(c) : pc'[n] = pc[n]
      BY <1>1, <1>5, <1>6, <1>8, <2>1 DEF MachinesOf
    <3>2. made'[c] # {} => cond'[c] = "true" \/ \E n \in MachinesOf(c) : pc'[n] = "mark"
      <4>1. made[c] # {} => cond[c] = "true" \/ \E n \in MachinesOf(c) : pc[n] = "mark"
        BY <1>2 DEF CleanCluster
      <4> QED
        BY <3>1, <4>1
    <3>3. /\ cond[c] \in {"unset", "true", "deleting"}
          /\ cpc[c] = "finish" => verdict[c] = "deleting" /\ made[c] = {}
          /\ cstage[c] = "gone" => made[c] = {}
      BY <1>2 DEF CleanCluster
    <3> QED
      BY <1>1, <3>1, <3>2, <3>3 DEF CleanCluster, MachinesOf
  <2>2. CASE c = d
    <3>1. m \in MachinesOf(d)
      BY DEF MachinesOf
    <3>2. cond'[d] \in {"unset", "true"}
      BY <1>3, <1>8, <1>1
    <3>3. made'[d] # {} => cond'[d] = "true" \/ \E n \in MachinesOf(d) : pc'[n] = "mark"
      <4>1. CASE cond' = [cond EXCEPT ![d] = "true"]
        BY <1>1, <4>1
      <4>2. CASE cond' = cond /\ pc[m] # "mark" /\ made' = made
        <5>1. made[d] # {} => cond[d] = "true" \/ \E n \in MachinesOf(d) : pc[n] = "mark"
          BY <1>1, <1>2 DEF CleanCluster
        <5>2. ASSUME NEW n \in MachinesOf(d), pc[n] = "mark" PROVE pc'[n] = "mark"
          BY <1>6, <4>2, <5>2 DEF MachinesOf
        <5> QED
          BY <4>2, <5>1, <5>2
      <4>3. CASE pc'[m] = "mark"
        BY <3>1, <4>3
      <4> QED
        BY <1>4, <1>5, <4>1, <4>2, <4>3
    <3> QED
      BY <1>1, <1>3, <2>2, <3>2, <3>3 DEF CleanCluster, MachinesOf
  <2> QED
    BY <2>1, <2>2
<1> QED
  BY <1>9, <1>10 DEF CleanInv

\* The category of a cluster without machines is not in use.
LEMMA NotInUse ==
    ASSUME Scoped, Separate, UseInv, CleanInv, faults = 0, NEW c \in Clusters, Gone(c)
    PROVE  ~InUse(Policy[c])
<1> SUFFICES ASSUME NEW m \in Machines, vm[m] = Policy[c]
             PROVE  FALSE
  BY DEF InUse
<1>1. Policy[c] \in Projects /\ vm[m] # "none" /\ Policy[c] \in Usable(Policy[c])
  BY DEF Scoped, Usable
<1>2. Policy[c] \in Usable(Policy[ClusterOf[m]]) /\ ClusterOf[m] \in Clusters
  BY <1>1, ScopeType DEF UseInv
<1>3. ClusterOf[m] = c
  BY <1>1, <1>2 DEF Separate
<1>4. stage[m] = "gone"
  BY <1>3 DEF Gone, MachinesOf
<1> QED
  BY <1>1, <1>4 DEF CleanInv, CleanMachine

LEMMA ClusterClean ==
    ASSUME Scoped, Separate, TypeOK, CollectInv, UseInv, CleanInv, faults = 0, faults' = 0,
           NEW c \in Clusters, ClusterPass(c)
    PROVE  CleanInv'
<1> USE DEF TypeOK
<1>1. ~Fault /\ UNCHANGED <<stage, pc, vm, saw>>
  BY NoFault DEF ClusterPass, StartCluster, ListForDelete, DeleteOne, FinishCluster, machineVars
<1>2. /\ \A n \in Machines : CleanMachine(n)
      /\ \A e \in Clusters : CleanCluster(e)
  BY DEF CleanInv
<1>3. Gone(c)
  <2>1. cpc[c] # "idle" \/ Gone(c)
    BY DEF ClusterPass, StartCluster, ListForDelete, DeleteOne, FinishCluster, Gone
  <2> QED
    BY <2>1 DEF CollectInv, GoneInv
<1>4. \A n \in MachinesOf(c) : pc[n] = "idle"
  BY <1>3 DEF Gone, CollectInv, PassInv, MachinesOf
<1>5. /\ \A e \in Clusters \ {c} :
            /\ cpc'[e] = cpc[e] /\ verdict'[e] = verdict[e]
            /\ cond'[e] = cond[e] /\ cstage'[e] = cstage[e]
      /\ \A e \in Clusters : made'[e] \subseteq made[e]
  <2>1. CASE StartCluster(c)
    BY <2>1 DEF StartCluster, Verdict
  <2>2. CASE ListForDelete(c)
    BY <2>2 DEF ListForDelete, Verdict
  <2>3. CASE DeleteOne(c)
    BY <2>3 DEF DeleteOne, Verdict
  <2>4. CASE FinishCluster(c)
    BY <2>4 DEF FinishCluster
  <2> QED
    BY <2>1, <2>2, <2>3, <2>4 DEF ClusterPass
<1>6. ASSUME NEW n \in Machines PROVE CleanMachine(n)'
  <2>1. ClusterOf[n] \in Clusters
    BY ScopeType
  <2>2. ClusterOf[n] = c => pc[n] = "idle"
    BY <1>4 DEF MachinesOf
  <2> QED
    BY <1>1, <1>2, <1>5, <2>1, <2>2 DEF CleanMachine
<1>7. ASSUME NEW e \in Clusters, e # c PROVE CleanCluster(e)'
  <2>1. made'[e] # {} => cond'[e] = "true" \/ \E n \in MachinesOf(e) : pc'[n] = "mark"
    <3>1. made[e] # {} => cond[e] = "true" \/ \E n \in MachinesOf(e) : pc[n] = "mark"
      BY <1>2 DEF CleanCluster
    <3> QED
      BY <1>1, <1>5, <1>7, <3>1
  <2>2. /\ cond[e] \in {"unset", "true", "deleting"}
        /\ cpc[e] = "finish" => verdict[e] = "deleting" /\ made[e] = {}
        /\ cstage[e] = "gone" => made[e] = {}
    BY <1>2 DEF CleanCluster
  <2> QED
    BY <1>5, <1>7, <2>1, <2>2 DEF CleanCluster, MachinesOf
<1>8. /\ cond[c] \in {"unset", "true", "deleting"}
      /\ made[c] # {} => cond[c] = "true"
      /\ cpc[c] = "finish" => verdict[c] = "deleting" /\ made[c] = {}
      /\ cstage[c] = "gone" => made[c] = {}
      /\ made[c] \subseteq cats \cap {Policy[c]}
      /\ cpc[c] = "delete" /\ made[c] # {} => pick[c] = Policy[c]
  <2>1. made[c] # {} => cond[c] = "true"
    <3>1. made[c] # {} => cond[c] = "true" \/ \E n \in MachinesOf(c) : pc[n] = "mark"
      BY <1>2 DEF CleanCluster
    <3> QED
      BY <1>4, <3>1
  <2> QED
    BY <1>2, <2>1 DEF CleanCluster, CollectInv, OwnInv, CarryInv
<1>9. SUFFICES /\ cond'[c] \in {"unset", "true", "deleting"}
               /\ made'[c] # {} => cond'[c] = "true"
               /\ cpc'[c] = "finish" => verdict'[c] = "deleting" /\ made'[c] = {}
               /\ cstage'[c] = "gone" => made'[c] = {}
  <2>1. CleanCluster(c)'
    BY <1>9 DEF CleanCluster
  <2> QED
    BY <1>6, <1>7, <2>1 DEF CleanInv
<1>10. CASE StartCluster(c)
  BY <1>1, <1>8, <1>10 DEF StartCluster, Verdict, Gate
<1>11. CASE ListForDelete(c)
  <2>1. ClusterScope(c) = Policy[c] /\ Policy[c] \in Projects
    BY DEF ClusterScope, Scoped
  <2>2. made[c] # {} => Candidates(ClusterScope(c)) # {}
    BY <1>8, <2>1 DEF Candidates
  <2>3. UNCHANGED <<cond, cstage, made>>
    BY <1>11 DEF ListForDelete
  <2>4. \/ made[c] = {} /\ verdict'[c] = "deleting"
        \/ cpc'[c] = "delete"
    BY <1>1, <1>11, <2>2 DEF ListForDelete, Verdict
  <2> QED
    BY <1>8, <2>3, <2>4
<1>12. CASE DeleteOne(c)
  <2>1. /\ UNCHANGED <<cond, cstage>> /\ cpc[c] = "delete" /\ verdict'[c] = "deleting"
        /\ cats' = IF pick[c] \in cats /\ ~InUse(pick[c]) THEN cats \ {pick[c]} ELSE cats
        /\ made'[c] = made[c] \cap cats'
    BY <1>1, <1>12 DEF DeleteOne, Verdict
  <2>2. ~InUse(Policy[c])
    BY <1>3, NotInUse
  <2>3. made'[c] = {}
    <3>1. CASE made[c] = {}
      BY <2>1, <3>1
    <3>2. CASE made[c] # {}
      <4>1. pick[c] = Policy[c] /\ Policy[c] \in cats
        BY <1>8, <2>1, <3>2
      <4>2. Policy[c] \notin cats'
        BY <2>1, <2>2, <4>1
      <4> QED
        BY <1>8, <2>1, <4>2
    <3> QED
      BY <3>1, <3>2
  <2> QED
    BY <1>8, <2>1, <2>3
<1>13. CASE FinishCluster(c)
  <2>1. /\ made' = made /\ cpc[c] = "finish" /\ cpc'[c] = "idle"
        /\ cond'[c] \in {cond[c], verdict[c]}
    BY <1>13 DEF FinishCluster
  <2> QED
    BY <1>8, <2>1
<1> QED
  BY <1>10, <1>11, <1>12, <1>13 DEF ClusterPass

LEMMA CleanStep ==
    ASSUME Scoped, Separate, TypeOK, CollectInv, UseInv, CleanInv, [Next]_vars
    PROVE  CleanInv'
<1>1. CASE UNCHANGED vars
  BY <1>1 DEF vars, machineVars, clusterVars, CleanInv, CleanMachine, CleanCluster, MachinesOf
<1>2. CASE Next /\ faults' = 0
  <2>1. faults = 0
    <3>1. Fault \/ Fine
      BY <1>2 DEF Next, MachinePass, Leave, Start, List, Create, CallFails, References,
         MakeVM, markClusterCategoryCreated, markClusterCategoryCreationFailed, SetCondition,
         ClusterPass, StartCluster, ListForDelete, DeleteOne, FinishCluster, Crash, Fine
    <3> QED
      BY <1>2, <3>1, NoFault DEF Fine
  <2>2. ~Crash
    BY <1>2, NoFault DEF Crash
  <2> QED
    BY <1>2, <2>1, <2>2, MachineClean, ClusterClean DEF Next
<1>3. CASE Next /\ faults' # 0
  BY <1>3 DEF CleanInv
<1> QED
  BY <1>1, <1>2, <1>3

\* Under the same conditions a cluster that is gone, and none of whose calls failed, leaves
\* none of the categories its machines made.  markClusterCategoryCreated,
\* reconcileCategoriesDelete.
THEOREM CollectedWithoutFaults == Scoped /\ Separate => (Spec => []CategoriesCollected)
<1> SUFFICES ASSUME Scoped, Separate PROVE Spec => []CategoriesCollected
  OBVIOUS
<1> DEFINE IInv == TypeOK /\ CollectInv /\ UseInv /\ CleanInv
<1>1. Init => IInv
  <2>1. Init => CleanInv
    BY DEF Init, CleanInv, CleanMachine, CleanCluster
  <2> QED
    BY <2>1, InitType, InitCollect, InitUse
<1>2. IInv /\ [Next]_vars => IInv'
  BY NextType, CollectStep, UseStep, CleanStep
<1>3. IInv => CategoriesCollected
  BY DEF CleanInv, CleanCluster, CategoriesCollected
<1> QED
  BY <1>1, <1>2, <1>3, PTL DEF Spec
-----------------------------------------------------------------------------
(* The order of the versions of Prism Central, for versions of any length.  *)
(* The first part that differs is a least number, and that every set of     *)
(* numbers has one is the choice of a smallest counterexample.              *)

HIDE CategoriesAssumption DEF Scopes, Conds

AnyVersions == Seq(Int)

\* Of the subsets of a finite set that belong to a family one is smallest.
LEMMA SmallestSet ==
    ASSUME NEW S, NEW F, F \subseteq SUBSET S, IsFiniteSet(S), F # {}
    PROVE  \E A \in F : \A B \in F : B \subseteq A => B = A
<1>1. IsWellFoundedOn(StrictSubsetOrdering(S), SUBSET S)
  BY FS_StrictSubsetOrderingWellFounded, FS_FiniteSubsetsOfFinite
<1>2. \E A \in F : \A B \in F : ~(<<B, A>> \in StrictSubsetOrdering(S))
  <2> F \subseteq SUBSET S
    OBVIOUS
  <2> QED BY <1>1, WFMin
<1> QED
  BY <1>2 DEF StrictSubsetOrdering

\* Hence a set of places in a version has a first one.
LEMMA FirstPlace ==
    ASSUME NEW n \in Nat, NEW T \in SUBSET (1..n), T # {}
    PROVE  \E x \in T : \A y \in T : x =< y
<1> DEFINE U == 0..n
           F == {0..k : k \in T}
<1>1. F \subseteq SUBSET U /\ F # {}
  <2>1. \A k \in T : k \in Nat /\ k =< n
    OBVIOUS
  <2>2. \A k \in T : 0..k \subseteq U
    BY <2>1
  <2> QED BY <2>2
<1>2. IsFiniteSet(U)
  BY FS_Interval
<1> HIDE DEF F, U
<1>3. PICK A \in F : \A B \in F : B \subseteq A => B = A
  BY <1>1, <1>2, SmallestSet
<1>4. PICK k \in T : A = 0..k
  BY <1>3 DEF F
<1>5. ASSUME NEW y \in T PROVE k =< y
  <2>1. CASE y < k
    <3>1. 0..y \in F /\ 0..y \subseteq A
      BY <1>4, <2>1 DEF F
    <3>2. 0..y = 0..k
      BY <1>3, <1>4, <3>1
    <3>3. k \in 0..y
      BY <3>2
    <3> QED BY <2>1, <3>3
  <2> QED BY <2>1
<1> QED BY <1>5

LEMMA Parts ==
    ASSUME NEW v \in AnyVersions
    PROVE  /\ convertStringToIntList(v) \in AnyVersions
           /\ \A i \in Nat \ {0} : Part(convertStringToIntList(v), i) \in Int
           /\ \A i \in Nat : i > Len(convertStringToIntList(v)) => Part(convertStringToIntList(v), i) = 0
<1>1. convertStringToIntList(v) \in AnyVersions
  BY DEF AnyVersions, convertStringToIntList
<1> QED
  BY <1>1 DEF AnyVersions, Part

\* Two versions are equal in all parts, or the first part that differs decides.
Decided(v, w, k) ==
    LET a == convertStringToIntList(v)
        b == convertStringToIntList(w)
    IN \/ k = 0 /\ \A i \in Nat \ {0} : Part(a, i) = Part(b, i)
       \/ \E i \in Nat \ {0} :
             /\ \A j \in Nat \ {0} : j < i => Part(a, j) = Part(b, j)
             /\ \/ k = 1 /\ Part(a, i) > Part(b, i)
                \/ k = -1 /\ Part(a, i) < Part(b, i)

LEMMA Decides ==
    ASSUME NEW v \in AnyVersions, NEW w \in AnyVersions
    PROVE  Decided(v, w, CompareVersions(v, w))
<1> DEFINE a == convertStringToIntList(v)
           b == convertStringToIntList(w)
           n == Larger(Len(a), Len(b))
           differ == {i \in 1..n : Part(a, i) # Part(b, i)}
           i == CHOOSE i \in differ : \A j \in differ : i <= j
<1>1. a \in AnyVersions /\ b \in AnyVersions
  BY Parts
<1>2. n \in Nat /\ Len(a) =< n /\ Len(b) =< n
  BY <1>1 DEF Larger, AnyVersions
<1>3. \A j \in Nat \ {0} : j \notin differ => Part(a, j) = Part(b, j)
  <2> TAKE j \in Nat \ {0}
  <2>1. CASE j > n
    <3>1. j > Len(a) /\ j > Len(b)
      BY <1>1, <1>2, <2>1 DEF AnyVersions
    <3> QED BY <3>1, Parts
  <2>2. CASE j =< n
    BY <1>2, <2>2
  <2> QED BY <1>2, <2>1, <2>2
<1>4. CompareVersions(v, w) = IF differ = {} THEN 0 ELSE IF Part(a, i) > Part(b, i) THEN 1 ELSE -1
  BY DEF CompareVersions
<1>5. CASE differ = {}
  BY <1>3, <1>4, <1>5 DEF Decided
<1>6. CASE differ # {}
  <2>1. differ \in SUBSET (1..n)
    OBVIOUS
  <2>2. i \in differ /\ \A j \in differ : i <= j
    <3> HIDE DEF differ, n
    <3>1. \E x \in differ : \A y \in differ : x =< y
      BY <1>2, <1>6, <2>1, FirstPlace
    <3> QED BY <3>1
  <2>3. i \in Nat \ {0} /\ Part(a, i) # Part(b, i)
    BY <1>2, <2>2
  <2>4. Part(a, i) \in Int /\ Part(b, i) \in Int
    BY <2>3, Parts
  <2>5. \A j \in Nat \ {0} : j < i => Part(a, j) = Part(b, j)
    <3> HIDE DEF differ, i
    <3> QED BY <1>3, <2>2, <2>3
  <2> HIDE DEF i
  <2>6. Part(a, i) > Part(b, i) \/ Part(a, i) < Part(b, i)
    BY <2>3, <2>4
  <2>7. CompareVersions(v, w) = IF Part(a, i) > Part(b, i) THEN 1 ELSE -1
    BY <1>4, <1>6
  <2> HIDE DEF a, b
  <2>8. \/ CompareVersions(v, w) = 1 /\ Part(a, i) > Part(b, i)
        \/ CompareVersions(v, w) = -1 /\ Part(a, i) < Part(b, i)
    BY <2>6, <2>7
  <2> QED BY <2>3, <2>5, <2>8 DEF Decided, a, b
<1> QED
  BY <1>5, <1>6

\* What the parts decide they decide once.
LEMMA DecidedOnce ==
    ASSUME NEW v \in AnyVersions, NEW w \in AnyVersions, NEW k, NEW l,
           Decided(v, w, k), Decided(v, w, l)
    PROVE  k = l
<1> DEFINE a == convertStringToIntList(v)
           b == convertStringToIntList(w)
<1>1. \A i \in Nat \ {0} : Part(a, i) \in Int /\ Part(b, i) \in Int
  BY Parts
<1> QED
  BY <1>1 DEF Decided

LEMMA DecidedBack ==
    ASSUME NEW v \in AnyVersions, NEW w \in AnyVersions, NEW k \in Int, Decided(v, w, k)
    PROVE  Decided(w, v, -k)
<1> DEFINE a == convertStringToIntList(v)
           b == convertStringToIntList(w)
<1>1. \A i \in Nat \ {0} : Part(a, i) \in Int /\ Part(b, i) \in Int
  BY Parts
<1> QED
  BY <1>1 DEF Decided

LEMMA DecidedOn ==
    ASSUME NEW u \in AnyVersions, NEW v \in AnyVersions, NEW w \in AnyVersions,
           NEW k \in {0, 1}, NEW l \in {0, 1}, Decided(u, v, k), Decided(v, w, l)
    PROVE  \E m \in {0, 1} : Decided(u, w, m)
<1> DEFINE a == convertStringToIntList(u)
           b == convertStringToIntList(v)
           c == convertStringToIntList(w)
<1>1. \A i \in Nat \ {0} : Part(a, i) \in Int /\ Part(b, i) \in Int /\ Part(c, i) \in Int
  BY Parts
<1>2. CASE k = 0
  BY <1>1, <1>2 DEF Decided
<1>3. CASE l = 0
  BY <1>1, <1>3 DEF Decided
<1>4. CASE k = 1 /\ l = 1
  <2>1. PICK i \in Nat \ {0} : /\ \A j \in Nat \ {0} : j < i => Part(a, j) = Part(b, j)
                              /\ Part(a, i) > Part(b, i)
    BY <1>4 DEF Decided
  <2>2. PICK e \in Nat \ {0} : /\ \A j \in Nat \ {0} : j < e => Part(b, j) = Part(c, j)
                              /\ Part(b, e) > Part(c, e)
    BY <1>4 DEF Decided
  <2> HIDE DEF a, b, c
  <2>3. PICK f \in {i, e} : f =< i /\ f =< e
    OBVIOUS
  <2>4. \A j \in Nat \ {0} : j < f => Part(a, j) = Part(c, j)
    BY <2>1, <2>2, <2>3
  <2>5. Part(a, f) > Part(c, f)
    <3>1. Part(a, f) >= Part(b, f) /\ Part(b, f) >= Part(c, f)
      BY <1>1, <2>1, <2>2, <2>3
    <3> QED BY <1>1, <2>1, <2>2, <2>3, <3>1
  <2> QED BY <2>3, <2>4, <2>5 DEF Decided, a, c
<1> QED
  BY <1>2, <1>3, <1>4

\* CompareVersions gives opposite answers for two versions in either order, it is
\* transitive, and a part 0 at the end makes no difference.  CompareVersions.
THEOREM VersionsOrdered ==
    \A u, v, w \in AnyVersions :
        /\ CompareVersions(u, v) = -CompareVersions(v, u)
        /\ CompareVersions(u, v) >= 0 /\ CompareVersions(v, w) >= 0
              => CompareVersions(u, w) >= 0
        /\ Numeric(v) => CompareVersions(u, Append(v, 0)) = CompareVersions(u, v)
<1> TAKE u, v, w \in AnyVersions
<1>1. /\ CompareVersions(u, v) \in {-1, 0, 1} /\ CompareVersions(v, u) \in {-1, 0, 1}
      /\ CompareVersions(v, w) \in {-1, 0, 1} /\ CompareVersions(u, w) \in {-1, 0, 1}
  BY DEF CompareVersions
<1>2. CompareVersions(u, v) = -CompareVersions(v, u)
  <2>1. Decided(u, v, -CompareVersions(v, u))
    BY <1>1, Decides, DecidedBack
  <2> QED BY <2>1, Decides, DecidedOnce
<1>3. ASSUME CompareVersions(u, v) >= 0, CompareVersions(v, w) >= 0
      PROVE  CompareVersions(u, w) >= 0
  <2>1. CompareVersions(u, v) \in {0, 1} /\ CompareVersions(v, w) \in {0, 1}
    BY <1>1, <1>3
  <2>2. \E m \in {0, 1} : Decided(u, w, m)
    BY <2>1, Decides, DecidedOn
  <2>3. CompareVersions(u, w) \in {0, 1}
    BY <2>2, Decides, DecidedOnce
  <2> QED BY <2>3
<1>4. ASSUME Numeric(v)
      PROVE  CompareVersions(u, Append(v, 0)) = CompareVersions(u, v)
  <2> DEFINE x == Append(v, 0)
  <2>1. x \in AnyVersions /\ Len(x) = Len(v) + 1 /\ x # <<>> /\ Len(v) \in Nat
    <3>1. x \in Seq(Int) /\ Len(x) = Len(v) + 1 /\ Len(v) \in Nat
      BY DEF AnyVersions
    <3>2. Len(<<>>) = 0
      OBVIOUS
    <3> HIDE DEF x
    <3> QED BY <3>1, <3>2 DEF AnyVersions
  <2>2. \A i \in 1..Len(x) : x[i] = IF i = Len(x) THEN 0 ELSE v[i]
    BY DEF AnyVersions
  <2>3. Numeric(x)
    BY <1>4, <2>1, <2>2 DEF Numeric
  <2>4. convertStringToIntList(x) = x /\ convertStringToIntList(v) = v
    BY <1>4, <2>3 DEF convertStringToIntList
  <2>5. \A i \in Nat \ {0} : Part(x, i) = Part(v, i)
    BY <2>1, <2>2 DEF Part
  <2> HIDE DEF x
  <2>6. Decided(u, v, CompareVersions(u, x))
    <3>1. Decided(u, x, CompareVersions(u, x))
      BY <2>1, Decides
    <3> QED BY <2>4, <2>5, <3>1 DEF Decided
  <2> QED BY <2>6, Decides, DecidedOnce DEF x
<1> QED
  BY <1>2, <1>3, <1>4

\* A later version does not lose the projects an earlier one has, except the empty one.
\* isPCVersionHigherThan75.
THEOREM ProjectsStay ==
    \A u, v \in AnyVersions :
        /\ isPCVersionHigherThan75(v) /\ CleanPCVersion(u) # <<>>
        /\ CompareVersions(CleanPCVersion(u), CleanPCVersion(v)) >= 0
        => isPCVersionHigherThan75(u)
<1> TAKE u, v \in AnyVersions
<1>1. CleanPCVersion(u) \in AnyVersions /\ CleanPCVersion(v) \in AnyVersions
  BY DEF CleanPCVersion, AnyVersions
<1>2. <<7, 6>> \in AnyVersions
  BY DEF AnyVersions
<1> QED
  BY <1>1, <1>2, VersionsOrdered DEF isPCVersionHigherThan75

\* The versions Prism Central has been released under.
Released(raw) == is7XPcVersion(CleanPCVersion(raw)) \/ is202XPcVersion(CleanPCVersion(raw))

\* ComparePCVersions gives opposite answers for two versions in either order, whatever
\* they are, and among released versions, where 7.x follows 202x, it is transitive.
\* ComparePCVersions.
THEOREM ReleasesOrdered ==
    \A u, v, w \in AnyVersions :
        /\ ComparePCVersions(u, v) = -ComparePCVersions(v, u)
        /\ Released(u) /\ Released(v) /\ Released(w)
              /\ ComparePCVersions(u, v) >= 0 /\ ComparePCVersions(v, w) >= 0
              => ComparePCVersions(u, w) >= 0
<1> TAKE u, v, w \in AnyVersions
<1> DEFINE a == CleanPCVersion(u)
           b == CleanPCVersion(v)
           c == CleanPCVersion(w)
<1>1. a \in AnyVersions /\ b \in AnyVersions /\ c \in AnyVersions
  BY DEF CleanPCVersion, AnyVersions
<1>2. \A x \in AnyVersions : ~(is7XPcVersion(x) /\ is202XPcVersion(x))
  BY DEF is7XPcVersion, is202XPcVersion, AnyVersions
<1>3. \A x, y \in AnyVersions : CompareVersions(x, y) = -CompareVersions(y, x)
  BY VersionsOrdered
<1>4. \A x, y \in AnyVersions : CompareVersions(x, y) \in {-1, 0, 1}
  BY DEF CompareVersions
<1>5. CompareVersions(a, b) >= 0 /\ CompareVersions(b, c) >= 0 => CompareVersions(a, c) >= 0
  BY <1>1, VersionsOrdered
<1> HIDE DEF a, b, c
<1>6. /\ ComparePCVersions(u, v) = IF is7XPcVersion(a) /\ is202XPcVersion(b) THEN 1
                                  ELSE IF is7XPcVersion(b) /\ is202XPcVersion(a) THEN -1
                                  ELSE CompareVersions(a, b)
      /\ ComparePCVersions(v, u) = IF is7XPcVersion(b) /\ is202XPcVersion(a) THEN 1
                                  ELSE IF is7XPcVersion(a) /\ is202XPcVersion(b) THEN -1
                                  ELSE CompareVersions(b, a)
      /\ ComparePCVersions(v, w) = IF is7XPcVersion(b) /\ is202XPcVersion(c) THEN 1
                                  ELSE IF is7XPcVersion(c) /\ is202XPcVersion(b) THEN -1
                                  ELSE CompareVersions(b, c)
      /\ ComparePCVersions(u, w) = IF is7XPcVersion(a) /\ is202XPcVersion(c) THEN 1
                                  ELSE IF is7XPcVersion(c) /\ is202XPcVersion(a) THEN -1
                                  ELSE CompareVersions(a, c)
  BY DEF ComparePCVersions, a, b, c
<1>7. ComparePCVersions(u, v) = -ComparePCVersions(v, u)
  BY <1>1, <1>2, <1>3, <1>4, <1>6
<1>8. ASSUME Released(u), Released(v), Released(w),
             ComparePCVersions(u, v) >= 0, ComparePCVersions(v, w) >= 0
      PROVE  ComparePCVersions(u, w) >= 0
  <2>1. /\ is7XPcVersion(a) \/ is202XPcVersion(a)
        /\ is7XPcVersion(b) \/ is202XPcVersion(b)
        /\ is7XPcVersion(c) \/ is202XPcVersion(c)
    BY <1>8 DEF Released, a, b, c
  <2> QED BY <1>1, <1>2, <1>5, <1>6, <1>8, <2>1
<1> QED
  BY <1>7, <1>8
=============================================================================
