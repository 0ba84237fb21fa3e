------------------------- MODULE MetroRecoveryProofs -------------------------
(***************************************************************************)
(* Proofs about MetroRecovery, for any VMs, fail-overs and faults.         *)
(***************************************************************************)
EXTENDS MetroRecovery, TLAPS

USE NoneAssumption, MaxVGsAssumption, RecoveryAssumption

\* What was decoupled when the pass began still is, or disaster recovery removed it.
AvoidInv ==
    /\ avoid \subseteq decoupled \cup removed
    /\ \A v \in removed : vmState[v] = "gone"

\* A pass that is about to change a VM has one it may change.
FoundInv ==
    /\ usable \cap avoid \subseteq removed
    /\ pc \in {"recordedGet", "recoveredGet", "checkGet", "tasks", "act", "power"}
          => found \notin avoid \ removed
    /\ pc = "sync" => found \notin avoid \ removed \/ found = nm.uuid

\* A pass that carries a UUID which is not the stored one may store it.
MemInv == mem.uuid = nm.uuid \/ mem.uuid \notin avoid \ removed \/ sys # None

IInv == TypeOK /\ AvoidInv /\ FoundInv /\ MemInv

\* The steps the properties speak of.
Careful ==
    \A v \in VMs :
        (tasks'[v] \ tasks[v] # {} \/ (vmState[v] = "off" /\ vmState'[v] = "on"))
            => v \notin avoid
Adopts == nm'.uuid # nm.uuid /\ sys = None => nm'.uuid \notin avoid \ removed

-----------------------------------------------------------------------------
(* What the parts of a step keep.                                          *)

LEMMA UUIDType ==
    ASSUME TypeOK
    PROVE  GetVMUUID \in VMs
BY DEF GetVMUUID, TypeOK, NM

LEMMA FaultType ==
    ASSUME TypeOK, Fault \/ Fine
    PROVE  faults' \in 0..MaxFaults
BY DEF TypeOK, Fault, Fine

\* A VM that is not decoupled now was not decoupled when the pass began, or has been
\* removed since.
LEMMA NotAvoided ==
    ASSUME IInv, NEW v \in VMs, v \notin decoupled
    PROVE  v \notin avoid \ removed
BY DEF IInv, AvoidInv

\* A VM that is there has not been removed.
LEMMA NotRemoved ==
    ASSUME IInv, NEW v \in VMs, Exists(v)
    PROVE  v \notin removed
BY DEF IInv, AvoidInv, Exists

LEMMA SeeType ==
    ASSUME TypeOK, NEW v \in VMs
    PROVE  /\ See(v) \in [vgs: 0..MaxVGs, on: BOOLEAN]
           /\ Unseen \in [vgs: 0..MaxVGs, on: BOOLEAN]
BY DEF See, Unseen, TypeOK, PrismTypeOK

LEMMA QuietKeeps ==
    ASSUME IInv, Quiet
    PROVE  /\ Careful /\ Adopts
           /\ avoid' = avoid => AvoidInv'
           /\ PrismTypeOK' /\ nm' \in NM /\ sys' \in VMs \cup {None}
           /\ decoupled' \subseteq VMs /\ removed' \subseteq VMs
           /\ pending' \in BOOLEAN /\ failovers' \in 0..MaxFailovers
<1>1. UNCHANGED <<vmState, vgs, tasks, byKey, index, nm, sys, decoupled, pending,
                  removed, failovers>>
  BY DEF Quiet, prismVars, drVars
<1>2. PrismTypeOK'
  BY <1>1 DEF IInv, TypeOK, PrismTypeOK
<1>3. Careful /\ Adopts
  BY <1>1 DEF Careful, Adopts
<1>4. avoid' = avoid => AvoidInv'
  BY <1>1 DEF IInv, AvoidInv
<1> QED
  BY <1>1, <1>2, <1>3, <1>4 DEF IInv, TypeOK

LEMMA GotoKeeps ==
    ASSUME IInv, Quiet, Fault \/ Fine,
           NEW l \in PCs, NEW m \in NM, NEW how \in {"wait", "gone", "error"},
           Goto(l, m, how),
           m.uuid = mem.uuid,
           l \in {"recovered", "list"} \/ (l = "act" /\ pc = "tasks")
    PROVE  IInv'
<1>1. TypeOK'
  BY FaultType, QuietKeeps DEF Goto, IInv, TypeOK, OneVM
<1>2. AvoidInv'
  BY QuietKeeps DEF Goto
<1>3. FoundInv'
  BY DEF Goto, IInv, FoundInv, Quiet, drVars
<1>4. MemInv'
  BY DEF Goto, Quiet, drVars, IInv, MemInv
<1> QED
  BY <1>1, <1>2, <1>3, <1>4 DEF IInv

LEMMA AskKeeps ==
    ASSUME IInv, Quiet, Fine, NEW l \in {"recordedGet", "recoveredGet"},
           NEW v \in VMs, v \notin decoupled, Ask(l, v)
    PROVE  IInv'
<1>1. TypeOK'
  BY NoneAssumption, FaultType, QuietKeeps DEF Ask, IInv, TypeOK, PCs
<1>2. AvoidInv'
  BY QuietKeeps DEF Ask
<1>3. FoundInv'
  BY NotAvoided DEF Ask, IInv, FoundInv, Quiet, drVars
<1>4. MemInv'
  BY DEF Ask, Quiet, drVars, IInv, MemInv
<1> QED
  BY <1>1, <1>2, <1>3, <1>4 DEF IInv

LEMMA WorkKeeps ==
    ASSUME IInv, Quiet, Fault \/ Fine,
           NEW v \in VMs, v \notin avoid \ removed,
           NEW s \in [vgs: 0..MaxVGs, on: BOOLEAN],
           NEW m \in NM, m.uuid = mem.uuid, Work(v, s, m)
    PROVE  IInv'
<1>1. TypeOK'
  BY NoneAssumption, FaultType, QuietKeeps DEF Work, IInv, TypeOK, PCs
<1>2. AvoidInv'
  BY QuietKeeps DEF Work
<1>3. FoundInv'
  BY DEF Work, FoundInv, Quiet, drVars
<1>4. MemInv'
  BY DEF Work, Quiet, drVars, IInv, MemInv
<1> QED
  BY <1>1, <1>2, <1>3, <1>4 DEF IInv

LEMMA ReturnKeeps ==
    ASSUME IInv, Quiet, Fault \/ Fine,
           NEW m \in NM, m.uuid = mem.uuid, Return(m)
    PROVE  IInv'
<1>1. TypeOK'
  BY MaxVGsAssumption, FaultType, QuietKeeps DEF Return, Unseen, IInv, TypeOK, PCs, OneVM
<1>2. AvoidInv'
  BY QuietKeeps DEF Return
<1>3. FoundInv'
  BY DEF Return, FoundInv
<1>4. MemInv'
  BY DEF Return, Quiet, drVars, IInv, MemInv
<1> QED
  BY <1>1, <1>2, <1>3, <1>4 DEF IInv

LEMMA ReleaseKeeps ==
    ASSUME IInv, Quiet, Fault \/ Fine, Release(mem)
    PROVE  IInv'
<1>1. [mem EXCEPT !.fin = FALSE] \in NM /\ [mem EXCEPT !.fin = FALSE].uuid = mem.uuid
  BY DEF IInv, TypeOK, NM
<1> QED
  BY <1>1, ReturnKeeps DEF Release

-----------------------------------------------------------------------------
(* The lookups: nothing outside the pass changes.                          *)

LEMMA StartKeeps ==
    ASSUME IInv, StartDelete \/ StartFind \/ StartReady
    PROVE  IInv' /\ Careful /\ Adopts
<1>1. PICK l \in {"recorded", "find", "sync"}, v \in {GetVMUUID, nm.uuid} :
          Start(l, v) /\ (IF l = "sync" THEN v = nm.uuid ELSE v = GetVMUUID)
  BY DEF StartDelete, StartFind, StartReady
<1>2. Quiet /\ Fine
  BY <1>1 DEF Start
<1>3. v \in VMs \cup {None} /\ (l # "sync" => v # None)
  BY <1>1, UUIDType, NoneAssumption DEF IInv, TypeOK, NM
<1>4. TypeOK'
  BY <1>1, <1>2, <1>3, FaultType, QuietKeeps, MaxVGsAssumption
     DEF Start, Unseen, IInv, TypeOK, PCs, OneVM
<1>5. AvoidInv'
  BY <1>1 DEF Start, Quiet, drVars, prismVars, IInv, AvoidInv
<1>6. FoundInv'
  BY <1>1 DEF Start, Quiet, FoundInv
<1>7. MemInv'
  BY <1>1 DEF Start, Quiet, MemInv
<1> QED
  BY <1>2, <1>4, <1>5, <1>6, <1>7, QuietKeeps DEF IInv

LEMMA RecordedKeeps ==
    ASSUME IInv, Recorded \/ RecordedGet
    PROVE  IInv' /\ Careful /\ Adopts
<1>1. found \in VMs /\ mem \in NM
  BY DEF Recorded, RecordedGet, IInv, TypeOK, OneVM
<1>2. Quiet
  BY DEF Recorded, RecordedGet
<1>3. CASE Fine /\ Goto("recovered", [mem EXCEPT !.skipped = found], "wait")
  <2>1. [mem EXCEPT !.skipped = found] \in NM /\ [mem EXCEPT !.skipped = found].uuid = mem.uuid
    BY <1>1 DEF NM
  <2> QED
    BY <1>2, <1>3, <2>1, GotoKeeps, QuietKeeps DEF PCs, Goto
<1>4. CASE Fine /\ found \notin decoupled /\ Ask("recordedGet", found)
  BY <1>1, <1>2, <1>4, AskKeeps, QuietKeeps DEF Ask
<1>5. CASE RecordedGet /\ Fine /\ Work(found, See(found), mem)
  <2>1. found \notin avoid \ removed
    BY <1>5 DEF RecordedGet, IInv, FoundInv
  <2>2. See(found) \in [vgs: 0..MaxVGs, on: BOOLEAN]
    BY <1>1, SeeType DEF IInv
  <2> QED
    BY <1>1, <1>2, <1>5, <2>1, <2>2, WorkKeeps, QuietKeeps DEF Work
<1>6. CASE Fine /\ Goto("recovered", mem, "gone")
  BY <1>1, <1>2, <1>6, GotoKeeps, QuietKeeps DEF PCs, Goto
<1>7. CASE Fault /\ Goto("recovered", mem, "error")
  BY <1>1, <1>2, <1>7, GotoKeeps, QuietKeeps DEF PCs, Goto
<1> QED
  BY <1>3, <1>4, <1>5, <1>6, <1>7 DEF Recorded, RecordedGet

LEMMA RecoveredKeeps ==
    ASSUME IInv, Recovered \/ RecoveredGet
    PROVE  IInv' /\ Careful /\ Adopts
<1> DEFINE r == mem.recovered
<1>1. r \in VMs \cup {None} /\ mem \in NM /\ mode \in {"wait", "gone", "error"}
  BY DEF IInv, TypeOK, NM
<1>2. Quiet /\ Fine
  BY DEF Recovered, RecoveredGet
<1>3. CASE Goto("list", mem, mode)
  BY <1>1, <1>2, <1>3, GotoKeeps, QuietKeeps DEF PCs, Goto
<1>4. CASE Goto("list", [mem EXCEPT !.recovered = None], mode)
  <2>1. /\ [mem EXCEPT !.recovered = None] \in NM
        /\ [mem EXCEPT !.recovered = None].uuid = mem.uuid
    BY <1>1 DEF NM
  <2> QED
    BY <1>1, <1>2, <1>4, <2>1, GotoKeeps, QuietKeeps DEF PCs, Goto
<1>5. CASE r \notin decoupled \cup {None} /\ Ask("recoveredGet", r)
  BY <1>1, <1>2, <1>5, AskKeeps, QuietKeeps DEF Ask
<1>6. CASE RecoveredGet /\ Work(found, See(found), mem)
  <2>1. found \in VMs /\ found \notin avoid \ removed
    BY <1>6 DEF RecoveredGet, IInv, FoundInv, TypeOK, OneVM
  <2>2. See(found) \in [vgs: 0..MaxVGs, on: BOOLEAN]
    BY <2>1, SeeType DEF IInv
  <2> QED
    BY <1>1, <1>2, <1>6, <2>1, <2>2, WorkKeeps, QuietKeeps DEF Work
<1>7. CASE Return(mem)
  BY <1>1, <1>2, <1>7, ReturnKeeps, QuietKeeps DEF Return
<1>8. CASE Release(mem)
  BY <1>2, <1>8, ReleaseKeeps, QuietKeeps DEF Release, Return
<1> QED
  BY <1>3, <1>4, <1>5, <1>6, <1>7, <1>8 DEF Recovered, RecoveredGet

LEMMA FindVMKeeps ==
    ASSUME IInv, FindVM \/ FindVMRole
    PROVE  IInv' /\ Careful /\ Adopts
<1>1. found \in VMs /\ mem \in NM /\ seen \in [vgs: 0..MaxVGs, on: BOOLEAN]
  BY DEF FindVM, FindVMRole, IInv, TypeOK, OneVM
<1>2. Quiet /\ Fine
  BY DEF FindVM, FindVMRole
<1>3. CASE found \notin decoupled /\ Work(found, seen, mem)
  BY <1>1, <1>2, <1>3, NotAvoided, WorkKeeps, QuietKeeps DEF Work
<1>4. CASE Goto("list", mem, "error")
  BY <1>1, <1>2, <1>4, GotoKeeps, QuietKeeps DEF PCs, Goto
<1>5. CASE /\ pc' = "findRole" /\ seen' = See(found)
           /\ UNCHANGED <<mem, mode, cands, usable, found, avoid>>
  <2>1. See(found) \in [vgs: 0..MaxVGs, on: BOOLEAN]
    BY <1>1, SeeType DEF IInv
  <2>2. TypeOK'
    BY <1>1, <1>2, <1>5, <2>1, NoneAssumption, FaultType, QuietKeeps DEF IInv, TypeOK, PCs
  <2>3. FoundInv' /\ MemInv'
    BY <1>2, <1>5 DEF Quiet, drVars, IInv, FoundInv, MemInv
  <2> QED
    BY <1>2, <1>5, <2>2, <2>3, QuietKeeps DEF IInv
<1> QED
  BY <1>3, <1>4, <1>5 DEF FindVM, FindVMRole

LEMMA ByNameKeeps ==
    ASSUME IInv, ListByName \/ CheckOne \/ CheckGet
    PROVE  IInv' /\ Careful /\ Adopts
<1>1. Quiet /\ Fine /\ UNCHANGED <<mem, mode, avoid>>
  BY DEF ListByName, CheckOne, CheckGet
<1>2. pc' \in {"check", "checkGet"} /\ cands' \subseteq VMs /\ UNCHANGED removed
  BY DEF ListByName, CheckOne, CheckGet, Quiet, drVars, IInv, TypeOK, PrismTypeOK
<1>3. /\ usable' \subseteq VMs /\ usable' \cap avoid \subseteq removed
      /\ seen' \in [vgs: 0..MaxVGs, on: BOOLEAN] /\ found' \in VMs \cup {None}
      /\ pc' = "checkGet" => found' \in VMs /\ found' \notin avoid \ removed
  <2>1. /\ usable \subseteq VMs /\ usable \cap avoid \subseteq removed /\ cands \subseteq VMs
        /\ seen \in [vgs: 0..MaxVGs, on: BOOLEAN] /\ found \in VMs \cup {None}
    BY DEF IInv, TypeOK, FoundInv
  <2>2. CASE ListByName
    BY <2>1, <2>2 DEF ListByName
  <2>3. CASE CheckOne
    <3>1. PICK v \in cands :
              IF v \in decoupled THEN UNCHANGED <<pc, found>> ELSE pc' = "checkGet" /\ found' = v
      BY <2>3 DEF CheckOne
    <3>2. v \in VMs /\ (v \notin decoupled => v \notin avoid \ removed)
      BY <2>1, NotAvoided
    <3> QED
      BY <2>1, <2>3, <3>1, <3>2 DEF CheckOne
  <2>4. CASE CheckGet
    <3>1. found \in VMs /\ found \notin avoid \ removed
      BY <2>4 DEF CheckGet, IInv, FoundInv, TypeOK, OneVM
    <3>2. See(found) \in [vgs: 0..MaxVGs, on: BOOLEAN]
      BY <3>1, SeeType DEF IInv
    <3> QED
      BY <2>1, <2>4, <3>1, <3>2 DEF CheckGet
  <2> QED
    BY <2>2, <2>3, <2>4
<1>4. TypeOK'
  BY <1>1, <1>2, <1>3, NoneAssumption, FaultType, QuietKeeps DEF IInv, TypeOK, PCs, OneVM
<1>5. FoundInv'
  BY <1>1, <1>2, <1>3 DEF FoundInv
<1>6. MemInv'
  BY <1>1 DEF Quiet, drVars, IInv, MemInv
<1> QED
  BY <1>1, <1>4, <1>5, <1>6, QuietKeeps DEF IInv

LEMMA ListedKeeps ==
    ASSUME IInv, Listed
    PROVE  IInv' /\ Careful /\ Adopts
<1>1. mem \in NM
  BY DEF IInv, TypeOK
<1>2. Quiet /\ Fine
  BY DEF Listed
<1>3. CASE Return(mem)
  BY <1>1, <1>2, <1>3, ReturnKeeps, QuietKeeps
<1>4. CASE Release(mem)
  BY <1>2, <1>4, ReleaseKeeps, QuietKeeps
<1>5. ASSUME NEW v \in VMs, usable = {v},
             Work(v, seen, IF mem.del THEN [mem EXCEPT !.recovered = v] ELSE mem)
      PROVE  IInv' /\ Careful /\ Adopts
  <2> DEFINE m == IF mem.del THEN [mem EXCEPT !.recovered = v] ELSE mem
  <2>1. m \in NM /\ m.uuid = mem.uuid
    BY <1>1 DEF NM
  <2>2. v \notin avoid \ removed /\ seen \in [vgs: 0..MaxVGs, on: BOOLEAN]
    BY <1>5 DEF IInv, FoundInv, TypeOK
  <2>3. Work(v, seen, m)
    BY <1>5
  <2> HIDE DEF m
  <2> QED
    BY <1>2, <2>1, <2>2, <2>3, WorkKeeps, QuietKeeps DEF Work
<1> QED
  BY <1>3, <1>4, <1>5 DEF Listed

LEMMA ChecksKeep ==
    ASSUME IInv, CheckTasks \/ LookupFails
    PROVE  IInv' /\ Careful /\ Adopts
<1>1. mem \in NM /\ mode \in {"wait", "gone", "error"}
  BY DEF IInv, TypeOK
<1>2. Quiet /\ (Fault \/ Fine)
  BY DEF CheckTasks, LookupFails, CallFails
<1>3. CASE Return(mem)
  BY <1>1, <1>2, <1>3, ReturnKeeps, QuietKeeps
<1>4. CASE pc = "tasks" /\ Goto("act", mem, mode)
  BY <1>1, <1>2, <1>4, GotoKeeps, QuietKeeps DEF PCs
<1> QED
  BY <1>3, <1>4 DEF CheckTasks, LookupFails, CallFails

-----------------------------------------------------------------------------
(* The steps that change a VM or the object.                               *)

LEMMA DeleteActKeeps ==
    ASSUME IInv, DeleteAct
    PROVE  IInv' /\ Careful /\ Adopts
<1>1. found \in VMs /\ found \notin avoid \ removed /\ mem \in NM
  BY DEF DeleteAct, IInv, FoundInv, TypeOK, OneVM
<1>2. PICK t \in {"detach", "delete"} : StartTask(found, t)
  BY DEF DeleteAct
<1>3. /\ UNCHANGED <<vmState, vgs, byKey, index, nm, sys, decoupled, pending, removed,
                     failovers>>
      /\ tasks' \in [VMs -> SUBSET {"detach", "delete"}]
      /\ \A v \in VMs \ {found} : tasks'[v] = tasks[v]
      /\ ~Exists(found) => tasks' = tasks
  BY <1>1, <1>2 DEF DeleteAct, StartTask, drVars, IInv, TypeOK, PrismTypeOK
<1>4. Return(mem) /\ (Fault \/ Fine)
  BY DEF DeleteAct
<1>5. TypeOK'
  BY <1>1, <1>3, <1>4, FaultType, MaxVGsAssumption
     DEF Return, Unseen, IInv, TypeOK, PrismTypeOK, PCs, OneVM
<1>6. AvoidInv' /\ FoundInv' /\ MemInv'
  BY <1>3, <1>4 DEF Return, IInv, AvoidInv, FoundInv, MemInv
<1>7. Careful /\ Adopts
  BY <1>1, <1>3, NotRemoved DEF Careful, Adopts
<1> QED
  BY <1>5, <1>6, <1>7 DEF IInv

LEMMA PowerOnKeeps ==
    ASSUME IInv, PowerOnVM
    PROVE  IInv' /\ Careful /\ Adopts
<1>1. found \in VMs /\ found \notin avoid \ removed /\ mem \in NM
  BY DEF PowerOnVM, IInv, FoundInv, TypeOK, OneVM
<1>2. Fine /\ UNCHANGED <<nm, sys, decoupled, pending, removed, failovers>>
  BY DEF PowerOnVM, drVars
<1>3. CASE PowerOn(found) /\ Goto("sync", mem, mode)
  <2>1. /\ UNCHANGED <<vgs, tasks, byKey, index>>
        /\ vmState' \in [VMs -> VMStates]
        /\ \A v \in VMs \ {found} : vmState'[v] = vmState[v]
    BY <1>1, <1>3 DEF PowerOn, VMStates, IInv, TypeOK, PrismTypeOK
  <2>2. TypeOK'
    BY <1>1, <1>2, <1>3, <2>1, FaultType DEF Goto, IInv, TypeOK, PrismTypeOK, PCs, OneVM
  <2>3. removed \subseteq VMs /\ found \notin removed
    BY <1>1, <1>3, NotRemoved DEF PowerOn, IInv, TypeOK
  <2>4. AvoidInv' /\ FoundInv' /\ MemInv'
    BY <1>1, <1>2, <1>3, <2>1, <2>3 DEF Goto, IInv, AvoidInv, FoundInv, MemInv
  <2>5. Careful /\ Adopts
    BY <1>1, <1>2, <2>1, <2>3 DEF Careful, Adopts
  <2> QED
    BY <2>2, <2>4, <2>5 DEF IInv
<1>4. CASE Return(mem) /\ UNCHANGED prismVars
  <2>1. Quiet
    BY <1>2, <1>4 DEF Quiet, drVars
  <2> QED
    BY <1>1, <1>2, <1>4, <2>1, ReturnKeeps, QuietKeeps DEF Return
<1> QED
  BY <1>3, <1>4 DEF PowerOnVM

LEMMA SyncKeeps ==
    ASSUME IInv, SyncVmUUID
    PROVE  IInv' /\ Careful /\ Adopts
<1> DEFINE target == IF sys # None THEN sys ELSE found
           synced == [mem EXCEPT !.uuid = target]
<1>1. target \in VMs \cup {None} /\ mem \in NM /\ nm \in NM
  BY DEF IInv, TypeOK
<1>2. sys # None \/ target \notin avoid \ removed \/ target = nm.uuid
  BY DEF SyncVmUUID, IInv, FoundInv
<1>3. UNCHANGED <<vmState, vgs, tasks, byKey, index, sys, decoupled, pending, removed,
                  failovers>> /\ (Fault \/ Fine)
  BY DEF SyncVmUUID, prismVars, drVars
<1>4. nm' \in {nm, [nm EXCEPT !.uuid = target]}
  BY DEF SyncVmUUID
<1>5. nm' \in NM /\ nm'.uuid \in {nm.uuid, target}
  BY <1>1, <1>4 DEF NM
<1>6. PICK m \in {synced, [synced EXCEPT !.ready = TRUE]} : Return(m)
  BY DEF SyncVmUUID
<1>7. m \in NM /\ m.uuid = target
  BY <1>1, <1>6 DEF NM
<1> HIDE DEF target, synced
<1>8. TypeOK'
  BY <1>3, <1>5, <1>6, <1>7, FaultType, MaxVGsAssumption
     DEF Return, Unseen, IInv, TypeOK, PrismTypeOK, PCs, OneVM
<1>9. AvoidInv' /\ FoundInv'
  BY <1>3, <1>6 DEF Return, IInv, AvoidInv, FoundInv
<1>10. MemInv'
  BY <1>2, <1>3, <1>5, <1>6, <1>7 DEF Return, MemInv
<1>11. Careful /\ Adopts
  BY <1>2, <1>3, <1>5 DEF Careful, Adopts
<1> QED
  BY <1>8, <1>9, <1>10, <1>11 DEF IInv

LEMMA RestKeeps ==
    ASSUME IInv, Rest, Fault \/ Fine, nm' \in NM, UNCHANGED <<prismVars, sys, drVars>>,
           nm'.uuid \in {nm.uuid, mem.uuid}
    PROVE  IInv' /\ Careful /\ Adopts
<1>1. UNCHANGED <<vmState, vgs, tasks, byKey, index, sys, decoupled, pending, removed,
                  failovers>>
  BY DEF prismVars, drVars
<1>2. TypeOK'
  BY <1>1, FaultType, MaxVGsAssumption DEF Rest, Unseen, IInv, TypeOK, PrismTypeOK, PCs, OneVM
<1>3. AvoidInv' /\ FoundInv' /\ MemInv'
  BY <1>1 DEF Rest, IInv, AvoidInv, FoundInv, MemInv
<1>4. Careful /\ Adopts
  BY <1>1 DEF Careful, Adopts, IInv, MemInv
<1> QED
  BY <1>2, <1>3, <1>4 DEF IInv

LEMMA EndKeeps ==
    ASSUME IInv, EndPass \/ Crash
    PROVE  IInv' /\ Careful /\ Adopts
<1>1. nm \in NM /\ mem \in NM
  BY DEF IInv, TypeOK
<1>2. nm' \in {nm, [mem EXCEPT !.del = nm.del]}
  BY DEF EndPass, Crash
<1>3. nm' \in NM /\ nm'.uuid \in {nm.uuid, mem.uuid}
  BY <1>1, <1>2 DEF NM
<1> QED
  BY <1>3, RestKeeps DEF EndPass, Crash

-----------------------------------------------------------------------------
(* Everybody else.                                                         *)

LEMMA OthersKeep ==
    ASSUME IInv, avoid' = avoid, usable' = usable, pc' = pc, found' = found,
           mem'.uuid = mem.uuid, nm'.uuid = nm.uuid, TypeOK',
           sys' = sys \/ sys' # None,
           removed \subseteq removed', decoupled \subseteq decoupled' \cup removed',
           \A v \in removed' : vmState'[v] = "gone",
           \A v \in VMs : vmState[v] = "off" => vmState'[v] # "on",
           \A v \in VMs : tasks'[v] \subseteq tasks[v]
    PROVE  IInv' /\ Careful /\ Adopts
<1>1. AvoidInv'
  BY DEF IInv, AvoidInv
<1>2. FoundInv' /\ MemInv'
  BY DEF IInv, FoundInv, MemInv
<1>3. Careful /\ Adopts
  BY DEF Careful, Adopts
<1> QED
  BY <1>1, <1>2, <1>3 DEF IInv

LEMMA UserDeletesKeeps ==
    ASSUME IInv, UserDeletes
    PROVE  IInv' /\ Careful /\ Adopts
<1>1. nm \in NM /\ mem \in NM
  BY DEF IInv, TypeOK
<1>2. nm' \in NM /\ nm'.uuid = nm.uuid
  BY <1>1 DEF UserDeletes, NM
<1>3. mem' \in {nm', mem}
  BY DEF UserDeletes
<1>4. UNCHANGED <<vmState, vgs, tasks, byKey, index, sys, decoupled, pending, removed,
                  failovers, pc, mode, cands, usable, found, seen, avoid, faults>>
  BY DEF UserDeletes, prismVars, drVars
<1>5. TypeOK'
  BY <1>1, <1>2, <1>3, <1>4 DEF IInv, TypeOK, PrismTypeOK
<1>6. AvoidInv' /\ FoundInv' /\ MemInv'
  BY <1>2, <1>3, <1>4 DEF IInv, AvoidInv, FoundInv, MemInv
<1>7. Careful /\ Adopts
  BY <1>2, <1>4 DEF Careful, Adopts
<1> QED
  BY <1>5, <1>6, <1>7 DEF IInv

LEMMA DisasterRecoveryKeeps ==
    ASSUME IInv, NEW v \in VMs, DisasterRecovery(v)
    PROVE  IInv' /\ Careful /\ Adopts
<1>1. UNCHANGED <<pc, mem, mode, cands, usable, found, seen, avoid, nm, sys, byKey,
                  index, faults>>
  BY DEF DisasterRecovery, Failover, Recover, DRRemoves, OperatorDestroys, passVars,
         prismVars
<1>2. vmState \in [VMs -> VMStates] /\ vgs \in [VMs -> 0..MaxVGs]
      /\ tasks \in [VMs -> SUBSET {"detach", "delete"}]
  BY DEF IInv, TypeOK, PrismTypeOK
<1>3. CASE Failover(v)
  <2>1. UNCHANGED <<vmState, vgs, tasks, removed>> /\ decoupled' = decoupled \cup {v}
        /\ pending' \in BOOLEAN /\ failovers' \in 0..MaxFailovers
    BY <1>3 DEF Failover, prismVars, IInv, TypeOK
  <2>2. TypeOK'
    BY <1>1, <2>1 DEF IInv, TypeOK, PrismTypeOK
  <2>3. \A w \in removed' : vmState'[w] = "gone"
    BY <2>1 DEF IInv, AvoidInv
  <2> QED
    BY <1>1, <2>1, <2>2, <2>3, OthersKeep
<1>4. CASE Recover(v)
  <2>1. /\ UNCHANGED <<tasks, decoupled, removed, failovers>>
        /\ vmState' = [vmState EXCEPT ![v] = "on"] /\ vmState[v] = "none"
        /\ pending' \in BOOLEAN /\ vgs' \in [VMs -> 0..MaxVGs]
    BY <1>2, <1>4 DEF Recover
  <2>2. vmState' \in [VMs -> VMStates]
    BY <1>2, <2>1 DEF VMStates
  <2>3. TypeOK'
    BY <1>1, <2>1, <2>2 DEF IInv, TypeOK, PrismTypeOK
  <2>4. /\ \A w \in removed' : vmState'[w] = "gone"
        /\ \A w \in VMs : vmState[w] = "off" => vmState'[w] # "on"
    BY <1>2, <2>1 DEF IInv, TypeOK, AvoidInv
  <2> QED
    BY <1>1, <2>1, <2>3, <2>4, OthersKeep
<1>5. CASE DRRemoves(v)
  <2>1. /\ UNCHANGED <<vgs, pending, failovers>>
        /\ decoupled' = decoupled \ {v} /\ removed' = removed \cup {v}
        /\ vmState' = [vmState EXCEPT ![v] = "gone"] /\ tasks' = [tasks EXCEPT ![v] = {}]
    BY <1>5 DEF DRRemoves, OperatorDestroys
  <2>2. vmState' \in [VMs -> VMStates] /\ tasks' \in [VMs -> SUBSET {"detach", "delete"}]
    BY <1>2, <2>1 DEF VMStates
  <2>3. TypeOK'
    BY <1>1, <2>1, <2>2 DEF IInv, TypeOK, PrismTypeOK
  <2>4. /\ \A w \in removed' : vmState'[w] = "gone"
        /\ \A w \in VMs : vmState[w] = "off" => vmState'[w] # "on"
        /\ \A w \in VMs : tasks'[w] \subseteq tasks[w]
    BY <1>2, <2>1 DEF IInv, TypeOK, AvoidInv
  <2>5. removed \subseteq removed' /\ decoupled \subseteq decoupled' \cup removed'
    BY <2>1
  <2> QED
    BY <1>1, <2>3, <2>4, <2>5, OthersKeep
<1> QED
  BY <1>3, <1>4, <1>5 DEF DisasterRecovery

LEMMA NodeReportsKeeps ==
    ASSUME IInv, NEW v \in VMs, NodeReports(v)
    PROVE  IInv' /\ Careful /\ Adopts
<1>1. sys' = v /\ v # None
  BY DEF NodeReports
<1>2. UNCHANGED <<vmState, vgs, tasks, byKey, index, nm, decoupled, pending, removed,
                  failovers, pc, mem, mode, cands, usable, found, seen, avoid, faults>>
  BY DEF NodeReports, prismVars, drVars, passVars
<1>3. TypeOK'
  BY <1>1, <1>2 DEF IInv, TypeOK, PrismTypeOK
<1>4. \A w \in removed' : vmState'[w] = "gone"
  BY <1>2 DEF IInv, AvoidInv
<1> QED
  BY <1>1, <1>2, <1>3, <1>4, OthersKeep

LEMMA PrismStepKeeps ==
    ASSUME IInv, NEW v \in VMs, PrismStep(v)
    PROVE  IInv' /\ Careful /\ Adopts
<1>1. UNCHANGED <<byKey, nm, sys, decoupled, pending, removed, failovers, pc, mem, mode,
                  cands, usable, found, seen, avoid, faults>>
  BY DEF PrismStep, PrismTask, CreateDone, DetachDone, DeleteDone, IndexCatchesUp,
         drVars, passVars
<1>2. vmState \in [VMs -> VMStates] /\ vgs \in [VMs -> 0..MaxVGs]
      /\ tasks \in [VMs -> SUBSET {"detach", "delete"}] /\ index \in SUBSET VMs
  BY DEF IInv, TypeOK, PrismTypeOK
<1>3. /\ vmState' \in [VMs -> VMStates]
      /\ \A w \in VMs : vmState[w] = "gone" => vmState'[w] = "gone"
      /\ \A w \in VMs : vmState[w] = "off" => vmState'[w] # "on"
  BY <1>2 DEF PrismStep, PrismTask, CreateDone, DetachDone, DeleteDone, IndexCatchesUp,
              VMStates
<1>4. /\ tasks' \in [VMs -> SUBSET {"detach", "delete"}]
      /\ \A w \in VMs : tasks'[w] \subseteq tasks[w]
  BY <1>2 DEF PrismStep, PrismTask, CreateDone, DetachDone, DeleteDone, IndexCatchesUp
<1>5. vgs' \in [VMs -> 0..MaxVGs]
  BY <1>2 DEF PrismStep, PrismTask, CreateDone, DetachDone, DeleteDone, IndexCatchesUp
<1>6. index' \in SUBSET VMs
  BY <1>2 DEF PrismStep, PrismTask, CreateDone, DetachDone, DeleteDone, IndexCatchesUp
<1>7. TypeOK'
  BY <1>1, <1>3, <1>4, <1>5, <1>6 DEF IInv, TypeOK, PrismTypeOK
<1>8. \A w \in removed' : vmState'[w] = "gone"
  BY <1>1, <1>3 DEF IInv, AvoidInv, TypeOK
<1> QED
  BY <1>1, <1>3, <1>4, <1>7, <1>8, OthersKeep

-----------------------------------------------------------------------------
LEMMA Initial == Init => IInv
<1> SUFFICES ASSUME Init PROVE IInv
  OBVIOUS
<1>1. nm \in NM
  BY DEF Init, NM
<1>2. PrismTypeOK
  BY DEF Init, PrismTypeOK, VMStates
<1>3. /\ sys = None /\ decoupled = {} /\ pending = FALSE /\ removed = {} /\ failovers = 0
      /\ pc = "idle" /\ mem = nm /\ mode = "wait" /\ cands = {} /\ usable = {}
      /\ found = None /\ seen = Unseen /\ avoid = {} /\ faults = 0
  BY DEF Init
<1>4. TypeOK
  <2>1. /\ failovers \in 0..MaxFailovers /\ faults \in 0..MaxFaults
        /\ seen \in [vgs: 0..MaxVGs, on: BOOLEAN]
    BY <1>3, MaxVGsAssumption DEF Unseen
  <2>2. pending \in BOOLEAN
    BY <1>3
  <2>3. sys \in VMs \cup {None} /\ found \in VMs \cup {None} /\ mem \in NM
    BY <1>1, <1>3
  <2>4. pc \in PCs /\ pc \notin OneVM /\ mode \in {"wait", "gone", "error"}
    BY <1>3 DEF PCs, OneVM
  <2> QED
    BY <1>1, <1>2, <1>3, <2>1, <2>2, <2>3, <2>4 DEF TypeOK
<1>5. AvoidInv /\ FoundInv /\ MemInv
  BY <1>3 DEF AvoidInv, FoundInv, MemInv
<1> QED
  BY <1>4, <1>5 DEF IInv

LEMMA Step ==
    ASSUME IInv, [Next]_vars
    PROVE  IInv' /\ [Careful]_vars /\ [Adopts]_vars
<1>1. CASE UNCHANGED vars
  BY <1>1 DEF vars, prismVars, drVars, passVars, IInv, TypeOK, PrismTypeOK, AvoidInv,
              FoundInv, MemInv
<1>2. CASE StartDelete \/ StartFind \/ StartReady
  BY <1>2, StartKeeps
<1>3. CASE Recorded \/ RecordedGet
  BY <1>3, RecordedKeeps
<1>4. CASE Recovered \/ RecoveredGet
  BY <1>4, RecoveredKeeps
<1>5. CASE FindVM \/ FindVMRole
  BY <1>5, FindVMKeeps
<1>6. CASE ListByName \/ CheckOne \/ CheckGet
  BY <1>6, ByNameKeeps
<1>7. CASE Listed
  BY <1>7, ListedKeeps
<1>8. CASE CheckTasks \/ LookupFails
  BY <1>8, ChecksKeep
<1>9. CASE DeleteAct
  BY <1>9, DeleteActKeeps
<1>10. CASE PowerOnVM
  BY <1>10, PowerOnKeeps
<1>11. CASE SyncVmUUID
  BY <1>11, SyncKeeps
<1>12. CASE EndPass \/ Crash
  BY <1>12, EndKeeps
<1>13. CASE UserDeletes
  BY <1>13, UserDeletesKeeps
<1>14. ASSUME NEW v \in VMs, DisasterRecovery(v) \/ NodeReports(v) \/ PrismStep(v)
       PROVE  IInv' /\ Careful /\ Adopts
  BY <1>14, DisasterRecoveryKeeps, NodeReportsKeeps, PrismStepKeeps
<1> QED
  BY <1>1, <1>2, <1>3, <1>4, <1>5, <1>6, <1>7, <1>8, <1>9, <1>10, <1>11, <1>12, <1>13,
     <1>14 DEF Next, Reconcile

\* Every variable of the lookups, the object and disaster recovery keeps its type; in
\* particular GetVMUUID always has a VM to name.
THEOREM TypeCorrect == Spec => []TypeOK
<1>1. Init => IInv
  BY Initial
<1>2. IInv /\ [Next]_vars => IInv'
  BY Step
<1>3. IInv => TypeOK
  BY DEF IInv
<1> QED
  BY <1>1, <1>2, <1>3, PTL DEF Spec

\* No pass changes a VM that was decoupled when the pass began, however many
\* fail-overs, faults and VMs there are: what vmToDelete, resolveRecoveredVMForDelete
\* and FindVM hand on is never one.
THEOREM DecoupledIsLeft == Spec => LeavesDecoupled
<1>1. Init => IInv
  BY Initial
<1>2. IInv /\ [Next]_vars => IInv'
  BY Step
<1>3. IInv /\ [Next]_vars => [Careful]_vars
  BY Step
<1> QED
  BY <1>1, <1>2, <1>3, PTL DEF Spec, LeavesDecoupled, Careful

\* Nor does one record the UUID of such a VM before the node has reported, unless
\* disaster recovery removed it since: FindVM and syncVmUUID only take over a VM that
\* may be used, but for one that goes between FindVM's Get and its look at the role.
THEOREM DecoupledIsNotAdopted == Spec => AdoptsNoDecoupled
<1>1. Init => IInv
  BY Initial
<1>2. IInv /\ [Next]_vars => IInv'
  BY Step
<1>3. IInv /\ [Next]_vars => [Adopts]_vars
  BY Step
<1> QED
  BY <1>1, <1>2, <1>3, PTL DEF Spec, AdoptsNoDecoupled, Adopts
-----------------------------------------------------------------------------
(* Nothing is left behind.                                                 *)

\* After one fail-over at most, the only VMs there ever are: the one the machine
\* was made with, and a successor of it.
WorldInv ==
    /\ \A v \in VMs :
          /\ vmState[v] \in {"none", "off", "on", "gone"}
          /\ tasks[v] # {} => vmState[v] # "none"
          /\ v \in removed => vmState[v] = "gone"
    /\ vmState[Original] # "none"
    /\ failovers = 0 => decoupled = {} /\ removed = {} /\ ~pending
    /\ failovers = 1 =>
          /\ Original \in decoupled \cup removed
          /\ decoupled \cup removed \subseteq {Original}
          /\ pending => Original \in decoupled
          /\ \A v, w \in VMs \ {Original} :
                vmState[v] # "none" /\ vmState[w] # "none" => v = w
    /\ failovers = 0 \/ (failovers = 1 /\ pending) =>
          \A v \in VMs \ {Original} : vmState[v] = "none"

\* Nothing but disaster recovery takes a decoupled VM away.
LivesInv == \A v \in decoupled : Exists(v)

\* A UUID that anybody holds is that of a VM there is or was.
Known(v) == v # None => vmState[v] # "none"
NamesInv ==
    /\ Known(sys) /\ Known(found)
    /\ Known(nm.uuid) /\ Known(nm.recovered)
    /\ Known(mem.uuid) /\ Known(mem.recovered)
    /\ \A v \in index \cup cands \cup usable : Known(v)
    /\ pc = "recoveredGet" => found = mem.recovered

\* The recorded VM is gone, and a list by name shows whatever lives.
Listable ==
    /\ ~pending
    /\ failovers = 0 => ~Exists(Original)
    /\ \A v \in VMs : Exists(v) /\ v \notin decoupled => v \in index

\* Disaster recovery removes a VM only long after it has recovered it.
SeenInv == removed # {} /\ failovers <= 1 => Listable

\* A lookup that may end with the release of the machine misses no VM.
Looking == {"recovered", "recoveredGet", "list", "check", "checkGet"}
ToSee == IF pc = "checkGet" THEN cands \cup {found} ELSE cands
GoneInv ==
    pc \in Looking /\ mode = "gone" /\ failovers <= 1 =>
        /\ Listable
        /\ pc \in {"check", "checkGet"} =>
              \A v \in VMs : Exists(v) /\ v \notin decoupled => v \in ToSee \cup usable

\* A machine is released, or about to be, only when nothing of it lives or will.
AllGone == ~pending /\ \A v \in VMs : Exists(v) => v \in decoupled
Freed(m) == ~m.fin /\ failovers <= 1 /\ m.recovered \notin removed => AllGone
FreedInv ==
    /\ Freed(nm) /\ Freed(mem)
    /\ pc # "idle" => nm.fin
    /\ pc = "idle" => mem = nm
    /\ pc \notin {"idle", "end"} => mem.fin

XInv == WorldInv /\ LivesInv /\ SeenInv /\ NamesInv /\ GoneInv /\ FreedInv

\* VMs come only from a recovery, and stay decoupled once they are.
LEMMA VMsComeAndGo ==
    ASSUME IInv, WorldInv, [Next]_vars
    PROVE  \A v \in VMs :
              /\ vmState[v] # "none" => vmState'[v] # "none"
              /\ Exists(v)' => Exists(v) \/ pending
              /\ Exists(v)' /\ v \in decoupled => v \in decoupled'
              /\ Exists(v)' /\ v \in index => v \in index'
              /\ v \in index' => v \in index \/ Exists(v)
<1> DEFINE Fact == \A v \in VMs :
              /\ vmState[v] # "none" => vmState'[v] # "none"
              /\ Exists(v)' => Exists(v) \/ pending
              /\ Exists(v)' /\ v \in decoupled => v \in decoupled'
              /\ Exists(v)' /\ v \in index => v \in index'
              /\ v \in index' => v \in index \/ Exists(v)
<1> USE DEF Exists
<1>1. vmState \in [VMs -> VMStates]
  BY DEF IInv, TypeOK, PrismTypeOK
<1>2. CASE UNCHANGED <<vmState, decoupled, index>>
  BY <1>2
<1>3. CASE PowerOnVM
  <2>1. CASE UNCHANGED vmState
    BY <1>3, <2>1 DEF PowerOnVM, PowerOn, Return, prismVars, drVars
  <2>2. CASE PowerOn(found)
    BY <1>1, <1>3, <2>2 DEF PowerOnVM, PowerOn, drVars
  <2> QED
    BY <1>3, <2>1, <2>2 DEF PowerOnVM, prismVars
<1>4. ASSUME NEW v \in VMs, Failover(v)
      PROVE  Fact
  BY <1>4 DEF Failover, prismVars
<1>5. ASSUME NEW v \in VMs, Recover(v)
      PROVE  Fact
  BY <1>1, <1>5 DEF Recover
<1>6. ASSUME NEW v \in VMs, DRRemoves(v)
      PROVE  Fact
  BY <1>1, <1>6 DEF DRRemoves, OperatorDestroys
<1>7. ASSUME NEW v \in VMs, PrismStep(v)
      PROVE  Fact
  <2>1. decoupled' = decoupled
    BY <1>7 DEF PrismStep, drVars
  <2>2. CASE CreateDone(v) \/ DetachDone(v) \/ DeleteDone(v)
    BY <1>1, <2>1, <2>2 DEF CreateDone, DetachDone, DeleteDone, WorldInv
  <2>3. CASE IndexCatchesUp(v)
    BY <2>1, <2>3 DEF IndexCatchesUp
  <2> QED
    BY <1>7, <2>2, <2>3 DEF PrismStep, PrismTask
<1>8. CASE DeleteAct
  BY <1>2, <1>8 DEF DeleteAct, StartTask, drVars
<1>9. CASE Reconcile /\ ~DeleteAct /\ ~PowerOnVM
  <2>1. Quiet \/ SyncVmUUID \/ EndPass
    BY <1>9 DEF Reconcile, StartDelete, StartFind, StartReady, Start, Recorded, RecordedGet,
       Recovered, RecoveredGet, FindVM, FindVMRole, ListByName, CheckOne, CheckGet, Listed, CheckTasks, LookupFails, CallFails
  <2> QED
    BY <1>2, <2>1 DEF Quiet, SyncVmUUID, EndPass, prismVars, drVars
<1>10. CASE UNCHANGED vars \/ Crash \/ UserDeletes \/ \E v \in VMs : NodeReports(v)
  BY <1>2, <1>10 DEF vars, Crash, UserDeletes, NodeReports, prismVars, drVars
<1> QED
  BY <1>3, <1>4, <1>5, <1>6, <1>7, <1>8, <1>9, <1>10 DEF Next, DisasterRecovery

\* There is nothing to recover but what is being recovered.
LEMMA PendingStep ==
    ASSUME [Next]_vars, ~pending, pending'
    PROVE  \E v \in VMs : Failover(v)
<1>1. CASE Reconcile
  BY <1>1 DEF Reconcile, StartDelete, StartFind, StartReady, Start, Recorded, RecordedGet,
       Recovered, RecoveredGet, FindVM, FindVMRole, ListByName, CheckOne, CheckGet, Listed, CheckTasks, LookupFails, CallFails, Quiet,
       DeleteAct, PowerOnVM, SyncVmUUID, EndPass, drVars
<1>2. CASE UNCHANGED vars \/ Crash \/ UserDeletes
  BY <1>2 DEF vars, Crash, UserDeletes, drVars
<1>3. ASSUME NEW v \in VMs, Recover(v) \/ DRRemoves(v) \/ NodeReports(v) \/ PrismStep(v)
      PROVE  FALSE
  BY <1>3 DEF Recover, DRRemoves, NodeReports, PrismStep, drVars
<1> QED
  BY <1>1, <1>2, <1>3 DEF Next, DisasterRecovery

LEMMA AllGoneStays ==
    ASSUME IInv, WorldInv, [Next]_vars, AllGone
    PROVE  AllGone'
<1>1. ~pending'
  BY PendingStep DEF AllGone, Failover
<1>2. ASSUME NEW v \in VMs, Exists(v)' PROVE v \in decoupled'
  BY <1>2, VMsComeAndGo DEF AllGone
<1> QED
  BY <1>1, <1>2 DEF AllGone

\* The fail-overs of a step.
LEMMA FailoverStep ==
    ASSUME IInv, [Next]_vars
    PROVE  /\ failovers' \in {failovers, failovers + 1}
           /\ failovers' # failovers => \E w \in VMs : Failover(w)
           /\ failovers \in Nat
<1>1. failovers \in Nat
  BY DEF IInv, TypeOK
<1>2. CASE Reconcile
  BY <1>1, <1>2 DEF Reconcile, StartDelete, StartFind, StartReady, Start, Recorded, RecordedGet,
       Recovered, RecoveredGet, FindVM, FindVMRole, ListByName, CheckOne, CheckGet, Listed, CheckTasks, LookupFails, CallFails, Quiet,
       DeleteAct, PowerOnVM, SyncVmUUID, EndPass, drVars
<1>3. CASE UNCHANGED vars \/ Crash \/ UserDeletes
  BY <1>1, <1>3 DEF vars, Crash, UserDeletes, drVars
<1>4. ASSUME NEW w \in VMs, Recover(w) \/ DRRemoves(w) \/ NodeReports(w) \/ PrismStep(w)
      PROVE  failovers' = failovers
  BY <1>4 DEF Recover, DRRemoves, NodeReports, PrismStep, drVars
<1>5. ASSUME NEW w \in VMs, Failover(w)
      PROVE  failovers' = failovers + 1
  BY <1>5 DEF Failover
<1> QED
  BY <1>1, <1>2, <1>3, <1>4, <1>5 DEF Next, DisasterRecovery

LEMMA ListableStays ==
    ASSUME IInv, WorldInv, [Next]_vars, Listable, failovers' =< 1
    PROVE  Listable'
<1>1. Original \in VMs /\ failovers \in Nat
  BY DEF IInv, TypeOK
<1>2. ASSUME NEW v \in VMs, Failover(v)
      PROVE  FALSE
  <2>1. failovers = 0 /\ Exists(v)
    BY <1>1, <1>2 DEF Failover
  <2>2. v = Original
    BY <2>1 DEF WorldInv, Exists
  <2> QED
    BY <2>1, <2>2 DEF Listable
<1>3. ~pending' /\ failovers' = failovers
  BY <1>1, <1>2, PendingStep, FailoverStep DEF Listable
<1>4. \A v \in VMs : Exists(v)' => Exists(v)
  BY VMsComeAndGo DEF Listable
<1>5. ASSUME NEW v \in VMs, Exists(v)', v \notin decoupled'
      PROVE  v \in index'
  BY <1>4, <1>5, VMsComeAndGo DEF Listable
<1> QED
  BY <1>1, <1>3, <1>4, <1>5 DEF Listable

\* While there was one fail-over at most, the VMs are those of WorldInv.
LEMMA SameWorld ==
    ASSUME WorldInv, UNCHANGED <<vmState, tasks, decoupled, pending, removed, failovers>>
    PROVE  WorldInv'
BY DEF WorldInv

LEMMA WorldKeeps ==
    ASSUME IInv, WorldInv, [Next]_vars
    PROVE  WorldInv'
<1>1. /\ vmState \in [VMs -> VMStates] /\ tasks \in [VMs -> SUBSET {"detach", "delete"}]
      /\ failovers \in Nat /\ Original \in VMs /\ decoupled \subseteq VMs
  BY DEF IInv, TypeOK, PrismTypeOK
<1>2. CASE DeleteAct
  <2>1. UNCHANGED <<vmState, decoupled, pending, removed, failovers>>
    BY <1>2 DEF DeleteAct, StartTask, drVars
  <2>2. found \in VMs
    BY <1>2 DEF DeleteAct, IInv, TypeOK, OneVM
  <2>3. \A v \in VMs : tasks'[v] # {} => vmState[v] # "none"
    BY <1>1, <1>2, <2>2 DEF DeleteAct, StartTask, Exists, WorldInv
  <2> QED
    BY <2>1, <2>3 DEF WorldInv
<1>3. CASE PowerOnVM
  <2>1. UNCHANGED <<tasks, decoupled, pending, removed, failovers>>
    BY <1>3 DEF PowerOnVM, PowerOn, prismVars, drVars
  <2>2. CASE UNCHANGED vmState
    BY <2>1, <2>2, SameWorld
  <2>3. CASE PowerOn(found) /\ Exists(found)
    <3>1. vmState' = [vmState EXCEPT ![found] = "on"] /\ vmState[found] \in {"off", "on"}
      BY <2>3 DEF PowerOn, Exists
    <3>2. \A v \in VMs : vmState'[v] = vmState[v] \/ (v = found /\ vmState'[v] = "on")
      BY <1>1, <3>1
    <3>3. \A v \in VMs : /\ vmState'[v] = "none" <=> vmState[v] = "none"
                         /\ vmState[v] = "gone" => vmState'[v] = "gone"
                         /\ vmState'[v] \in {"none", "off", "on", "gone"}
      BY <3>1, <3>2 DEF WorldInv
    <3> QED
      BY <1>1, <2>1, <3>3 DEF WorldInv
  <2> QED
    BY <1>3, <2>2, <2>3 DEF PowerOnVM, prismVars
<1>4. ASSUME NEW v \in VMs, Failover(v)
      PROVE  WorldInv'
  <2>1. /\ UNCHANGED <<vmState, tasks, removed>> /\ Exists(v)
        /\ decoupled' = decoupled \cup {v} /\ pending' /\ failovers' = failovers + 1
    BY <1>4 DEF Failover, prismVars
  <2>2. failovers = 0 => v = Original
    BY <2>1 DEF WorldInv, Exists
  <2>3. CASE failovers = 0
    BY <1>1, <2>1, <2>2, <2>3 DEF WorldInv
  <2>4. CASE failovers # 0
    <3>1. failovers' # 0 /\ failovers' # 1
      BY <1>1, <2>1, <2>4
    <3> QED
      BY <2>1, <3>1 DEF WorldInv
  <2> QED
    BY <2>3, <2>4
<1>5. ASSUME NEW v \in VMs, Recover(v)
      PROVE  WorldInv'
  <2>1. /\ UNCHANGED <<tasks, decoupled, removed, failovers>> /\ pending /\ ~pending'
        /\ vmState' = [vmState EXCEPT ![v] = "on"] /\ vmState[v] = "none"
    BY <1>5 DEF Recover
  <2>2. failovers # 0 /\ v # Original
    BY <2>1 DEF WorldInv
  <2>3. \A w \in VMs : vmState'[w] = IF w = v THEN "on" ELSE vmState[w]
    BY <1>1, <2>1
  <2>4. \A w \in VMs :
          /\ vmState'[w] \in {"none", "off", "on", "gone"}
          /\ tasks'[w] # {} => vmState'[w] # "none"
          /\ w \in removed' => vmState'[w] = "gone"
    BY <2>1, <2>3 DEF WorldInv
  <2>5. ASSUME failovers = 1
        PROVE  \A w \in VMs \ {Original} : vmState'[w] # "none" => w = v
    BY <2>1, <2>3, <2>5 DEF WorldInv
  <2>6. failovers' = 1 =>
          /\ Original \in decoupled' \cup removed'
          /\ decoupled' \cup removed' \subseteq {Original}
          /\ \A x, w \in VMs \ {Original} :
                vmState'[x] # "none" /\ vmState'[w] # "none" => x = w
    BY <2>1, <2>5 DEF WorldInv
  <2>7. vmState'[Original] # "none"
    BY <1>1, <2>2, <2>3 DEF WorldInv
  <2> QED
    BY <2>1, <2>2, <2>4, <2>6, <2>7 DEF WorldInv
<1>6. ASSUME NEW v \in VMs, DRRemoves(v)
      PROVE  WorldInv'
  <2>1. /\ UNCHANGED <<pending, failovers>> /\ v \in decoupled /\ ~pending
        /\ decoupled' = decoupled \ {v} /\ removed' = removed \cup {v}
        /\ vmState' = [vmState EXCEPT ![v] = "gone"] /\ tasks' = [tasks EXCEPT ![v] = {}]
        /\ vmState[v] # "none"
    BY <1>6 DEF DRRemoves, OperatorDestroys, Exists
  <2>2. \A w \in VMs : /\ vmState'[w] = IF w = v THEN "gone" ELSE vmState[w]
                       /\ tasks'[w] = IF w = v THEN {} ELSE tasks[w]
    BY <1>1, <2>1
  <2>3. \A w \in VMs :
          /\ vmState'[w] \in {"none", "off", "on", "gone"}
          /\ tasks'[w] # {} => vmState'[w] # "none"
          /\ w \in removed' => vmState'[w] = "gone"
          /\ vmState'[w] = "none" <=> vmState[w] = "none"
    BY <2>1, <2>2 DEF WorldInv
  <2>4. failovers # 0
    BY <2>1 DEF WorldInv
  <2> QED
    BY <1>1, <2>1, <2>3, <2>4 DEF WorldInv
<1>7. ASSUME NEW v \in VMs, PrismStep(v)
      PROVE  WorldInv'
  <2>1. UNCHANGED <<decoupled, pending, removed, failovers>>
    BY <1>7 DEF PrismStep, drVars
  <2>2. CASE IndexCatchesUp(v)
    BY <2>1, <2>2, SameWorld DEF IndexCatchesUp
  <2>3. CASE DetachDone(v) \/ DeleteDone(v) \/ CreateDone(v)
    <3>1. \A w \in VMs :
            /\ vmState'[w] \in {"none", "off", "on", "gone"}
            /\ tasks'[w] # {} => vmState'[w] # "none"
            /\ w \in removed' => vmState'[w] = "gone"
            /\ vmState'[w] = "none" <=> vmState[w] = "none"
      BY <1>1, <2>1, <2>3 DEF DetachDone, DeleteDone, CreateDone, WorldInv
    <3> QED
      BY <1>1, <2>1, <3>1 DEF WorldInv
  <2> QED
    BY <1>7, <2>2, <2>3 DEF PrismStep, PrismTask
<1>8. CASE Reconcile /\ ~DeleteAct /\ ~PowerOnVM
  <2>1. Quiet \/ SyncVmUUID \/ EndPass
    BY <1>8 DEF Reconcile, StartDelete, StartFind, StartReady, Start, Recorded, RecordedGet,
       Recovered, RecoveredGet, FindVM, FindVMRole, ListByName, CheckOne, CheckGet, Listed, CheckTasks, LookupFails, CallFails
  <2> QED
    BY <2>1, SameWorld DEF Quiet, SyncVmUUID, EndPass, prismVars, drVars
<1>9. CASE UNCHANGED vars \/ Crash \/ UserDeletes \/ \E v \in VMs : NodeReports(v)
  BY <1>9, SameWorld DEF vars, Crash, UserDeletes, NodeReports, prismVars, drVars
<1> QED
  BY <1>2, <1>3, <1>4, <1>5, <1>6, <1>7, <1>8, <1>9 DEF Next, DisasterRecovery

LEMMA LivesKeeps ==
    ASSUME IInv, LivesInv, [Next]_vars
    PROVE  LivesInv'
<1>1. vmState \in [VMs -> VMStates] /\ decoupled \subseteq VMs /\ \A v \in decoupled : vmState[v] \in {"off", "on"}
  BY DEF IInv, TypeOK, PrismTypeOK, LivesInv, Exists
<1>2. CASE UNCHANGED <<vmState, decoupled>>
  BY <1>2 DEF LivesInv, Exists
<1>3. CASE PowerOnVM
  <2>1. decoupled' = decoupled /\ (vmState' = vmState \/ vmState' = [vmState EXCEPT ![found] = "on"])
    BY <1>3 DEF PowerOnVM, PowerOn, prismVars, drVars
  <2> QED
    BY <1>1, <2>1 DEF LivesInv, Exists
<1>4. ASSUME NEW v \in VMs, DisasterRecovery(v)
      PROVE  LivesInv'
  BY <1>1, <1>4
     DEF DisasterRecovery, Failover, Recover, DRRemoves, OperatorDestroys, prismVars, LivesInv, Exists
<1>5. ASSUME NEW v \in VMs, PrismStep(v)
      PROVE  LivesInv'
  <2>1. decoupled' = decoupled
    BY <1>5 DEF PrismStep, drVars
  <2>2. \A w \in VMs : w \in decoupled => vmState'[w] = vmState[w]
    BY <1>1, <1>5 DEF PrismStep, PrismTask, CreateDone, DetachDone, DeleteDone, IndexCatchesUp
  <2> QED
    BY <1>1, <2>1, <2>2 DEF LivesInv, Exists
<1>6. CASE DeleteAct
  BY <1>2, <1>6 DEF DeleteAct, StartTask, drVars
<1>7. CASE Reconcile /\ ~DeleteAct /\ ~PowerOnVM
  <2>1. Quiet \/ SyncVmUUID \/ EndPass
    BY <1>7 DEF Reconcile, StartDelete, StartFind, StartReady, Start, Recorded, RecordedGet,
       Recovered, RecoveredGet, FindVM, FindVMRole, ListByName, CheckOne, CheckGet, Listed,
       CheckTasks, LookupFails, CallFails
  <2> QED
    BY <1>2, <2>1 DEF Quiet, SyncVmUUID, EndPass, prismVars, drVars
<1>8. CASE UNCHANGED vars \/ Crash \/ UserDeletes \/ \E v \in VMs : NodeReports(v)
  BY <1>2, <1>8 DEF vars, Crash, UserDeletes, NodeReports, prismVars, drVars
<1> QED
  BY <1>3, <1>4, <1>5, <1>6, <1>7, <1>8 DEF Next

LEMMA SeenKeeps ==
    ASSUME IInv, WorldInv, SeenInv, [Next]_vars
    PROVE  SeenInv'
<1>1. failovers \in Nat /\ failovers' \in {failovers, failovers + 1}
  BY FailoverStep
<1>2. SUFFICES ASSUME removed' # {}, failovers' <= 1
               PROVE  Listable'
  BY DEF SeenInv
<1>3. CASE removed # {}
  <2>1. failovers <= 1
    BY <1>1, <1>2
  <2> QED
    BY <1>2, <1>3, <2>1, ListableStays DEF SeenInv
<1>4. CASE removed = {}
  <2>1. PICK v \in VMs : DRRemoves(v)
    BY <1>2, <1>4 DEF Next, vars, Reconcile, StartDelete, StartFind, StartReady, Start,
       Recorded, RecordedGet, Recovered, RecoveredGet, FindVM, FindVMRole, ListByName,
       CheckOne, CheckGet, Listed, CheckTasks, LookupFails,
       CallFails, Quiet, DeleteAct, PowerOnVM, SyncVmUUID, EndPass, drVars, Crash,
       UserDeletes, DisasterRecovery, Failover, Recover, NodeReports, PrismStep
  <2>2. /\ ~pending' /\ index' = index /\ failovers' = failovers
        /\ \A w \in VMs : Exists(w) => w \in index
        /\ v \in decoupled
    BY <2>1 DEF DRRemoves, OperatorDestroys
  <2>3. \A w \in VMs : Exists(w)' => Exists(w)
    BY <2>1, VMsComeAndGo DEF DRRemoves
  <2>4. failovers' # 0
    BY <2>2 DEF WorldInv
  <2> QED
    BY <2>2, <2>3, <2>4 DEF Listable
<1> QED
  BY <1>3, <1>4

\* A step within a pass that changes nothing outside it.
LEMMA QuietStays ==
    ASSUME XInv, Quiet
    PROVE  /\ WorldInv' /\ LivesInv' /\ SeenInv' /\ Known(sys)' /\ Known(nm.uuid)' /\ Known(nm.recovered)'
           /\ Freed(nm)' /\ UNCHANGED <<vmState, index, nm, sys, decoupled, pending, removed, failovers>>
           /\ \A v \in VMs : Exists(v)' <=> Exists(v)
<1>1. UNCHANGED <<vmState, tasks, index, nm, sys, decoupled, pending, removed, failovers>>
  BY DEF Quiet, prismVars, drVars
<1> QED
  BY <1>1, SameWorld DEF XInv, LivesInv, SeenInv, Listable, NamesInv, Known, FreedInv, Freed, AllGone,
     Exists

\* On with the lookup, or with the task that the VM is free for.
LEMMA GotoLooks ==
    ASSUME IInv, XInv, Quiet, pc \notin {"idle", "end"},
           NEW l \in {"recovered", "list", "act"}, NEW m \in NM,
           NEW how \in {"wait", "gone", "error"}, Goto(l, m, how),
           m.fin, m.uuid = mem.uuid, m.recovered \in {mem.recovered, None},
           l # "act" /\ how = "gone" /\ failovers =< 1 => Listable
    PROVE  XInv'
<1>1. pc' = l /\ mem' = m /\ mode' = how /\ UNCHANGED <<cands, usable, found>>
  BY DEF Goto
<1>2. NamesInv'
  BY <1>1, QuietStays DEF XInv, NamesInv, Known
<1>3. GoneInv'
  <2>1. l # "act" /\ how = "gone" /\ failovers =< 1 => Listable'
    BY QuietStays DEF Listable, Exists
  <2>2. l \notin {"check", "checkGet"}
    OBVIOUS
  <2> QED
    BY <1>1, <2>1, <2>2, QuietStays DEF GoneInv, Looking
<1>4. FreedInv'
  BY <1>1, QuietStays DEF XInv, FreedInv, Freed
<1> QED
  BY <1>2, <1>3, <1>4, QuietStays DEF XInv

\* On to a Get of a VM that a list did not bring.
LEMMA AskLooks ==
    ASSUME IInv, XInv, Quiet, pc \notin {"idle", "end"}, NEW v \in VMs, Known(v),
           \/ Ask("recordedGet", v)
           \/ pc = "recovered" /\ v = mem.recovered /\ Ask("recoveredGet", v)
    PROVE  XInv'
<1>1. /\ pc' \in {"recordedGet", "recoveredGet"} /\ found' = v
      /\ UNCHANGED <<mem, mode, cands, usable>>
      /\ pc' = "recoveredGet" => v = mem.recovered
  BY DEF Ask
<1>2. NamesInv'
  BY <1>1, QuietStays DEF XInv, NamesInv, Known
<1>3. GoneInv'
  <2>1. SUFFICES ASSUME pc' \in Looking, mode = "gone", failovers =< 1
                 PROVE  Listable'
    BY <1>1, QuietStays DEF GoneInv
  <2>2. pc = "recovered"
    BY <2>1 DEF Ask, Looking
  <2>3. Listable
    BY <2>1, <2>2 DEF XInv, GoneInv, Looking
  <2> QED
    BY <2>3, QuietStays DEF Listable, Exists
<1>4. FreedInv'
  BY <1>1, QuietStays DEF XInv, FreedInv, Freed
<1> QED
  BY <1>2, <1>3, <1>4, QuietStays DEF XInv

LEMMA WorkLooks ==
    ASSUME IInv, XInv, Quiet, pc \notin {"idle", "end"},
           NEW v \in VMs, vmState[v] # "none", NEW s, NEW m \in NM, Work(v, s, m),
           m.fin, m.uuid = mem.uuid, m.recovered \in {mem.recovered, v}
    PROVE  XInv'
<1>1. /\ pc' \in {"sync", "power", "tasks"} /\ mem' = m /\ found' = v
      /\ cands' = {} /\ usable' = {}
  BY DEF Work
<1>2. NamesInv'
  BY <1>1, QuietStays DEF XInv, NamesInv, Known
<1>3. GoneInv'
  BY <1>1 DEF GoneInv, Looking
<1>4. FreedInv'
  BY <1>1, QuietStays DEF XInv, FreedInv, Freed
<1> QED
  BY <1>2, <1>3, <1>4, QuietStays DEF XInv

\* The pass returns, with a machine that it may release.
LEMMA ReturnLooks ==
    ASSUME IInv, XInv, Quiet, pc \notin {"idle", "end"},
           NEW m \in NM, Return(m), Freed(m), m.uuid = mem.uuid, m.recovered = mem.recovered
    PROVE  XInv'
<1>1. pc' = "end" /\ mem' = m /\ cands' = {} /\ usable' = {} /\ found' = None
  BY DEF Return
<1>2. NamesInv'
  BY <1>1, QuietStays DEF XInv, NamesInv, Known
<1>3. GoneInv'
  BY <1>1 DEF GoneInv, Looking
<1>4. FreedInv'
  BY <1>1, QuietStays DEF XInv, FreedInv, Freed, AllGone, Exists
<1> QED
  BY <1>2, <1>3, <1>4, QuietStays DEF XInv

LEMMA MayReturn ==
    ASSUME IInv, XInv, pc \notin {"idle", "end"}
    PROVE  mem \in NM /\ mem.fin /\ Freed(mem)
BY DEF IInv, TypeOK, XInv, FreedInv, Freed

LEMMA ReleaseLooks ==
    ASSUME IInv, XInv, Quiet, pc \notin {"idle", "end"}, Release(mem),
           failovers <= 1 /\ mem.recovered \notin removed => AllGone
    PROVE  XInv'
<1> DEFINE m == [mem EXCEPT !.fin = FALSE]
<1>1. m \in NM /\ m.uuid = mem.uuid /\ m.recovered = mem.recovered
  BY MayReturn DEF NM
<1>2. Freed(m)
  BY <1>1 DEF Freed
<1>3. Return(m)
  BY DEF Release
<1> HIDE DEF m
<1> QED
  BY <1>1, <1>2, <1>3, ReturnLooks

-----------------------------------------------------------------------------
LEMMA StartLooks ==
    ASSUME IInv, XInv, StartDelete \/ StartFind \/ StartReady
    PROVE  XInv'
<1>1. PICK l \in {"recorded", "find", "sync"}, v \in {GetVMUUID, nm.uuid} : Start(l, v)
  BY DEF StartDelete, StartFind, StartReady
<1>2. /\ Quiet /\ pc = "idle" /\ nm.fin /\ pc' = l /\ mem' = nm
      /\ mode' = "error" /\ cands' = {} /\ usable' = {} /\ found' = v
  BY <1>1 DEF Start
<1>3. NamesInv'
  <2>1. Known(v)
    BY DEF GetVMUUID, XInv, NamesInv, Known, WorldInv
  <2> QED
    BY <1>2, <2>1, QuietStays DEF XInv, NamesInv, Known
<1>4. GoneInv'
  BY <1>2 DEF GoneInv, Looking
<1>5. FreedInv'
  BY <1>2, QuietStays DEF XInv, FreedInv, Freed
<1> QED
  BY <1>2, <1>3, <1>4, <1>5, QuietStays DEF XInv

\* The VM that the machine names is gone.
LEMMA NamedIsGone ==
    ASSUME IInv, XInv, NEW v \in VMs, Known(v), ~Exists(v), v \notin decoupled \cup removed,
           failovers <= 1
    PROVE  AllGone
<1>1. v # None /\ vmState[v] \in {"gone"}
  BY NoneAssumption DEF Known, Exists, XInv, WorldInv
<1>2. failovers \in {0, 1}
  BY DEF IInv, TypeOK
<1>3. CASE failovers = 0
  BY <1>1, <1>3 DEF XInv, WorldInv, AllGone, Exists
<1>4. CASE failovers = 1
  <2>1. v # Original /\ ~pending
    BY <1>1, <1>4 DEF XInv, WorldInv
  <2>2. ASSUME NEW w \in VMs, Exists(w), w \notin decoupled
        PROVE  FALSE
    <3>1. w # Original
      BY <1>4, <2>2 DEF XInv, WorldInv, Exists
    <3>2. w = v
      BY <1>1, <1>4, <2>1, <2>2, <3>1 DEF XInv, WorldInv, Exists
    <3> QED
      BY <2>2, <3>2
  <2> QED
    BY <2>1, <2>2 DEF AllGone
<1> QED
  BY <1>2, <1>3, <1>4

LEMMA FoundIsKnown ==
    ASSUME IInv, XInv, pc \in OneVM
    PROVE  found \in VMs /\ Known(found) /\ vmState[found] # "none"
BY NoneAssumption DEF IInv, TypeOK, XInv, NamesInv, Known

LEMMA RecordedLooks ==
    ASSUME IInv, XInv, Recorded \/ RecordedGet
    PROVE  XInv'
<1>1. Quiet /\ pc \in {"recorded", "recordedGet"} /\ mem \in NM /\ mem.fin
  BY MayReturn DEF Recorded, RecordedGet
<1>2. found \in VMs /\ Known(found) /\ vmState[found] # "none"
  BY <1>1, FoundIsKnown DEF OneVM
<1>3. CASE Goto("recovered", [mem EXCEPT !.skipped = found], "wait")
  <2> DEFINE m == [mem EXCEPT !.skipped = found]
  <2>1. m \in NM /\ m.uuid = mem.uuid /\ m.fin /\ m.recovered = mem.recovered
    BY <1>1, <1>2 DEF NM
  <2> HIDE DEF m
  <2>2. Goto("recovered", m, "wait")
    BY <1>3 DEF m
  <2> QED
    BY <1>1, <2>1, <2>2, GotoLooks
<1>4. CASE Ask("recordedGet", found)
  BY <1>1, <1>2, <1>4, AskLooks
<1>5. CASE Work(found, See(found), mem)
  BY <1>1, <1>2, <1>5, WorkLooks
<1>6. CASE ~Exists(found) /\ Goto("recovered", mem, "gone")
  <2>1. ASSUME failovers <= 1
        PROVE  Listable
    <3>1. found \notin decoupled
      BY <1>2, <1>6 DEF XInv, LivesInv
    <3>2. CASE found \notin removed
      <4>1. AllGone
        BY <1>2, <1>6, <2>1, <3>1, <3>2, NamedIsGone
      <4> QED
        BY <4>1 DEF AllGone, Listable, XInv, WorldInv
    <3>3. CASE found \in removed
      BY <2>1, <3>3 DEF XInv, SeenInv
    <3> QED
      BY <3>2, <3>3
  <2> QED
    BY <1>1, <1>6, <2>1, GotoLooks
<1>7. CASE Goto("recovered", mem, "error")
  BY <1>1, <1>7, GotoLooks
<1> QED
  BY <1>3, <1>4, <1>5, <1>6, <1>7 DEF Recorded, RecordedGet

LEMMA RecoveredLooks ==
    ASSUME IInv, XInv, Recovered
    PROVE  XInv'
<1> DEFINE r == mem.recovered
<1>1. r \in VMs \cup {None} /\ Known(r)
  BY DEF IInv, TypeOK, NM, XInv, NamesInv
<1>2. Quiet /\ pc = "recovered" /\ mem \in NM /\ mem.fin
  BY MayReturn DEF Recovered
<1>3. mode \in {"wait", "gone", "error"} /\ (mode = "gone" /\ failovers =< 1 => Listable)
  BY <1>2 DEF IInv, TypeOK, XInv, GoneInv, Looking
<1>4. CASE Goto("list", mem, mode)
  BY <1>2, <1>3, <1>4, GotoLooks
<1>5. CASE Goto("list", [mem EXCEPT !.recovered = None], mode)
  <2> DEFINE m == [mem EXCEPT !.recovered = None]
  <2>1. m \in NM /\ m.uuid = mem.uuid /\ m.fin /\ m.recovered = None
    BY <1>2 DEF NM
  <2>2. Goto("list", m, mode)
    BY <1>5
  <2> HIDE DEF m
  <2> QED
    BY <1>2, <1>3, <2>1, <2>2, GotoLooks
<1>6. CASE r # None /\ Ask("recoveredGet", r)
  BY <1>1, <1>2, <1>6, AskLooks
<1> QED
  BY <1>4, <1>5, <1>6 DEF Recovered

LEMMA RecoveredGetLooks ==
    ASSUME IInv, XInv, RecoveredGet
    PROVE  XInv'
<1>1. Quiet /\ pc = "recoveredGet" /\ mem \in NM /\ mem.fin /\ Freed(mem) /\ found = mem.recovered
  BY MayReturn DEF RecoveredGet, XInv, NamesInv
<1>2. found \in VMs /\ Known(found) /\ vmState[found] # "none"
  BY <1>1, FoundIsKnown DEF OneVM
<1>3. CASE Work(found, See(found), mem)
  BY <1>1, <1>2, <1>3, WorkLooks
<1>4. CASE Return(mem)
  BY <1>1, <1>4, ReturnLooks
<1>5. CASE ~Exists(found) /\ Release(mem)
  <2>1. found \notin decoupled
    BY <1>2, <1>5 DEF XInv, LivesInv
  <2>2. failovers <= 1 /\ found \notin removed => AllGone
    BY <1>2, <1>5, <2>1, NamedIsGone
  <2> QED
    BY <1>1, <1>5, <2>2, ReleaseLooks
<1> QED
  BY <1>3, <1>4, <1>5 DEF RecoveredGet

LEMMA FindVMLooks ==
    ASSUME IInv, XInv, FindVM \/ FindVMRole
    PROVE  XInv'
<1>1. Quiet /\ pc \in {"find", "findRole"} /\ mem \in NM /\ mem.fin
  BY MayReturn DEF FindVM, FindVMRole
<1>2. found \in VMs /\ vmState[found] # "none"
  BY <1>1, FoundIsKnown DEF OneVM
<1>3. CASE Work(found, seen, mem)
  BY <1>1, <1>2, <1>3, WorkLooks
<1>4. CASE Goto("list", mem, "error")
  BY <1>1, <1>4, GotoLooks
<1>5. CASE pc' = "findRole" /\ UNCHANGED <<mem, mode, cands, usable, found, avoid>>
  <2>1. NamesInv'
    BY <1>5, QuietStays, <1>1 DEF XInv, NamesInv, Known
  <2>2. GoneInv'
    BY <1>5 DEF GoneInv, Looking
  <2>3. FreedInv'
    BY <1>1, <1>5, QuietStays DEF XInv, FreedInv, Freed
  <2> QED
    BY <1>1, <2>1, <2>2, <2>3, QuietStays DEF XInv
<1> QED
  BY <1>3, <1>4, <1>5 DEF FindVM, FindVMRole

\* The lists by name: no VM that lives and is not decoupled is lost from sight.
LEMMA ByNameLooks ==
    ASSUME IInv, XInv, ListByName \/ CheckOne \/ CheckGet
    PROVE  XInv'
<1>1. /\ Quiet /\ UNCHANGED <<mem, mode>>
      /\ pc \in {"list", "check", "checkGet"} /\ pc' \in {"check", "checkGet"}
  BY DEF ListByName, CheckOne, CheckGet
<1>2. FreedInv'
  BY <1>1, QuietStays DEF XInv, FreedInv, Freed, AllGone, Exists
<1>3. \A v \in VMs : Exists(v)' <=> Exists(v)
  BY <1>1, QuietStays
<1>4. Listable => Listable'
  BY <1>1, QuietStays DEF Listable, Exists
<1>5. CASE ListByName
  <2>1. cands' = index /\ usable' = {} /\ pc = "list" /\ pc' = "check" /\ UNCHANGED found
    BY <1>5 DEF ListByName
  <2>2. NamesInv'
    BY <1>1, <2>1, QuietStays DEF XInv, NamesInv, Known
  <2>3. GoneInv'
    <3>1. SUFFICES ASSUME mode = "gone", failovers <= 1
                   PROVE  Listable' /\ \A w \in VMs : Exists(w)' /\ w \notin decoupled' => w \in cands'
      BY <1>1, <2>1, QuietStays DEF GoneInv, ToSee
    <3>2. Listable
      BY <2>1, <3>1 DEF XInv, GoneInv, Looking
    <3> QED
      BY <1>1, <1>3, <1>4, <2>1, <3>2, QuietStays DEF Listable
  <2> QED
    BY <1>1, <1>2, <2>2, <2>3, QuietStays DEF XInv
<1>6. CASE CheckOne
  <2>1. PICK v \in cands :
          /\ cands' = cands \ {v}
          /\ IF v \in decoupled THEN UNCHANGED <<pc, found>> ELSE pc' = "checkGet" /\ found' = v
    BY <1>6 DEF CheckOne
  <2>2. pc = "check" /\ UNCHANGED usable /\ v \in VMs
    BY <1>6, <2>1 DEF CheckOne, IInv, TypeOK
  <2>3. \A w \in cands : Known(w)
    BY <2>2 DEF XInv, NamesInv
  <2>4. NamesInv'
    BY <1>1, <2>1, <2>2, <2>3, QuietStays DEF XInv, NamesInv, Known
  <2>5. GoneInv'
    <3>1. SUFFICES ASSUME mode = "gone", failovers <= 1
                   PROVE  /\ Listable'
                          /\ \A w \in VMs : Exists(w)' /\ w \notin decoupled' => w \in ToSee' \cup usable'
      BY <1>1, QuietStays DEF GoneInv
    <3>2. /\ Listable
          /\ \A w \in VMs : Exists(w) /\ w \notin decoupled => w \in cands \cup usable
      BY <2>2, <3>1 DEF XInv, GoneInv, Looking, ToSee
    <3>3. (cands \cup usable) \ decoupled \subseteq ToSee' \cup usable'
      BY <2>1, <2>2 DEF ToSee
    <3> QED
      BY <1>1, <1>3, <1>4, <3>2, <3>3, QuietStays
  <2> QED
    BY <1>1, <1>2, <2>4, <2>5, QuietStays DEF XInv
<1>7. CASE CheckGet
  <2>1. /\ pc = "checkGet" /\ pc' = "check" /\ UNCHANGED <<cands, found>>
        /\ IF Exists(found) THEN usable' = usable \cup {found} ELSE usable' = usable
    BY <1>7 DEF CheckGet
  <2>2. NamesInv'
    BY <1>1, <2>1, QuietStays DEF XInv, NamesInv, Known, ToSee
  <2>3. GoneInv'
    <3>1. SUFFICES ASSUME mode = "gone", failovers <= 1
                   PROVE  /\ Listable'
                          /\ \A w \in VMs : Exists(w)' /\ w \notin decoupled' => w \in cands' \cup usable'
      BY <1>1, <2>1, QuietStays DEF GoneInv, ToSee
    <3>2. /\ Listable
          /\ \A w \in VMs : Exists(w) /\ w \notin decoupled => w \in cands \cup {found} \cup usable
      BY <2>1, <3>1 DEF XInv, GoneInv, Looking, ToSee
    <3> QED
      BY <1>1, <1>3, <1>4, <2>1, <3>2, QuietStays
  <2> QED
    BY <1>1, <1>2, <2>2, <2>3, QuietStays DEF XInv
<1> QED
  BY <1>5, <1>6, <1>7

LEMMA ListedLooks ==
    ASSUME IInv, XInv, Listed
    PROVE  XInv'
<1>1. Quiet /\ pc = "check" /\ cands = {} /\ mem \in NM /\ mem.fin /\ Freed(mem)
  BY MayReturn DEF Listed
<1>2. CASE Return(mem)
  BY <1>1, <1>2, ReturnLooks
<1>3. CASE usable = {} /\ mode = "gone" /\ Release(mem)
  <2>1. failovers <= 1 => AllGone
    BY <1>1, <1>3 DEF XInv, GoneInv, Looking, ToSee, Listable, AllGone
  <2> QED
    BY <1>1, <1>3, <2>1, ReleaseLooks
<1>4. ASSUME NEW v \in VMs, usable = {v},
             Work(v, seen, IF mem.del THEN [mem EXCEPT !.recovered = v] ELSE mem)
      PROVE  XInv'
  <2> DEFINE m == IF mem.del THEN [mem EXCEPT !.recovered = v] ELSE mem
  <2>1. m \in NM /\ m.uuid = mem.uuid /\ m.fin /\ m.recovered \in {mem.recovered, v}
    BY <1>1 DEF NM
  <2>2. vmState[v] # "none"
    BY <1>4, NoneAssumption DEF XInv, NamesInv, Known
  <2>3. Work(v, seen, m)
    BY <1>4
  <2> HIDE DEF m
  <2> QED
    BY <1>1, <2>1, <2>2, <2>3, WorkLooks
<1> QED
  BY <1>2, <1>3, <1>4 DEF Listed

LEMMA ChecksLook ==
    ASSUME IInv, XInv, CheckTasks \/ LookupFails
    PROVE  XInv'
<1>1. Quiet /\ pc \notin {"idle", "end"} /\ mem \in NM /\ mem.fin /\ Freed(mem)
  <2>1. Quiet /\ pc \notin {"idle", "end"}
    BY DEF CheckTasks, LookupFails, CallFails, OneVM
  <2> QED
    BY <2>1, MayReturn
<1>2. CASE Return(mem)
  BY <1>1, <1>2, ReturnLooks
<1>3. CASE Goto("act", mem, mode)
  <2>1. mode \in {"wait", "gone", "error"}
    BY DEF IInv, TypeOK
  <2> QED
    BY <1>1, <1>3, <2>1, GotoLooks
<1> QED
  BY <1>2, <1>3 DEF CheckTasks, LookupFails, CallFails

LEMMA DeleteActLooks ==
    ASSUME IInv, XInv, DeleteAct, WorldInv', LivesInv', SeenInv'
    PROVE  XInv'
<1>1. /\ UNCHANGED <<vmState, index, nm, sys, decoupled, pending, removed, failovers>>
      /\ pc = "act" /\ pc' = "end" /\ mem' = mem
      /\ cands' = {} /\ usable' = {} /\ found' = None
  BY DEF DeleteAct, StartTask, drVars, Return
<1>2. NamesInv'
  BY <1>1 DEF XInv, NamesInv, Known
<1>3. GoneInv'
  BY <1>1 DEF GoneInv, Looking
<1>4. FreedInv'
  BY <1>1 DEF XInv, FreedInv, Freed, AllGone, Exists
<1> QED
  BY <1>2, <1>3, <1>4 DEF XInv

LEMMA PowerOnLooks ==
    ASSUME IInv, XInv, PowerOnVM, WorldInv', LivesInv', SeenInv', [Next]_vars
    PROVE  XInv'
<1>1. /\ UNCHANGED <<nm, sys, decoupled, pending, removed, failovers>>
      /\ pc = "power" /\ pc' \in {"sync", "end"} /\ mem' = mem /\ mem.fin
      /\ cands' \in {cands, {}} /\ usable' \in {usable, {}} /\ found' \in {found, None}
      /\ index' = index
  BY MayReturn DEF PowerOnVM, PowerOn, prismVars, drVars, Goto, Return
<1>2. \A v \in VMs : vmState[v] # "none" => vmState'[v] # "none"
  BY VMsComeAndGo DEF XInv
<1>3. sys \in VMs \cup {None} /\ found \in VMs \cup {None}
      /\ index \cup cands \cup usable \subseteq VMs /\ nm \in NM /\ mem \in NM
  BY DEF IInv, TypeOK, PrismTypeOK
<1>4. NamesInv'
  BY <1>1, <1>2, <1>3 DEF XInv, NamesInv, Known, NM
<1>5. GoneInv'
  BY <1>1 DEF GoneInv, Looking
<1>6. FreedInv'
  BY <1>1 DEF XInv, FreedInv, Freed
<1> QED
  BY <1>4, <1>5, <1>6 DEF XInv

LEMMA SyncLooks ==
    ASSUME IInv, XInv, SyncVmUUID, WorldInv', LivesInv', SeenInv'
    PROVE  XInv'
<1> DEFINE target == IF sys # None THEN sys ELSE found
           synced == [mem EXCEPT !.uuid = target]
<1>1. mem \in NM /\ mem.fin /\ nm \in NM /\ nm.fin /\ pc = "sync"
  BY MayReturn DEF SyncVmUUID, IInv, TypeOK, XInv, FreedInv
<1>2. Known(target)
  BY DEF XInv, NamesInv
<1>3. UNCHANGED <<vmState, index, sys, decoupled, pending, removed, failovers>>
  BY DEF SyncVmUUID, prismVars, drVars
<1>4. nm' \in {nm, [nm EXCEPT !.uuid = target]}
  BY DEF SyncVmUUID
<1>5. nm'.uuid \in {nm.uuid, target} /\ nm'.recovered = nm.recovered /\ nm'.fin
  BY <1>1, <1>4 DEF NM
<1>6. PICK m \in {synced, [synced EXCEPT !.ready = TRUE]} : Return(m)
  BY DEF SyncVmUUID
<1>7. m.uuid = target /\ m.recovered = mem.recovered /\ m.fin
  BY <1>1, <1>6 DEF NM
<1>8. pc' = "end" /\ mem' = m /\ cands' = {} /\ usable' = {} /\ found' = None
  BY <1>6 DEF Return
<1> HIDE DEF target, synced
<1>9. NamesInv'
  BY <1>2, <1>3, <1>5, <1>7, <1>8 DEF XInv, NamesInv, Known
<1>10. GoneInv'
  BY <1>8 DEF GoneInv, Looking
<1>11. FreedInv'
  BY <1>5, <1>7, <1>8 DEF FreedInv, Freed
<1> QED
  BY <1>9, <1>10, <1>11 DEF XInv

LEMMA EndLooks ==
    ASSUME IInv, XInv, EndPass \/ Crash, WorldInv', LivesInv', SeenInv'
    PROVE  XInv'
<1>1. nm \in NM /\ mem \in NM
  BY DEF IInv, TypeOK
<1>2. UNCHANGED <<vmState, index, sys, decoupled, pending, removed, failovers>> /\ Rest
  BY DEF EndPass, Crash, prismVars, drVars
<1>3. nm' \in {nm, [mem EXCEPT !.del = nm.del]}
  BY DEF EndPass, Crash
<1>4. \/ nm' = nm
      \/ nm'.fin = mem.fin /\ nm'.uuid = mem.uuid /\ nm'.recovered = mem.recovered
  BY <1>1, <1>3 DEF NM
<1>5. pc' = "idle" /\ mem' = nm' /\ cands' = {} /\ usable' = {} /\ found' = None
  BY <1>2 DEF Rest
<1>6. NamesInv'
  BY <1>2, <1>4, <1>5 DEF XInv, NamesInv, Known
<1>7. GoneInv'
  BY <1>5 DEF GoneInv, Looking
<1>8. FreedInv'
  BY <1>2, <1>4, <1>5 DEF XInv, FreedInv, Freed, AllGone, Exists
<1> QED
  BY <1>6, <1>7, <1>8 DEF XInv

\* Everybody else leaves the pass alone.
LEMMA OthersLook ==
    ASSUME IInv, XInv, WorldInv', LivesInv', SeenInv', [Next]_vars,
           UNCHANGED <<pc, mode, cands, usable, found>>,
           \/ UNCHANGED <<nm, mem>>
           \/ /\ nm'.fin = nm.fin /\ nm'.uuid = nm.uuid /\ nm'.recovered = nm.recovered
              /\ mem'.fin = mem.fin /\ mem'.uuid = mem.uuid
              /\ mem'.recovered = mem.recovered
              /\ pc = "idle" => mem' = nm',
           Known(sys)', removed \subseteq removed'
    PROVE  XInv'
<1>1. \A v \in VMs : vmState[v] # "none" => vmState'[v] # "none"
  BY VMsComeAndGo DEF XInv
<1>2. /\ found \in VMs \cup {None} /\ cands \cup usable \subseteq VMs
      /\ nm \in NM /\ mem \in NM
  BY DEF IInv, TypeOK
<1>3. NamesInv'
  <2>1. \A v \in index' : Known(v)'
    <3>1. index' \subseteq VMs
      BY Step DEF IInv, TypeOK, PrismTypeOK
    <3>2. \A v \in VMs : v \in index' => v \in index \/ Exists(v)
      BY VMsComeAndGo DEF XInv
    <3>3. \A v \in VMs : v \in index' => vmState[v] # "none"
      BY <3>2, NoneAssumption DEF XInv, NamesInv, Known, Exists
    <3> QED
      BY <1>1, <3>1, <3>3 DEF Known
  <2>2. \A v \in cands' \cup usable' : Known(v)'
    BY <1>1, <1>2 DEF XInv, NamesInv, Known
  <2>3. /\ Known(found)' /\ Known(nm.uuid)' /\ Known(nm.recovered)'
        /\ Known(mem.uuid)' /\ Known(mem.recovered)'
    BY <1>1, <1>2 DEF XInv, NamesInv, Known, NM
  <2>4. pc' = "recoveredGet" => found' = mem'.recovered
    BY DEF XInv, NamesInv
  <2> QED
    BY <2>1, <2>2, <2>3, <2>4 DEF NamesInv
<1>4. failovers \in Nat /\ failovers' \in {failovers, failovers + 1}
  BY FailoverStep
<1>5. GoneInv'
  <2>1. SUFFICES ASSUME pc \in Looking, mode = "gone", failovers' <= 1
                 PROVE  /\ Listable'
                        /\ pc \in {"check", "checkGet"} =>
                             \A v \in VMs : Exists(v)' /\ v \notin decoupled'
                                                => v \in ToSee \cup usable
    BY DEF GoneInv, ToSee
  <2>2. failovers <= 1
    BY <1>4, <2>1
  <2>3. /\ Listable
        /\ pc \in {"check", "checkGet"} =>
              \A v \in VMs : Exists(v) /\ v \notin decoupled => v \in ToSee \cup usable
    BY <2>1, <2>2 DEF XInv, GoneInv
  <2>4. Listable'
    BY <2>1, <2>3, ListableStays DEF XInv
  <2>5. \A v \in VMs : Exists(v)' /\ v \notin decoupled' => Exists(v) /\ v \notin decoupled
    BY <2>3, VMsComeAndGo DEF XInv, Listable
  <2> QED
    BY <2>3, <2>4, <2>5
<1>6. AllGone => AllGone'
  BY AllGoneStays DEF XInv
<1>7. Freed(nm)'
  BY <1>4, <1>6 DEF XInv, FreedInv, Freed
<1>8. Freed(mem)'
  BY <1>4, <1>6 DEF XInv, FreedInv, Freed
<1>9. FreedInv'
  BY <1>7, <1>8 DEF XInv, FreedInv
<1> QED
  BY <1>3, <1>5, <1>9 DEF XInv

LEMMA LookStep ==
    ASSUME IInv, XInv, [Next]_vars
    PROVE  XInv'
<1>1. WorldInv' /\ LivesInv' /\ SeenInv'
  BY WorldKeeps, LivesKeeps, SeenKeeps DEF XInv
<1>2. CASE UNCHANGED vars
  BY <1>1, <1>2, OthersLook DEF vars, prismVars, drVars, passVars, XInv, NamesInv, Known
<1>3. CASE StartDelete \/ StartFind \/ StartReady
  BY <1>3, StartLooks
<1>4. CASE Recorded \/ RecordedGet \/ Recovered \/ RecoveredGet \/ FindVM \/ FindVMRole
  BY <1>4, RecordedLooks, RecoveredLooks, RecoveredGetLooks, FindVMLooks
<1>5. CASE ListByName \/ CheckOne \/ CheckGet \/ Listed
  BY <1>5, ByNameLooks, ListedLooks
<1>6. CASE CheckTasks \/ LookupFails
  BY <1>6, ChecksLook
<1>7. CASE DeleteAct \/ PowerOnVM \/ SyncVmUUID \/ EndPass \/ Crash
  BY <1>1, <1>7, DeleteActLooks, PowerOnLooks, SyncLooks, EndLooks
<1>8. CASE UserDeletes
  <2>1. nm \in NM /\ mem \in NM
    BY DEF IInv, TypeOK
  <2>2. nm' = [nm EXCEPT !.del = TRUE] /\ mem' = IF pc = "idle" THEN nm' ELSE mem
    BY <1>8 DEF UserDeletes
  <2>3. /\ nm'.fin = nm.fin /\ nm'.uuid = nm.uuid /\ nm'.recovered = nm.recovered
        /\ mem'.fin = mem.fin /\ mem'.uuid = mem.uuid
        /\ mem'.recovered = mem.recovered
        /\ pc = "idle" => mem' = nm'
    BY <2>1, <2>2 DEF NM, XInv, FreedInv
  <2>4. UNCHANGED <<vmState, sys, removed, pc, mode, cands, usable, found>>
    BY <1>8 DEF UserDeletes, prismVars, drVars
  <2>5. Known(sys)'
    BY <2>4 DEF XInv, NamesInv, Known
  <2> QED
    BY <1>1, <2>3, <2>4, <2>5, OthersLook
<1>9. ASSUME NEW v \in VMs, DisasterRecovery(v) \/ NodeReports(v) \/ PrismStep(v)
      PROVE  XInv'
  <2>1. UNCHANGED <<pc, mode, cands, usable, found, nm, mem>>
    BY <1>9 DEF DisasterRecovery, Failover, Recover, DRRemoves, NodeReports, PrismStep,
       passVars
  <2>2. removed \subseteq removed'
    BY <1>9 DEF DisasterRecovery, Failover, Recover, DRRemoves, NodeReports, PrismStep, drVars
  <2>3. sys' = sys \/ (sys' = v /\ vmState'[v] = "on")
    BY <1>9 DEF DisasterRecovery, Failover, Recover, DRRemoves, NodeReports, PrismStep,
       prismVars
  <2>4. Known(sys)'
    <3>1. sys \in VMs \cup {None}
      BY DEF IInv, TypeOK
    <3> QED
      BY <2>3, <3>1, VMsComeAndGo DEF XInv, NamesInv, Known
  <2> QED
    BY <1>1, <2>1, <2>2, <2>4, OthersLook
<1> QED
  BY <1>2, <1>3, <1>4, <1>5, <1>6, <1>7, <1>8, <1>9 DEF Next, Reconcile

\* When a machine that failed over at most once leaves the API server, no VM of it is
\* left that disaster recovery does not look after, for any VMs, whatever calls failed
\* and wherever a pass stopped: vmToDelete never mistakes a VM that it cannot see yet for
\* one that is gone.  The exception is the one of the property: a machine whose
\* annotation names a VM that disaster recovery removed, which
\* resolveRecoveredVMForDelete takes for the last one.
THEOREM NothingLeft == Spec => []NoneLeftBehind
<1>1. Init => IInv
  BY Initial
<1>2. Init => XInv
  <2> SUFFICES ASSUME Init PROVE XInv
    OBVIOUS
  <2>1. /\ vmState = [v \in VMs |-> IF v = Original THEN "off" ELSE "none"]
        /\ tasks = [v \in VMs |-> {}] /\ sys = None /\ decoupled = {} /\ pending = FALSE
        /\ removed = {} /\ failovers = 0 /\ pc = "idle" /\ mem = nm
        /\ index = {Original} /\ cands = {} /\ usable = {} /\ found = None
        /\ nm.fin /\ nm.uuid \in {Original, None} /\ nm.recovered = None
    BY DEF Init
  <2>2. WorldInv /\ LivesInv
    BY <2>1, RecoveryAssumption DEF WorldInv, LivesInv
  <2>3. SeenInv /\ GoneInv /\ FreedInv
    BY <2>1 DEF SeenInv, GoneInv, Looking, FreedInv, Freed
  <2>4. NamesInv
    BY <2>1, <2>2 DEF NamesInv, Known, WorldInv
  <2> QED
    BY <2>2, <2>3, <2>4 DEF XInv
<1>3. IInv /\ [Next]_vars => IInv'
  BY Step
<1>4. IInv /\ XInv /\ [Next]_vars => XInv'
  BY LookStep
<1>5. XInv => NoneLeftBehind
  BY DEF XInv, FreedInv, Freed, AllGone, NoneLeftBehind
<1> QED
  BY <1>1, <1>2, <1>3, <1>4, <1>5, PTL DEF Spec
=============================================================================
