# A TLA+ model of Cluster API Provider Nutanix (CAPX)

CAPX is a set of Kubernetes controllers that turn Cluster API objects into virtual
machines and disaster-recovery resources in Nutanix Prism Central.  Every controller
reconciles one kind of object; they share the API server, an informer cache that lags
it, and Prism Central, whose calls may fail, whose answers may be lost and whose tasks
and indexes lag.  The hard part of the program is therefore the protocol between these:
what a pass may conclude from what it read, in which order it writes, and what is left
behind when it stops half-way.  That is what the modules here are about.

Paths below are relative to the repository (`src/controllers` for the reconcilers).

## 1. Inventory

| Component | State | Operations | Interacts with |
|---|---|---|---|
| NutanixMachine reconciler (`nutanixmachine_controller.go`, `helpers.go`) | the NutanixMachine: finalizer, request-id annotation, `spec.providerID`, `status.vmUUID`, `status.ready`, failure reason | find, adopt or create the VM, wait, record it, power on, sync the UUID, ready; in deletion: look up, wait for tasks, detach volume groups one at a time, delete, drop the finalizer | Machine and Cluster of Cluster API, Prism VMs and tasks, NutanixCluster conditions |
| NutanixCluster reconciler (`nutanixcluster_controller.go`) | the NutanixCluster; owner reference and finalizer of its Secret and ConfigMap | adopt the credentials, validate failure domains, create vHADomains, ready; in deletion: wait for machines, delete vHADomains and wait, delete categories, give up the credentials, drop the finalizer | machines, vHADomains, Secret, ConfigMap, client caches |
| NutanixVirtualHADomain reconciler (`nutanixvirtualhadomain_controller.go`) | the vHADomain and the UUIDs it records | get or create two categories, a protection policy and two recovery plans; validate them periodically; delete them | NutanixCluster, metro, failure domains, Prism Central |
| NutanixFailureDomain, NutanixMetro, NutanixMetroSite reconcilers | a finalizer each | hold the object while something uses it | each other, machines, clusters, vHADomains |
| Metro placement (in the machine reconciler) | the native-failuredomain label, the active-placement-pe annotation and `spec.cluster` of a NutanixMachine; the vHA category of its VM | choose a site from the labels of the other machines of the group, fall back to the paired site, check at the end of the pass | machines of one group, metro, recovery plan jobs |
| Scale-down balancer (`nutanixmetro_scaledown_controller.go`) | the delete-machine and managed-delete-machine annotations on Machines | choose victims so that the sites stay balanced, annotate them, clear what it annotated before | MachineSet controller of Cluster API, operators, placement |
| Metro recovery (`vmToDelete`, `resolveRecoveredVMForDelete`, `FindVM`, `findNonDecoupledVMByName`) | `status.vmUUID` and the annotations skipped-decoupled-vm-uuid and recovered-vm-uuid of a NutanixMachine | find the VM of a metro machine after a fail-over has replaced it: to adopt it, or to delete it and leave the decoupled one alone | Prism VMs and their DR role, Machine.status.nodeInfo |
| Default categories (`getOrCreateCategoryForProject`, `markClusterCategoryCreated`, `reconcileCategoriesDelete`) | ClusterCategoryCreatedCondition of the NutanixCluster; categories in Prism Central | get or create with every machine, note it on the cluster, delete with the cluster; from Prism Central 7.6 on scoped to projects | machine reconciler, cluster reconciler, other clusters of the same name |
| NutanixMachineTemplate reconciler and webhook | `status.capacity` | copy capacity, forbid changes | - |
| Prism client cache (`pkg/client`), workload client cache (`pkg/context`) | maps | get, replace, delete | every reconciler |
| Pure helpers (`helpers.go`, `task_errors.go`) | none | versions, L2 pairing, GPUs, projects, classification of errors | - |
| `main.go`, feature gates, API types, manifests, templates, mocks, tests | - | wiring, declarations | - |

### What is hard, and what makes each part correct

* **NutanixMachine.**  A reconcile is a long sequence of calls and may end at each of
  them.  Hard: a create whose answer is lost; the record of the new VM that fails half
  way; a list by name that lags; a read from the cache that lags the object's own
  request id; a VM that disappears between two reads; a deletion in the middle.
  Correct: never two VMs for one machine, the object outlives the VMs it has recorded,
  detach comes before delete, and both ends are reached: a deletion ends, and a machine
  that is left alone becomes ready or failed.  "Known gaps" says where each of these
  stops, and which further promises of the comments the code does not keep.
* **NutanixCluster and vHADomains.**  Two controllers wait for each other: the cluster
  keeps its finalizer and its credentials until the vHADomains are gone, and a
  vHADomain is only cleaned up when its cluster is being deleted.  Hard: the deadlock
  this could be; a crash in the middle of giving things up; lists from a cache;
  finalizers that are only in memory; resources made by a pass that failed.  Correct:
  what is needed for a clean-up outlives it, a live cluster's protection is never
  taken down, the teardown ends, a vHADomain heals after drift.
* **Failure domains, metros, sites.**  Hard: lists from caches that lag one another; a
  user that is itself in deletion; objects made in any order.  Correct: nothing is
  released that was in use when its deletion was asked for and still is; what is not
  used is released; what is complete becomes valid.
* **Placement.**  Hard: several passes choose a site while none of them has stored its
  choice; a create that is repeated; a site that goes down in between; a crash before
  the choice is stored.  Correct: the sites stay balanced up to what the passes in
  flight can add; the native site is stored once and is the one of the VM; a machine is
  only ready where it is recorded.
* **Scale-down.**  Hard: annotations made from a list that may be older than the pass,
  while the MachineSet controller deletes and operators annotate.  Correct: a scale-down
  that found the annotations up to date evens the sites out; an operator's annotation
  stays, unless it crosses with the balancer's own; the annotations settle.
* **Metro recovery.**  A fail-over gives a machine a second VM, under its name and with a
  UUID nobody has recorded.  Hard: the fail-over, the recovery and the removal of the
  decoupled VM fall between any two of the lookups of a pass; `status.vmUUID`, the
  node's system UUID, the annotation and the list by name may each be a generation
  apart; patches of the annotation are lost.  Correct: a VM known to be decoupled is
  neither touched nor adopted, no other VM stays when the machine goes after one
  fail-over, the deletion waits for the recovered VM and ends.
* **Default categories.**  One condition, set by every machine pass from what it read at
  its start and by the cluster controller, decides about a deletion.  Hard: conflicting
  patches that are only logged; a category deleted between the list that found it and
  the VM that uses it; two clusters of one name; scopes that differ between the
  controllers; the version that turns the scopes on.  Correct: a cluster leaves no
  category its machines made, a failure does not make it forget one, and no machine
  fails because another cluster tidied up.

`PROJECT.json` lists the hazards line by line with the properties that cover them.

## 2. Modules

| Module | Models | Builds on |
|---|---|---|
| `PrismVMs` | the VM service of Prism, from the calls made to it (external) | - |
| `NutanixMachine` | one NutanixMachine under its reconciler, outside a metro | `PrismVMs` |
| `MachineContract` | abstract: one VM at most, asked to go for a deletion only, the object released after the VM it recorded; once `off`, nothing is promised | - |
| `NutanixMachineProofs` | theorems about `NutanixMachine`, and that it implements `MachineContract` | `NutanixMachine` |
| `ClusterObjects` | the objects around one NutanixCluster and what Cluster API, users and Prism do to them | - |
| `NutanixCluster` | the NutanixCluster reconciler | `ClusterObjects` |
| `NutanixVHADomain` | the vHADomain reconciler, one worker per vHADomain | `ClusterObjects` |
| `ClusterTeardown` | the two reconcilers together | both |
| `TeardownOrder` | abstract: the order in which the parts of a cluster come and go, until `off` | - |
| `ClusterTeardownProofs` | theorems about `ClusterTeardown`, and that it implements `TeardownOrder` | `ClusterTeardown` |
| `NutanixVHADomainProofs` | theorems about the vHADomains in it | `ClusterTeardownProofs` |
| `MetroReferences` | the three reconcilers that hold failure domains, metros and sites while they are used | - |
| `MetroReferencesProofs` | theorems about `MetroReferences` | `MetroReferences` |
| `MetroPlacement` | the concurrent placement of the machines of a metro | - |
| `MetroPlacementProofs` | theorems about `MetroPlacement` | `MetroPlacement` |
| `MetroScaleDown` | the scale-down balancer against the MachineSet controller | - |
| `MetroScaleDownProofs` | theorems about `MetroScaleDown` | `MetroScaleDown` |
| `MetroRecovery` | one metro machine whose VM disaster recovery replaces | `PrismVMs` |
| `MetroRecoveryProofs` | theorems about `MetroRecovery` | `MetroRecovery` |
| `PCVersions` | how versions of Prism Central compare | - |
| `DefaultCategories` | the default category of clusters of one name, under both controllers | `PCVersions` |
| `DefaultCategoriesProofs` | theorems about `DefaultCategories` | `DefaultCategories` |
| `MCNutanixMachine`, `MCClusterTeardown`, `MCMetroReferences`, `MCMetroPlacement`, `MCMetroScaleDown`, `MCDefaultCategories` | symmetry sets, constant functions and action constraints for TLC | |

### How they correspond to the code

**One action per stretch between two calls that leave the process.**  controller-runtime
never runs two passes for the same object, so each object has one program counter
(`pc`, `cpc`, `dpc[m]`); passes for different objects interleave freely.  The in-memory
object of a pass (`mem`, `cmem`, `dmem`) and the copy its patch helper keeps (`base`,
`cbase`, `dbase`) are variables, because which fields a merge patch carries is decided
by their difference.  A remote write has three outcomes: done (`Done`), done with the
answer lost (`Lost`), not done (`NotDone`); the last two are faults and count towards
`MaxFaults`.  A patch helper writes several times (conditions, metadata and spec,
status) and each write may fail on its own, as in Cluster API's `patch.Helper`.

**NutanixMachine.**  `StartNormal`, `StartReady`, `StartDelete` are the three ways
through `Reconcile`.  `FindByUUID`, `FindByName`, `Mint`, `Create`, `WaitForVM`,
`RecordSpec`, `RecordStatus` are `getOrCreateVM` with `FindVM`,
`getOrMintVMCreationRequestID`, `createAndWaitForVM` and `patchMachine`; `Submit`
tells the traditional create, which sends the request id, from the VM-profile deploy,
which does not.  `RunningVM`, `PowerOnVM`, `Refetch`, `SyncVmUUID`, `Finish` are the
rest of `reconcileNormal`; `DeleteLookup`, `DeleteCheckTasks`, `DeleteAct` are
`reconcileDelete`; `DeferSpec`, `DeferStatus` are the deferred patch.  `FindFails` also
has the outcome that is final (`SetFailureStatus` on an error of project or resource
group that is not retryable).  A request id stays bound to the first task it was sent
with, also when that task fails: every later Create under it is answered with that
task, as the comments at `helpers.go:82-87` and `nutanixmachine_controller.go:1877-1882`
say.  `lapses` is history: what the code itself has no means against.  A pass began with
a copy from the cache that lacks the stored request id (`"key"`), a recorded UUID
(`"uuid"`) or the object's end (`"life"`); or the object was deleted before its
finalizer was stored (`"finalizer"`).  Each property excepts the lapses it must and no
others: `AtMostOneVM` only `"key"` on the path that sends the key, `RecordedVMGone` only
`"uuid"` and `"finalizer"` (`Tracked`), the refinement all of them and, from a VM
profile, all faults (`Strayed`).

**NutanixCluster.**  `ReconcileRef` is `reconcileCredentialRef` and
`reconcileTrustBundleRef`, which run in every pass; `ListMissing`, `CreateDomain`,
`ClusterReady` are `reconcileNormal`; `WaitForMachines`, `ListDomains`, `DeleteDomain`,
`DeleteCategories`, `ReleaseRef`, `RemoveRef` are `reconcileDelete`.  Machines and
vHADomains are listed from the manager's cache, which lags (`listed`, `MachineListSyncs`,
`DomainListSyncs`).  `MachineAppears` whenever the Cluster of Cluster API is live, also
while a NutanixCluster that was deleted by name is in deletion: nothing in the code
stops it.  `past` is history: a pass in deletion has found no machine (`"checked"`), did
so while there was one (`"missedMachine"`), a machine came after that (`"late"`), it
found no vHADomain while there was one (`"missedDomain"`), the NutanixCluster was
deleted before its finalizer was stored (`"hasty"`).

**NutanixVHADomain.**  `Resolve` fetches the owners and refuses a deletion that they do
not share; `Ensure` is the get-or-create of one resource after the other; `Validate` is
the check of a domain that is ready; `Cleanup` is `deleteVHADomainPCResources`.

**Failure domains, metros and sites (`MetroReferences`).**  The three reconcilers do the
same thing: a pass reads everything through caches and makes one write at its end.
`AddFinalizer`, `reconcileDelete` and `reconcileNormal` are the three ends of a pass,
`FDInUse`, `MetroInUse` and `SiteInUse` the lists that each of them makes.  One action
is a whole pass: the caches lag object by object (`shown` against `store`, `Sync`
delivers one object at a time), so reads at different moments of a pass and reads from
caches of different age are the same thing here, and a pass that fails has changed
nothing.  `since` is history: who has used an object in deletion ever since its
deletion was asked for.

**Placement (`MetroPlacement`).**  A pass is cut where another pass may read what it has
not stored yet: after the choice (`Choose`, `validateMachineConfig` with
`getMetroFailureDomainSpec`), after the VM is made (`CreateVM`, `Adopt`), after
`checkFailureDomainStatus` (`CheckStatus`, which chooses again if there is no label), at
the patch after it (`PatchMachine`), and at the deferred patch (`EndPass`); `Crash` is
possible at each of them.  `mem` is the NutanixMachine of the pass.  The patch at
`nutanixmachine_controller.go:737` is computed from the copy taken at 721: it stores what
`checkFailureDomainStatus` has chosen in between for a VM that was adopted, and not what
was chosen before, whose first record is the deferred patch. `computeMetroPlacementIndex`
is written in closed form; `LoopIndex` is the loop of the code and the run compares the
two.  `down` stands for everything that makes the code prefer the other site (the latest
recovery plan job, the availability of the Prism Element, the validation of the spec).
`lost` is history: the label or the cluster that was chosen for the VM that is there and
went with the memory of a pass that stopped.  A machine of a NutanixMetroSite has
`Preferred[m]`: its native site is its `preferredFailureDomain` whatever the sites look
like (`NativeSite`, `getMetroSiteFailureDomainSpec`), and the rest of the pass is the
same.  The pass's own object is read up to date, the siblings too, since the code lists
them from the API server.

**Scale-down (`MetroScaleDown`).**  `Reconcile` lists from the manager's cache (`cache`,
which `SyncSet`, `SyncMachines` and `SyncNutanixMachines` bring up to date, one kind of
object at a time) and selects (`selectVictims`, `siteExcess`); `Patch` makes one patch
after the other, in any order, from lists that are by then older still.  `skip` is why a
pass ends before it lists: the Cluster or the MachineSet is paused or the Cluster is not
found, or the MachineSet is in deletion.  Placement is left open: a machine gets its label
at any time and any site.  `ScaleDown` is the MachineSet controller, which takes
annotated machines first.  `goal` is history: how far apart the sites may be when the
scale-down in progress is over.  `crossed` is history: the machines an operator annotated
while the cache or the pass in progress still had them as the balancer's own.

**Metro recovery (`MetroRecovery`).**  One action per call to Prism: `Recorded` and
`RecordedGet` are the role query and the Get of `vmToDelete`, `Recovered` and
`RecoveredGet` those of `resolveRecoveredVMForDelete`, `FindVM` and `FindVMRole` the Get
and the role query of a provisioning pass, and `ListByName`, `CheckOne`, `CheckGet`,
`Listed` are `findNonDecoupledVMByName`, one VM of the list at a time; `Work` goes on with
the VM found.  `mode` is what an empty list means to the caller: wait for the VM that is
to come, nothing is left, or an error.  `Failover` decouples a VM, `Recover` brings its
successor, `DRRemoves` is the return of the failed site.  What comes between finding a VM
and `status.ready` is one step here (`SyncVmUUID`) and is detailed in `NutanixMachine` and
`MetroPlacement`.  `avoid` is history: the VMs that were decoupled when the pass began.  A
VM that is decoupled between the check and the call it allows cannot be known to the pass,
so the properties speak of `avoid`.

**Default categories (`DefaultCategories`).**  A machine without a VM does `Start`
(`validateProjectPolicy`), `List` and `Create` (`getOrCreateCategoryForProject`),
`markClusterCategoryCreated` or `markClusterCategoryCreationFailed`, `References`
(`GetPrismReferencesOfCategoryIdentifiersForProject`) and `MakeVM`; the deletion of a
cluster is `StartCluster` (the gate on the condition), `ListForDelete`, `DeleteOne`
(`deleteCategoryKeyValuesForProject`) and `FinishCluster` (the deferred patch).  A
category is named by its owner, since there is one of that key and value for each
project.  `Conflict` is the three-way comparison by which Cluster API's patch helper
refuses to overwrite a condition that another has changed.  `PCVersions` takes a
version as the sequence of its dotted parts; `isPCVersionHigherThan75` is what turns
the scopes on.

### Abstractions

* UUIDs, keys and names are model values.  The contents of a VM, a policy or a plan are
  left out; what counts is which of them exists and who refers to it.
* `StaleReads` chooses whether the reads of a NutanixMachine come from a lagging cache or
  from the stored object; safety is checked with it on, liveness with it off.  The other
  caches (`listed`, `shown`, `cache`) always lag.
* What the code has no means against is not ruled out but noted: the histories `lapses`,
  `past`, `lost` and `crossed` say when it happened, and a property that does not survive
  it names the event it excepts.  No theorem rests on an assumption of this kind.
* Three action constraints bound what TLC enumerates.  `OneNewUUID`: of the UUIDs that
  nobody refers to, one stands for all.  `SiteMachineLast`: the machine of the other group
  comes last, since it shares nothing with the rest but the workers.  `OneKindBehind`: the
  balancer's cache is behind with one kind of object at a time; a delivery is always
  possible and fair, so it delays steps and takes none away for good.
* One representative flag `mach` stands for the machines of a cluster: the cluster only
  asks whether there are any.  A vHADomain has one movement group, the default.
* In `MetroRecovery` the reconcile always has the v3 client that its DR lookups need, and
  a decoupled VM is removed only after the list by name shows the recovered one: days
  lie between the two.  Volume groups are left out of its runs.
* In `DefaultCategories` the two categories of a cluster (the current one and the obsolete
  one) are one, and a cluster is deleted when its machines are gone.  The condition a
  pass starts from is the stored one.
* Objects of Cluster API, the garbage collector, the bootstrap provider and Prism are
  external and marked so in the map.

## 3. Runs

Every passing run has the deadlock check off, since a world in which the object is gone
and no fault is left does stop.

| Run | Bounds | Shows |
|---|---|---|
| `MachineProtocol` | 3 VMs, 1 key, 1 volume group, both create paths, 2 faults, reads up to date | Failed or lost calls, crashes, failed tasks, VMs deleted in Prism: the reconciler implements `MachineContract`, with its fairness, as long as the machine has not strayed; a deletion ends, and a machine left alone becomes ready or failed, or is `Stuck`: its VM was deleted in Prism, its create task failed, or there are two VMs of its name. |
| `MachineStale` | 2 VMs, 2 keys, 1 volume group, both create paths, 2 faults, reads from a cache | At most one VM unless a pass lacked the stored key; the object gone only after the VMs it recorded unless a pass lacked a recorded UUID or the deletion was faster than the finalizer; no VM deleted with a volume group attached; the safety half of `MachineContract`. |
| `TeardownSafety` | 1 vHADomain, Secret and ConfigMap, 1 fault (a call, a crash, a stray deletion, drift), lagging lists, NutanixClusters deleted by name, machines that come at any time | Credentials and cluster outlive machines and vHADomains, but for the events of `past`; a vHADomain goes after what it records; the composition implements `TeardownOrder` until the first such event. |
| `TeardownEnds` | 1 vHADomain, the Secret, 1 fault, lagging lists, only Cluster API deletes | A deleted cluster comes to an end or stops in the one state named `Wedged`; the protection of machines in use is never taken down by the controller; a vHADomain becomes and stays ready with everything it records in place. |
| `References` | one object of each kind, one MachineDeployment, one Machine, one object lagging at a time | Each object is held while used, released when not, found valid when complete. |
| `Placement` | 4 machines of one group on the metro and 1 of another on a site of it, 2 workers, 1 event (failed call, lost answer, crash anywhere, site down or up, removal) | The sites differ by at most 2 * 2 - 1; a stored native site is the VM's unless the choice for that VM was lost, and, on a metro site, the preferred one; with the same exception a machine is ready only where it is recorded; the closed form is the loop. |
| `ScaleDown` | 3 machines, 2 events (change of replicas, failed patch, removal, operator's annotation, deletion of the MachineSet), a cache that lags | The victims are as many as asked for, leave the sites seen as even as that number can, and evening out empties no site; a scale-down that found the annotations up to date evens the sites out; an operator's annotation stays unless it crossed with the balancer's; the annotations settle. |
| `MetroRecovery` | 3 VMs, 2 fail-overs, 1 fault; `status.vmUUID` stored or lost at the start | No pass touches a VM that was decoupled when it began, nor adopts one before the node reports, unless disaster recovery removes it between the Get and the role query; after one fail-over no VM but the decoupled one is left, unless the annotation names a VM that disaster recovery removed; a deletion ends. |
| `DefaultCategories` | 2 clusters of one name with policies for the projects P and Q, 4 machines (one against its policy), a third project that shares its category with Q, 2 faults, Prism Central 7.6 | A cluster leaves no category its machines made unless a call failed; once the condition was True, unless a Delete failed; the condition stays True until the deletion; no machine fails because its category went. |

`MCDefaultCategories` also has `VersionOrder`, an assumption that TLC evaluates: over 16
versions (7.x, years, with and without the prefix, with parts that are no numbers, empty)
`CompareVersions` is a total preorder, `ComparePCVersions` is antisymmetric, and the
switch to projects is monotone.  `KeptApart`, another one, says that the clusters of the
run fulfil the conditions of the theorems about categories (`Scoped` and `Separate`).

Why these bounds are enough to meet the interesting cases.  Three VM identities with two
faults let every fault cost a VM and leave one more to be (wrongly) made.  Where reads are
up to date one key is enough, since a second is only minted when the first is not seen;
where they lag there are two, and two VMs, the fewest that break "at most one".  One
volume group is enough, since a pass detaches one and ends; two with one fault had the
same result.  One vHADomain is enough
where its parts matter (five resources, two UUIDs each, so that one can be made again):
vHADomains do not wait for each other, and a run with two and no fault had the same
result.  Four machines are the fewest with which two workers reach the bound of three (3-0
and then one more to choose); seven machines with two workers and six with three were run
once with the same result.  A scale-down of three machines has the ties, gaps and
one-sided cases of the selection; a run with four and a cache that does not lag had the
same result.  Three VMs are the generations that can meet in one pass: the one recorded,
the one in the annotation and the one in the list; the fault is what loses an annotation
or a UUID.  Two clusters with two machines each have every order of one cluster's patches
against each other and of one cluster's deletion against the other's creation; the second
fault lets a mark be lost and then a deletion fail.

### Disagreements between the code and what it says

Each of these runs violates one property, and `PROJECT.json` quotes the line it
contradicts.

| Run | What happens |
|---|---|
| `KeyReplaced` | A pass that follows one which stored the request id and failed before it knew a UUID reads a copy from the cache without the annotation, mints another id and overwrites the first: two ids, and a second Create. The comments at `nutanixmachine_controller.go:1877-1882` and `helpers.go:82-87` promise one. |
| `PlacementRecovery` | A machine chosen for the paired site, whose create fails, is made on its native site by the next pass (the label is there by then) and keeps the annotation and condition of a recovery placement; `checkFailureDomainStatus` then refuses it in every pass. |
| `RecoveryLost` | The machine is in deletion and has noted the recovered VM in its annotation; a second fail-over replaces that one too, and disaster recovery removes it, before the pass or between its role query and its Get. The annotation then names a VM that is gone, which `resolveRecoveredVMForDelete` takes for the end: the finalizer goes and the VM that lives, which a list by name would show, stays. |

### Known gaps

The models also show the following, each by changing a constant of a configuration, by
checking a definition that no run checks, or by dropping the exception of a property.
They are listed because a reader who changes the code will want to know which guarantee
stops where.

| To see it | What happens |
|---|---|
| `AtMostOneVM` without `Strayed` | A profile deployment whose answer is lost is repeated without the stored request id and gives a second VM; from then on every list by name finds two and every pass ends with an error. |
| `NoOrphan` in `MCMachineProtocol.cfg` or `MCMachineStale.cfg` | A create whose answer is lost, then a deletion: no UUID is known, the finalizer is dropped, the VM stays. With the lapse `"finalizer"` no fault is needed: the finalizer is only in memory while the VM is made. |
| `RecordedVMGone` without `"finalizer"` in `Tracked` | The object is deleted while the pass that adds the finalizer is making the VM: it goes at once, and the VM stays. |
| the same without `"uuid"` | A pass in deletion that begins with a copy older than the record of the VM knows no UUID and releases the object; no fault is needed. |
| the action `Create` under a key whose task failed | Prism answers with the failed task, so the machine gets no VM in any later pass unless it is deleted (`Stuck`). |
| action `NilVMPanics` | A VM that disappears between power-on and the fetch after it is dereferenced as nil; the pass panics and is repeated. |
| `CredentialsOutliveDomains`, `MachinesKeepCluster` without `"hasty"` | The NutanixCluster's finalizer is stored last; deleted before that, its vHADomains or machines stay without credentials. |
| `CredentialsOutliveDomains` without `"missedDomain"` | A vHADomain that the cache does not show is not waited for. |
| `MachinesKeepCluster` without `"missedMachine"`, without `"late"` | Nor is a machine that the cache does not show, or one that comes after the list: nothing stops Cluster API from making one while a NutanixCluster that was deleted by name goes. |
| by construction of `Ensure` | What a failed pass of the vHADomain reconciler made is recorded nowhere, and stays if the vHADomain is deleted before a later pass succeeds. |
| `nm.ready => nm.prov # None` as an invariant of `MCMachineProtocol.cfg` | The branch of `getOrCreateVM` that adopts a VM found by name (`nutanixmachine_controller.go:1939`) never sets `spec.providerID`, and nothing later does; the machine is ready and Cluster API waits for its provider id for ever. |
| `TeardownCompletes` in place of the properties of `MCTeardownEnds.cfg` | Every pass begins with `reconcileCredentialRef` (`nutanixcluster_controller.go:220`), in deletion too, where a Secret that is not found is an error. A stop or a failed patch after the Secret is deleted and before the finalizer is gone leaves a NutanixCluster that no pass can release: the state `Wedged` that `TeardownEndsOrWedges` excepts. |
| action `DeleteOne` | A category whose Delete fails is logged and forgotten; without an error the condition says that the deletion went well. |
| action `SetCondition` | If the patch that marks the category is lost and the VM is made, no later pass marks it again, and a cluster without further machines leaves the category. This is why `CategoriesCollected` asks for `faults = 0`. |
| `PolicyDef == c1 :> None @@ c2 :> Q` with `m2` in project `Q` in `MCDefaultCategories` (there and in the next row without `KeptApart`), `MaxFaults = 0`, `CategoriesCollected` | Machines scope the category to their own project, the deletion to the project of the cluster's policy (`helpers.go:1704`); without a policy it lists unscoped and deletes one of the categories it finds. Those of the other projects stay. |
| the same with both clusters in one project, or `VersionDef == <<7, 5>>`, `NoneFailsForGood` | Two clusters of one name share the category; the deletion of one takes it from the other between list and create, which is terminal for a machine. An unscoped deletion may also take the category of a project that shares its own. |
| `VersionDef` (constant of a run) | An upgrade of Prism Central across 7.6 changes the scope: categories made before are not found after. |
| `ComparePCVersions(<<7, 3>>, <<9>>)` and so on | Year versions rank below 7.x and above 9 (7.3 < 9 < 2024.1 < 7.3), so `ComparePCVersions` is not transitive. `isPCVersionHigherThan75` compares without it and counts 2024.x as later than 7.6. What is no version counts as 9999, so a part above 9999 is greater than it, against the comment at `helpers.go:1946`. |
| `NoneLeftBehind` without `failovers <= 1`, or without `nm.recovered \notin removed` | A second fail-over between the list by name and its answer leaves a VM, and so does the removal of the VM that the annotation names (run `RecoveryLost`), also after one fail-over: line 544 asks for no list then. |
| `AdoptsNoDecoupled` without `removed` | A decoupled VM that disaster recovery removes between the Get and the role query of `FindVM` counts as not decoupled, and is adopted; the next pass finds it gone. |
| `DeletionEnds` without `Forgotten` | The annotation is stored after the call that deletes the VM it names. If the patch is lost the machine forgets the VM and waits until disaster recovery removes the decoupled one. |
| `v \notin decoupled` for `v \notin avoid` in `LeavesDecoupled` | A VM decoupled after the check is deleted all the same. |
| `FDHeldForClusters` in `MCReferences.cfg` | A failure domain that only a NutanixCluster or a MachineDeployment names is released. |
| by construction of `FDInUse` | A metro in deletion that is held does not hold its failure domains; an object deleted before its finalizer is stored goes at once; a machine made after Machines were listed, by an owner that goes before owners are, is missed. |
| `NativeSiteStays`, `ReadyWhereRecorded` without `lost` | A stop after the VM was made and before the deferred patch: the adopted VM gets a label and a cluster that are computed anew and may not be the site of its vHA category. |
| `Balanced` | The comment at `nutanixmachine_controller.go:1462-1465` says that each machine lands in a balanced slot whatever the interleaving. That holds of passes that choose at the same moment; one that chooses after another has chosen and before it stored sees neither side of it, so w workers (10 by default) can leave the sites 2w - 1 apart. |
| `OperatorMarkStays` without `crossed` | The balancer has cleared its annotation of a machine, and an operator sets his own. A pass whose cache still shows the old one removes it, against the comment at `nutanixmetro_scaledown_controller.go:353`: the merge patch carries no resource version. |
| by construction of `Patch` | An annotation that an operator puts on a machine which the balancer also marks, or had marked, becomes the balancer's own and is cleared with it; an operator's own annotation does not count as one of the victims, so a scale-down takes the annotated machine and leaves a victim marked (`nutanixmetro_scaledown_controller.go:41`). |
| by construction of `WorkloadAttachesVG` | A volume group attached to a VM in deletion after the check at `nutanixmachine_controller.go:422` is not in the model: Cluster API has drained the node by then. |
| by the fairness of `MetroScaleDown` | `MarksSettle` takes for granted that the MachineSet is handed out again after a label was set; labels are not watched, so in the code the next event or resync does it. |
| by construction of `Choose` | A failed list in `computeMetroPlacementIndex` is reported as a configuration error and is terminal for the machine (`nutanixmachine_controller.go:1955`); the fallback after a failed validation tries the remaining failure domain, also when that is the one which just failed (`:1112`); a Machine in deletion whose NutanixMachine is not in deletion yet still counts for its site (`:1521`). |

### Fairness

`FairSpec` gives weak fairness to the reconcilers as a whole (the work queue hands out
every key again after an error or a requeue, and periodic resync after that), to cache
syncs, to Prism tasks and indexes, to the bootstrap provider, to the garbage collector
and, in a cluster being deleted, to Cluster API removing machines and then the
NutanixCluster.  Nothing is owed by users, operators or faults, and faults are bounded, so
liveness says what happens once the trouble is over.  `MetroReferences` has weak fairness
for each object's pass and for each delivery of a watch: a refused deletion returns an
error and is queued again.  `MetroScaleDown` has it for the balancer's pass, its patches
and the three informers of its cache only; what Cluster API, operators and the placement
do is never owed. `MetroPlacement` and `DefaultCategories` state safety only.
`MetroRecovery` has weak fairness for the reconcile, for Prism's tasks and index of every
VM, and for the recovery of a VM that was decoupled, which is what a recovery plan is for;
that disaster recovery ever removes the decoupled VM is not assumed, and fail-overs are
bounded.

## 4. Proofs

| Theorem | Says |
|---|---|
| `NutanixMachineProofs!TypeCorrect` | `Spec => []TypeOK` |
| `NutanixMachineProofs!OneVM` | `Spec => []AtMostOneVM` |
| `NutanixMachineProofs!VolumesFirst` | `Spec => []DetachBeforeDelete` |
| `NutanixMachineProofs!ObjectOutlivesVM` | `Spec => []RecordedVMGone` |
| `NutanixMachineProofs!MachineKeepsContract` | `Spec => KeepsPromise` |
| `ClusterTeardownProofs!TypeCorrect` | `Spec => []TypeOK` |
| `ClusterTeardownProofs!MachinesCanLeave` | `Spec => []MachinesKeepCluster` |
| `ClusterTeardownProofs!DomainsCanLeave` | `Spec => []CredentialsOutliveDomains` |
| `ClusterTeardownProofs!TeardownInOrder` | `Spec => KeepsOrder` |
| `NutanixVHADomainProofs!RecordedGoesFirst` | `Spec => []RecordedResourcesGone` |
| `NutanixVHADomainProofs!ProtectionStays` | `~DirectDelete => (Spec => ProtectedWhileUsed)` |
| `MetroReferencesProofs!TypeCorrect` | `Spec => []TypeOK` |
| `MetroReferencesProofs!Held` | `Spec => HeldWhileUsed` |
| `MetroPlacementProofs!TypeCorrect` | `Spec => []TypeOK` |
| `MetroPlacementProofs!BalancedAlways` | `Spec => []Balanced` |
| `MetroPlacementProofs!NativeSiteKept` | `Spec => []NativeSiteStays` |
| `MetroPlacementProofs!ReadyIsRecorded` | `Spec => []ReadyWhereRecorded` |
| `MetroPlacementProofs!ClosedFormIsLoop` | `Spec => []LoopAgrees` |
| `MetroScaleDownProofs!TypeCorrect` | `Spec => []TypeOK` |
| `MetroScaleDownProofs!ScaleDownEvens` | `Spec => []ScaleDownBalances` |
| `MetroScaleDownProofs!VictimsAlwaysFit` | `Spec => []VictimsFit` |
| `MetroScaleDownProofs!OperatorMarkKept` | `Spec => OperatorMarkStays` |
| `MetroRecoveryProofs!TypeCorrect` | `Spec => []TypeOK` |
| `MetroRecoveryProofs!DecoupledIsLeft` | `Spec => LeavesDecoupled` |
| `MetroRecoveryProofs!DecoupledIsNotAdopted` | `Spec => AdoptsNoDecoupled` |
| `MetroRecoveryProofs!NothingLeft` | `Spec => []NoneLeftBehind` |
| `DefaultCategoriesProofs!TypeCorrect` | `Spec => []TypeOK` |
| `DefaultCategoriesProofs!Collected` | `Scoped => (Spec => []MarkedIsCollected)` |
| `DefaultCategoriesProofs!TrueIsKept` | `Spec => MarkedIsKept` |
| `DefaultCategoriesProofs!NoneDeletedUnderIt` | `Scoped /\ Separate => (Spec => []NoneFailsForGood)` |
| `DefaultCategoriesProofs!CollectedWithoutFaults` | `Scoped /\ Separate => (Spec => []CategoriesCollected)` |
| `DefaultCategoriesProofs!VersionsOrdered` | `CompareVersions` is antisymmetric and transitive, and a last part 0 changes nothing |
| `DefaultCategoriesProofs!ReleasesOrdered` | `ComparePCVersions` is antisymmetric, and transitive on versions 7.x and 202x.x |
| `DefaultCategoriesProofs!ProjectsStay` | `isPCVersionHigherThan75` is monotone |

They hold for every value of the constants that the named assumptions of the modules
allow: any sets of VMs, keys, objects, users and machines, any number of workers, faults,
fail-overs and events, caches that lag or not.  The exceptions are in the properties and
name events of a behaviour; the runs check the same formulas.  Only `ProtectionStays` and
the theorems about categories have a premise on the constants, which a deployment can
meet.

**Loops.**  Three theorems are about what a loop of the code computes.  The model has the
loop as a recursive function, and the provers have no induction over numbers; the proofs
choose a smallest counterexample instead.  That one exists is proved from the fact that
strict inclusion is well founded on the subsets of a finite set (`SmallestSet`), applied to
the intervals `0..k` (`LeastNumber`).  `LoopExists` shows in this way that the function a
`LET` chooses is the loop, and a second induction says what n turns do.

**One VM.**  `AtMostOneVM` is not inductive: nothing in it says why a reconcile about to
create cannot make a second VM.  `KeyInv` does, on the path that sends a request id as
long as no pass has lacked the stored one (`Keyed`): the only key bound in Prism is the one
stored with the object; every VM that came to be is bound to a key; a pass at `find`
works with the key it read, a pass at `mint` has none and none is stored, and a pass at
`create` has the stored one; and what a pass has in memory is what it read or what is
stored, so that the deferred patch never carries an older key.  Two VMs would then be
bound to the same key.  A pass that began with an older copy has its key all the same
unless that is the lapse `"key"` (`BeginUpToDate`), so no other read has to be fresh.
From a VM profile the property follows from `CalmInv` below.

**Volumes first.**  A VM is deleted only in a pass that has counted no volume group on it.
Between the count and the end of the delete task nobody attaches one: a deletion
timestamp is never taken back, and volume groups are attached to VMs of machines that
are not in deletion.  `DetachInv` says that the count a pass has read is an upper bound
on what is attached.  It needs neither fresh reads nor request ids.

**The object outlives its VM.**  `KnownInv` says that a UUID which the object or a copy of
it carries belongs to a VM that came to be, so that one which is not found is gone.
`AgreeInv` says, as long as no pass lacked a recorded UUID, that all UUIDs which the
object, the copies and the Machine carry are the same one, even where there are two VMs: a
pass that is about to make or look for a VM has seen that none is recorded.  `ReleaseInv`
says that a pass about to drop the finalizer follows a deletion and has seen the VM it
looked up gone, which by `AgreeInv` is every recorded VM; and that a pass which wants the
finalizer has not let the object go.  Both need `Tracked` and nothing else: they hold on
both create paths, with any other outdated copy, and for any number of faults.

**A machine that has not strayed.**  Where nothing has happened (`Calm`: no lapse and no
fault so far, a predicate of the state and not of the constants), `CalmInv` adds who names
the VM: the object between passes, the copy in memory during one (`OwnedInv`); that a
deletion leaves nothing behind that it does not know of (`QuietInv`); and what a ready
machine has in spec and status (`ReadyInv`).  This is what keeps a VM profile, whose
Create carries no key, to one VM.  `MachineInv` puts the parts together, each under its
own history: `KeyInv` under `Keyed`, `AgreeInv` and `ReleaseInv` under `Tracked`, `CalmInv`
under `Calm`; histories only grow (`HistoryBack`), so each part is inductive by itself.
For `MachineKeepsContract`, a machine that has not strayed is `Keyed` or `Calm`
(`OnCourse`); from either every action, the failed calls of the path with a key included,
is a step of `MachineContract` or changes none of its variables.

**Teardown.**  The theorems hold with users who delete anything by name, failed and lost
calls, stops at every step, lists that lag, and machines that come at any time; what they
except is in `past`, and "Known gaps" drops the exceptions one at a time.  The properties
speak of what the controllers wait for and not of what holds the rest in place, so they
are not inductive; `UseInv` is: whatever is in use (`Used`: a machine that no list missed
and that is not late, `MachinesAwaited`; a vHADomain as long as none was missed,
`DomainsAwaited`) has every credential adopted and under a finalizer (`Secured`), and a
cluster that is ready is secured or unused and in deletion.  `PassInv` follows a pass: it
secures the credentials before it does anything else, and beyond `machines` and `list` in
deletion nothing is in use any more (`Unused`), which nobody can undo: a machine that
comes now is late, and a NutanixCluster in deletion makes no vHADomain.  `HInv` has all of
it until the NutanixCluster is deleted before its finalizer is stored.  For
`TeardownInOrder` a pass must also have given up the earlier credentials when it turns to
the next and all of them when it drops the finalizer (`RelInv`); then, as long as nothing
was missed, late or hasty (`Straight`), each step moves at most one part (`Moves`), a part
that comes has all it needs by `UseInv`, and one that goes leaves nobody behind by
`Unused`.

**Recorded resources.**  `RecordInv` says why the finalizer may go.  From `resolve` to
`cleanup` the vHADomain in the API server is as the pass has read it, since nobody else
drops a finalizer or writes the spec (`Steady`); a clean-up at its n-th resource has left
none of those before it; and only a category ends it early, which come last.  What is
deleted without a finalizer records nothing that is there.  No condition is needed.
`ProtectionStays` is about clusters that users do not delete by name: with
`DirectDelete`, both owners can be in deletion while machines are left.

**Held while used.**  `since[o]` are the users `o` has had ever since its deletion was
asked for.  The strengthening `SinceInv` says that each of them uses `o` both in the store
and in the caches; specs of sites and metros are immutable and the caches follow the store
one object at a time, so a use that is stored and shown stays shown when a watch delivers.
A pass that releases `o` has found no user in the caches, hence none in `since[o]`.

**Balanced.**  `Balanced` speaks of the state in which everything is placed and says
nothing of how it came about.  The invariant counts a choice from the moment it is made
(`Chosen`, by `mem`) and gives the machines that are still to choose (`Undecided`) as a
credit: for both sites, `|Chosen(s)| <= |Chosen(other)| + |Undecided| + 2w - 1`.  A
choice moves one machine from the credit to a site, so what has to be shown is that it
never adds to the side that is at the limit.  The index that is computed exceeds the
stored labels of the other site by less than the number of machines without a stored
label (`IndexEvensOut`); those are the undecided ones and the choices in flight, and at
most w - 1 other passes are in flight (`Room`), which makes the 2w - 1 (`ChoiceIsClose`).
A crash gives a choice back to the credit.  When every machine of a group is placed the
credit is used up and `Chosen` is what is stored.

`Balanced` is about groups all of whose machines are on the metro; a machine of a metro
site goes where it is told to.

**The loop of the index.**  The least loaded site takes one machine each turn.  The first
`Gap` turns fill the gap between the sites, after which they are even and the turns
alternate, beginning with the first site (`LoopTurns`); that is the closed form which the
model's `computeMetroPlacementIndex` has for the loop.

**Native site.**  The manager may stop, and the deferred patch fail, at any point.  The
invariant `Placed` says that what the pass has in memory and what the VM is agree from the
moment the VM is made or found: its label is the VM's vHA category unless `lost` has the
label, its cluster where the VM is unless `lost` has the cluster, and a pass that still
has to create has found no VM.  What is stored is one such memory; the patch before the
deferred one stores a label only for a VM whose label was lost.

**Even scale-down.**  The greedy loop of `selectVictims` takes one machine per turn from
the fuller site.  `LoopEven` says that a turn never meets an empty site before all are
gone, and that it brings the sites one closer together while they are more than one apart.
The newest machines of a site go: those with fewer than d newer ones are d (`Largest`,
because the number of newer ones is a bijection from the machines of the site to
`0..n-1`).  `VictimsFit` follows in every state.  It speaks of one selection, while
`ScaleDownBalances` is about the deletions that follow, each with a selection of its own
before it.  The invariant is `WithinGoal`: what is left to delete is enough to bring the
sites as close together as the goal says, `Apart(Count) - Surplus <= goal`.  A deletion
that found the annotations up to date took a machine of the fuller site, or more are to go
than the sites are apart (`VictimGoes`); either keeps the inequality (`Closer`).

**Operator's annotation.**  `Foreign` says that a machine which carries the annotation of
an operator only, and is not in `crossed`, is neither among those that the pass has yet to
clear nor the balancer's own in its cache.  A delivery to the cache and the start of a pass
keep this, and a patch clears only what the pass has yet to clear.  `VictimsFit` is proved
for every content the cache may have.

**Decoupled VMs.**  `LeavesDecoupled` is about a step at the end of a pass and VMs that
were decoupled at its beginning; which of the lookups found the VM is forgotten by then.
The invariant says what every lookup hands on.  `AvoidInv`: a VM to be avoided is still
decoupled or removed, so that each role query or the Get beside it finds it out, however
often the site changes (this is where disaster recovery must not give a VM its role back).
`FoundInv`: what passed a check, and the VM that a deletion or a power-on works on, is
not one of them.  `MemInv`: the UUID the pass carries is the stored one, or is none of
them, or the node has reported one, so the deferred patch adopts nothing else.

**Nothing left behind.**  `NoneLeftBehind` is about machines that had at most one
fail-over and whose annotation names no VM that disaster recovery has removed.  `WorldInv`
says what VMs there are then: the one the machine was made with and at most one successor,
which comes only from the recovery of that fail-over; `LivesInv` that nothing but disaster
recovery takes a decoupled VM away; `NamesInv` that every UUID anybody holds, the lists by
name included, is that of one of them.  A pass may release the machine on two grounds.
Either the recorded VM is not there and a list by name showed nothing more: `GoneInv`
says that by then no recovery is pending (`Listable`) and that the VMs yet to be checked
and those found usable (`ToSee`) miss none that lives; the wait for the index is what
makes this true.  Or disaster recovery has removed the VM it had decoupled, which it does
only after the recovery is complete and listed (`SeenInv`).  `FreedInv` says that on
either ground all is gone, in what is stored and in what the pass is about to store, and
stays so because nothing comes back without a pending recovery.

**Categories.**  `Scoped` says that projects are used and that every cluster's policy names
one; then machines and deletion mean the same category (`PassInv`, `OwnInv`).  While a
machine is there its cluster's deletion has not begun and has left no trace in the
condition (`GoneInv`), so a machine's patch meets True, CreationFailed or nothing; one
that read something other than True and would write CreationFailed over a True conflicts
(`MachineMarks`).  Hence a marked cluster's condition is True or DeletionFailed, both of
which make the deletion list, until a pass has found or made the category gone
(`MarkInv`), and a pass that deletes takes the category the machines made (`CarryInv`).
`TrueIsKept` needs none of this.

`Separate` says that clusters of one name use projects of which no category is shared
between them.  Then no other cluster deletes a category that a machine of this one has
found, and the cluster's own deletion waits for its machines; `UseInv` says that a machine
between two lookups still has a category to find, and every VM one of its own cluster's.
So the second lookup does not miss, and the deletion meets no category that the VMs of
another use.  While no call has failed, `CleanInv` adds that what a machine made is known
to the condition or will be by the next call of its pass, so the deletion does not skip
it.  Both conditions are necessary (the two rows of "Known gaps" about
`MCDefaultCategories`).

**Versions.**  Two versions are equal in every part, or their first different part decides
(`Decides`); that there is a first one is a smallest counterexample again.  Antisymmetry
and transitivity follow by comparing the places that decide.

Every invariant that a passing run checks is a theorem, with the exceptions and conditions
stated above, and so is every action property of a passing run but those of liveness.  The
types of `MetroScaleDown` and `DefaultCategories` are only proved.  Model-checked only:
liveness, the fairness half of `MachineContract` included (weak fairness and ENABLED are
out of the prover's reach).  The three properties of the violation runs are not kept by the
code.

## 5. Plan

1. One machine: done, proved for safety with the refinement of `MachineContract`.
2. NutanixCluster and vHADomain teardown: done, proved for safety with the refinement of
   `TeardownOrder`.
3. Failure domains, metros and sites: done, proved for safety.
4. Placement and scale-down: done, proved for safety, the loops included.
5. Metro recovery: done, proved for safety.
6. Default categories and Prism Central versions: done, proved for safety.
7. The other users of a machine's project (images, subnets) and of the two conditions of
   a cluster.
8. Pure algorithms: L2 pairing of subnets, classification of errors, against reference
   definitions.  The Prism client cache.

Proofs to come: `CategoriesCollected` where clusters of one name share a project, with what
it then takes of the order of their deletions.

## 6. Not modelled

The template reconciler and its webhook (no protocol), `main.go` and the feature gates
(wiring), the API types and conversions (declarations), manifests, templates, mocks,
metrics and tests.  Inside the modelled reconcilers: logging, events, the contents of
conditions, validation of specs (only that it may fail, terminally or not), node labels,
custom attributes, images, networks and GPUs of a create request, paused
objects, and the deprecated finalizers, which are removed wherever the current one is
added or removed.
