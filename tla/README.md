# KubeSAN in TLA+

KubeSAN is a Kubernetes CSI plugin that provisions volumes on a shared LVM
volume group (a SAN LUN that every node sees). This directory models the parts
of it that decide when an LVM object is made, activated, wiped, exposed to a
user, moved between nodes, and removed; model-checks them with TLC; and proves with
TLAPS most of the safety properties for every size of the system.

    tlc -workers 2 -config LinearLifecycle.cfg MCLinearVolume
    tlapm LinearSafetyProofs.tla

`PROJECT.json` lists components, runs, mutants, the map from definitions to
source lines, findings, hazards and theorems.

## The system

All state that survives a process is in two places: Kubernetes objects (`Volume`,
`Snapshot`, `ThinPoolLv`, `NBDExport`) and the volume group (LVs, their tags, and
the lvmlockd locks that say which node holds what). Everything else acts on these.

| Component | State it keeps | Operations | Talks to |
|---|---|---|---|
| CSI controller | none | CreateVolume, DeleteVolume, ControllerExpandVolume, CreateSnapshot, DeleteSnapshot, listing | writes Volume/Snapshot, waits by watch |
| CSI node | kubelet's mounts | stage, publish, unpublish, unstage | writes `Spec.AttachToNodes`, waits for `Status.AttachedToNodes` |
| Volume reconciler (cluster, one leader) | conditions, labels, finalizer of Volume | create, expand, choose the population node, set Available, delete | blob managers |
| Linear blob manager | the LV | lvcreate, lvextend, lvremove | LVM on the leader's node |
| Thin blob manager | `ThinPoolLv.Spec` | ask for thin LVs, snapshots, activation, removal; own the pool | ThinPoolLv reconcilers, through the object |
| Volume reconciler (every node) | `Status.AttachedToNodes`, `DataSourceCompleted`, the LV's safe-offset tag | populate (dd, blkdiscard), attach, detach | workers, LVM, device-mapper, NBD |
| Workers | one running work per name | Run, Cancel | wake the reconciler when done |
| ThinPoolLv reconciler (cluster) | condition Available, finalizer | make and remove the LVM pool | LVM |
| ThinPoolLv reconciler (every node) | `ThinPoolLv.Status` | activate the pool, make, grow, activate and remove thin LVs | LVM |
| Snapshot reconciler (cluster) | conditions of Snapshot | make, delete | Thin blob manager |
| NBD export reconciler (every node) | `NBDExport.Status`, finalizer | start, degrade, check, stop an export; shutdown of the pod | NBD server |
| NBD server | table of device numbers; qemu-storage-daemon (q-s-d) | StartExport, CheckExportHealth, StopExport, StopServer | QMP |
| NBD client | `NBDExport.Spec.Clients`, kernel NBD devices | ConnectClient, CheckClient, DisconnectClient | Volume reconciler |
| Device-mapper wrapper | two dm devices per node and volume | Create, Suspend, Resume, Remove | Volume reconciler |

What is hard here:

* a reconciler decides from an informer cache that may be older than its own last
  write, and LVM commands take effect although the status write that should record
  them then meets a conflict;
* the cluster manager may move to another node between any two steps, and several
  decisions are "on the node I run on";
* a worker started by one reconcile is collected by another that has read newer
  sizes;
* a `WatchPending` error is not retried, so something must produce an event later;
* two owners share a thin pool, of which only one node may do anything at a time;
* a Thin volume is attached to several nodes while its thin LV is active on one: the
  device below each user has to be exchanged while I/O waits, in step with an NBD
  server on another node that may be shut down or crash;
* concurrent reconciles share one q-s-d and its table of device numbers;
* CSI calls are cut off at any point and repeated, and answer from a cache.

Correct means: no user sees an extent that still holds somebody else's data; no
wipe or copy reaches data a user wrote; a staged volume keeps its device; no LV
outlives the object that accounts for it; the data of a shared volume moves only
while nobody can write; an export serves its own device and is not withdrawn under a
client; a CSI call that succeeds reports what is true; what was asked for happens,
and a pool that is not needed is released.

## Modules

| Module | Models |
|---|---|
| `LinearVolume` | one Linear Volume: cluster and node Volume reconcilers, Linear blob manager, workers, safe-offset tag, CSI calls, kubelet |
| `LinearVolumeProofs` | its type invariant |
| `LinearSafetyProofs` | its inductive invariant and what follows |
| `LinearServiceProofs` | removal, wiping and staging |
| `ThinPool` | one ThinPoolLv with the owning Volume and one snapshot or clone: Thin blob manager, both ThinPoolLv reconcilers, Volume and Snapshot reconcilers, dd of a clone |
| `ThinAttach` | one Thin volume attached to several nodes: reconcileThin, the NBD client, the export reconciler, the device-mapper wrappers, the hand-over of the pool, CSI stage and unstage |
| `SharedDisk` | what the users of such a volume are promised, an abstract specification that `ThinAttach` implements |
| `NbdServer` | one node's exports and its q-s-d: the export reconciler command by command, the table of device numbers, shutdown |
| `CsiController` | CreateVolume, ControllerExpandVolume, DeleteVolume, CreateSnapshot, DeleteSnapshot, their checks, and the capacity arithmetic |
| `ThinPoolProofs` | its type invariant, and how Spec covers Status |
| `ThinPoolSafetyProofs` | what Status says of the devices, the source of a clone and of a snapshot |
| `ThinAttachProofs`, `NbdServerProofs`, `CsiControllerProofs` | what is proved of these modules |
| `MCLinearVolume`, `MCThinPool`, `MCThinAttach`, `MCNbdServer`, `MCCsiController` | symmetry, inputs, and the bounds that are not constants |

The modules overlap where components meet. `ThinAttach` takes from `ThinPool` that a
thin LV which Status calls active is active on that node (`ActiveStatusIsReal`) and
reduces the ThinPoolLv reconciler to activation and growth. `ThinAttach` has one
export per node and treats starting it as one step; `NbdServer` has that step's
commands, several exports, and reduces the Volume reconcilers to the claims they make.
`CsiController` reduces the managers to "makes it available", "grows it" and "removes
it", which `LinearVolume` and `ThinPool` show to complete.

### How code becomes actions

*Reconcile.* Between two API writes or LVM commands nothing of a reconcile is
visible to others, so a reconcile is a sequence of steps, each ending with one
such effect; `pc[c]` says which is next and `local[c]` is the object it works on.
`cache[c]` is the informer's copy, brought up to date by `WatchEvent(c)` at any
later time. `fresh` holds the reconcilers whose copy still is the server's
version: an `Update` by another one is a conflict and the reconcile fails.
Failed reconciles are queued again; a `WatchPending` returns without being queued.
In `ThinPool` the node steps that would find nothing to do are skipped
(`AfterPool`, `ToCreate`, `ToActivate`, `ToDelete`, `ToUnlock`), and the first
step of a reconcile reads the cache.

*Reconciles of `ThinAttach`.* Every effect of reconcileThin and of the export
reconciler can be repeated, and each reconcile starts again from its copies. So the
effect that is due is a function of the copies and of the node's devices
(`VolumeDue`, `ExportDue`, `PoolDue`), and an action is one effect, or one effect on a
device together with the Update that ends the same function (`Attach`, `LeaveExport`:
the device part takes effect even when the Update conflicts). Two things a running
reconcile knows beyond its copies: that it has claimed an export and not yet
connected (`joining`), and that it has started one and not yet published it
(`publishing`). `InterestedNodes` changes its caller's list in place; `Mangled` is that
list, in force for the rest of one reconcile. The clean-up calls it for an export that it
found and also, going on, after it has cleared the name of one that it did not find: the
rest of that reconcile is marked by `cleared` and ends with the next effect or with
`EndReconcile`.

*NBD.* In `NbdServer` each step is one QMP command, one critical section of
`blockdevs`' mutex, or one Update. The code's device counter never gives a number
twice, so any number not in use stands for the next one and the set of numbers stays
finite. `blockdev-add` and `block-export-add` take an existing name for success and
`block-export-del` cuts off clients, as the code's error handling and its "hard" mode
say. The manager and q-s-d are containers of one pod, with q-s-d a sidecar that
kubelet ends last. SIGTERM (`Terminate`) may come at any step, also between Reconcile's
unlocked look at `Shutdown` and the number StartExport takes: the exports that are in
this window when the channel is closed are `overtaken`, a record of history that no action
reads. A second signal and kubelet's SIGKILL, which end the process at once, are left
out.

*LVM.* A Linear LV is inactive, shared or exclusively active per node; commands
fail where lvmlockd would refuse the lock or the device is open. A thin pool and
all its thin LVs belong to the node that holds the pool's lock. `lvremove` has no `-y`
and nobody answers its question, so it fails on an LV that is active on any node. `lvchange -an` of a pool below an active thin LV
that Status does not list is assumed to succeed and to keep the lock. As the code's
workaround says, `lvremove` may leave the lock of the pool behind; it does so only
when it removed something. In `ThinAttach` deactivation also fails while a wrapper or
q-s-d has the thin LV open.

*CSI.* In `LinearVolume` and `ThinPool` a CSI call's read-modify-write is one step (the
server retries conflicts), the wait for a condition is the guard of the action that
returns, and the check and the deletion in DeleteVolume are two steps. `CsiController`
has the calls step by step: each reads the cache, writes to the API server, retries
conflicts, and polls the cache; it may be given up at any step. Volumes and Snapshots
are objects of one kind there. The orchestrator (external) makes one call to create or
delete a name at a time, deletes only what a successful call reported and then
insists, and does not use a name again, as the external provisioner does with names
made from UIDs. Capacities are integers of a width whose largest value is `MaxInt`
(`Wrap`).

*Owners in `ThinPool`.* An owner's own object has one reconciler, so a lagging copy
of it cannot be told from a request that comes later; only the shared ThinPoolLv has
caches. `own[l]` abstracts the owner's conditions and labels.

*Data.* Sizes are counts of extents. The contents of an extent are `old`, `zero`,
`source` or `user`. The clone source of a Linear volume is `SrcSize` extents of
which `SrcHoles` are zero.

*The clone source of a Linear volume.* `source` has what activateDataSource depends on:
whether the source's object is there, and the temporary snapshot in the source's thin
pool, from the request to its activation on some node and to its removal. The pool is
external to `LinearVolume` and answers with an event (`SourceActivated`,
`SourceReleased`); any node may be the one on which it is active. The user who owns the
source may delete it at any step (`SourceDeleted`). So `ActivateDataSource` can fail,
wait for the pool, or write the label, and it runs again after each expansion; a node's
reboot deactivates the Linear LV but, in this module, not the source.

*Faults.* A node manager restarts (its reconcile, workers and cache go), a node
reboots (its devices and locks go too), a worker fails, the leader changes, q-s-d
crashes, a node manager's pod is terminated and replaced. Each has a bound
(`MaxFaults`, `MaxElections`, `MaxRestarts`, `MaxTerms`, `MaxCrashes`).

## Runs

All bounds are constants in the `.cfg`, or constraints in the MC module.
`CHECK_DEADLOCK FALSE` everywhere: when users ask for nothing more the system stops.

### Linear volumes

| Run | Bounds | Shows |
|---|---|---|
| `LinearLifecycle` | 2 nodes, 2 stages in turn, 1 deletion, 1 election | `ExposedIsSafe`, `GoneMeansRemoved`, `StagedIsBacked`, `UserDataKept` |
| `LinearLive` | 1 node, 2 stages, 1 deletion, 1 election | `StageCompletes`, `DeleteCompletes` |
| `LinearExpand` | 2 nodes, clone of a source of 2 extents, of which one is zeroes, 3 extents grown to 4, 2 faults, 1 election, deletion of the source | `TypeOK`, `SafeOffsetIsWiped`, `SafeOffsetKept`, `CreationCompletes`, `ExpansionCompletes` |
| `LinearResizeExposure` | 1 stage, 1 expansion | violates `ExposedIsSafe` |
| `LinearStaleWipe` | 1 node, 2 expansions | violates `SafeOffsetIsWiped` |

Two nodes are enough for every conflict over the LV's lock; an extent that is copied, one
that dd skips, one that is wiped and one that an expansion adds are enough for the counter.
One election or two faults at any steps reach each place where they can hurt; more of them
repeat it. Where a run fixes the first leader (`FirstLeader`), nodes differ by name only.
`PromptBystanders` lets a node that the Volume has nothing to do with, in any of its copies
or on the server, read its events at once; whatever old copy it reads it does nothing.
`OneUserAtATime` bounds `LinearLifecycle` to stages one after the other, on the same node or
another. Expansion and staging are not combined in a passing run, since
`LinearResizeExposure` shows what then happens, nor is more than one expansion, for
`LinearStaleWipe`.

What the code leaves undone bounds what the passing runs can say:

* `SafeOffsetIsWiped` passes for one expansion, and excepts the extents of a clone source
  that are zeroes (`SrcHoles`): dd skips them, and what was on the disk stays.
* The liveness properties name what is left undone for good: `LeftLocked` (a node holds the
  LV exclusively and is not the population node, so that its reconciler never releases it),
  `Orphaned` (population needs the source again and it is gone) and `Misplaced` (the source
  is active on another node than the one that populates). Each counts only if it lasts for
  ever, `[]LeftLocked` and so on; whoever holds the LV for a while, or waits for the pool,
  has to get on. Each does occur: see the counterexamples below.
* `StagedIsBacked` is checked without reboots: after one `Status.AttachedToNodes` still
  names the node (`stage.go:74`) and a volume can be staged before its device is back.

### Thin pools

| Run | Bounds | Shows |
|---|---|---|
| `ThinPoolSafe` | 2 nodes, snapshot or Thin clone; two of {election, deletion of either owner} with a snapshot, one with a clone | `SpecCoversStatus`, `SnapshotSourceKept`, `ActiveStatusIsReal`, `PopulationSourceActive`, `GoneMeansRemoved` |
| `ThinPoolLive` | 1 node, snapshot or Thin clone; one of {restart, reboot, expansion, deletion}, the source of a clone left alone | `TypeOK`, `CreationCompletes`, `ExpansionCompletes`, `DeletionCompletes`, `IdlePoolIsReleased` |

Both use `PatientSpec`: users delete an owner once it has become
available (for a clone: once population has begun); what early deletion does is under
Observations. Kubernetes' garbage
collector takes part only in `Spec`: under `PatientSpec` an owner has dropped its
reference, or deleted the pool, before it goes, and nothing is left to collect. `PromptBystanders` lets a
node that the pool has nothing to do with read its events at once; whatever old copy
it reads it does nothing. The bounds on disturbances cut steps of users and faults
only, never a step under fairness.

`IdlePoolIsReleased` is stated for behaviours without a restart: the workaround for
the lock that `lvremove` leaves is a later step of the same reconcile, and nothing
repeats it.

### Shared Thin volumes

| Run | Bounds | Shows |
|---|---|---|
| `ThinAttachSafe` | 2 nodes, 2 stages; one node has old copies, then one restart, termination, q-s-d crash or expansion, and calls given up | `TypeOK`, `StagedIsBacked`, `ImplementsSharedDisk` |
| `ThinAttachLive` | 2 nodes, 2 stages; one clone, expansion, restart or termination | `CallsReturn`, `DevicesSettle` |
| `ThinAttachClone` | 2 nodes, 2 stages, 1 clone | violates `StagedIsBacked` |

`ImplementsSharedDisk` is the refinement: `home` is the node on which the thin LV is
active, a device is absent without wrappers, open when I/O reaches the data and paused
otherwise, and `user` is kubelet's progress. `SharedDisk` lets the home change only
while no device is open, and lets no device disappear that a user holds.

Two nodes are a host and a client, and the hand-over from one to the other; two
stages are what it takes to have both, or to come back. In `ThinAttachSafe` one node's
copies of the Volume and of the other's NBDExports are of any age until the disturbance
comes; it has caught up by then (`SlowNow`), and calls are given up only afterwards. In all
runs, other copies are refreshed before the next step, and a call of kubelet returns as
soon as it can. Slow copies and faults at once exceed what can be enumerated; the theorems
have them.

`ThinAttachLive` checks behaviours whose every step is `Patient`, an action constraint
which leaves out the requests that meet a gap of the code after which something waits for ever: a clone source that pins the pool to
an attached node (`Unmangled`), a host that is attached again behind others
(`HostIsFirst`), a stage given up (`NotCancelled`), a request between the two writes
that make or end an export (`DoneAtOnce`), and a SIGTERM before the URI is in the
cache (`PublishedAtOnce`). Each is an observation below. The safety runs have all of
these but for clones, which `ThinAttachClone` has, and for stages given up while a node is slow.

### NBD server

| Run | Bounds | Shows |
|---|---|---|
| `NbdServer` | 2 exports, 2 creations, 1 client, one termination or q-s-d crash; or 3 creations | `TypeOK`, `ServesOwnDevice`, `ServedAsDeclared`, `NeverCutsClients`, `ShutdownCompletes`, `DeletionCompletes` |

Two exports are what it takes for one to meet the other's number, and three creations
let one of them come back under its old name. The cache follows at once (`Slow` is
empty), but a running reconcile keeps its copy, so Updates do conflict.
The termination or crash comes at any step. There is one place where it cuts off a client:
the channel is closed while StartExport has passed the look at `Shutdown` and has no number
yet. `ServedAsDeclared` and `NeverCutsClients` except the exports that were `overtaken` in
this way, until they are created anew, and nothing else. `ShutdownCompletes` is conditional
on every export that holds a number, or is about to take one, having been asked to stop.

### CSI controller

| Run | Bounds | Shows |
|---|---|---|
| `CsiController` | 2 volumes, 1 snapshot, 2 calls at a time, 3 requests, 1 stage, any age of the cache, calls given up anywhere; integers of 4 bits, extent 2 | `TypeOK`, `CapacityIsClosest`, `DoneAsAsked`, `DeletedIsGone`, `GrowsInOrder`, `CallsReturn` |

Three requests are a creation and two that compete over it (two creations that differ
in one field, two expansions, an expansion and a deletion, a clone or snapshot and a
deletion of the source). `MCRequests` also has every capacity range from -1 to the
largest integer; those come alone (`OneRange`), and reach overflow, zero and limits on
both sides of an extent. `CapacityIsClosest` compares validateCapacity with its
reference definition: the smallest multiple in the range.

### Fairness

Weak fairness of each reconciler (a queued key is handed to it, and a reconcile
runs on: controller-runtime), of each cache's watch (client-go informers), of
workers and dd (the processes end), and in `LinearVolume` of the clone source's pool
(`SourceActivated \/ SourceReleased`, as `ThinPoolLive` shows). There is no
fairness for users, pods and faults, nor for kubelet's requests. With failures retried
for ever and bounded faults this is what Kubernetes gives. Further:

* `ThinAttach`: kubelet's calls return when what they poll for is there, a terminated
  pod is replaced once its q-s-d serves nothing, and the population of a clone ends
  (`ThinPoolLive`).
* `NbdServer`: clients leave a degraded export and the host's Volume reconciler
  carries a stop it began through to the deletion; both are steps of reconcilers that
  `ThinAttach` has under fairness. A pod that has ended is replaced (DaemonSet).
  `AskStop` is not fair: triggerCleanup gives up after some conflicts.
* `CsiController`: calls go on until they are given up, and the managers do their work
  on live and on deleted objects, as shown by `CreationCompletes`,
  `ExpansionCompletes` and `DeleteCompletes` of `LinearVolume` and `ThinPool`, with the
  exceptions named there.

## Proofs

A run shows a property on the instance and within the constraints given above; a
theorem shows it for every set of nodes, exports, volumes or calls and every bound,
from the named assumptions on the constants (`ASSUME` in the component's module) and
from nothing else. The constraints of the MC modules (prompt copies, one disturbance at
a time) play no part in a proof.

| Theorem | States | Under |
|---|---|---|
| `LinearVolumeProofs!TypeCorrect` | `[]TypeOK` | `Spec`: expansion and all faults |
| `LinearSafetyProofs!ExposureCorrect` | `[]ExposedIsSafe` | `LifecycleSpec`: no expansion, all faults |
| `LinearSafetyProofs!SafeOffsetCorrect` | `[]SafeOffsetKept` | `LifecycleSpec` |
| `LinearSafetyProofs!UserDataCorrect` | `UserDataKept` | `LifecycleSpec` |
| `LinearServiceProofs!RemovalCorrect` | `[]GoneMeansRemoved` | `Spec` |
| `LinearServiceProofs!WipeCorrect` | `[]SafeOffsetIsWiped` | `LifecycleSpec` |
| `LinearServiceProofs!StagedCorrect` | `[]StagedIsBacked` | `LifecycleSpec`, no reboot of a node that holds the LV |
| `ThinPoolProofs!TypeCorrect` | `[]TypeOK` | `Spec`: deletions at any time, all faults |
| `ThinPoolProofs!CoverCorrect` | `[]SpecCoversStatus` | `Spec` |
| `ThinPoolSafetyProofs!StatusIsReal` | `[]ActiveStatusIsReal` | `Spec`, no reboot of the node that has the device |
| `ThinPoolSafetyProofs!PopulationHasSource` | `[]PopulationSourceActive` | as before; for a Linear clone, the leader stays |
| `ThinPoolSafetyProofs!SourceIsKept` | `[]SnapshotSourceKept` | `Spec` |
| `ThinAttachProofs!TypeCorrect` | `[]TypeOK` | `Spec`: clones, all faults |
| `ThinAttachProofs!DiskCorrect` | `ImplementsSharedDisk` | `Spec`, `MaxClones = 0` |
| `ThinAttachProofs!StagedCorrect` | `[]StagedIsBacked` | `Spec`, `MaxClones = 0` |
| `NbdServerProofs!TypeCorrect` | `[]TypeOK` | `Spec` |
| `NbdServerProofs!OwnDevice` | `[]ServesOwnDevice` | `Spec` |
| `NbdServerProofs!Declared` | `[]ServedAsDeclared` | `Spec`: SIGTERM at any step |
| `NbdServerProofs!ClientsKept` | `NeverCutsClients` | `Spec`: SIGTERM at any step |
| `CsiControllerProofs!TypeCorrect` | `[]TypeOK` | `Spec` |
| `CsiControllerProofs!CapacityCorrect` | `[]CapacityIsClosest` | `Spec` |
| `CsiControllerProofs!SuccessIsTrue` | `DoneAsAsked` | `Spec` |
| `CsiControllerProofs!DeletionIsTrue` | `DeletedIsGone` | `Spec` |
| `CsiControllerProofs!OrderOfGrowth` | `GrowsInOrder` | `Spec` |

Every proof has one step per action, below it one per part of the invariant that
the action can disturb, and lemmas for the ways a reconcile ends, fails and writes.

### Linear volumes

`ExposureCorrect`, `SafeOffsetCorrect` and `UserDataCorrect` follow from
`LifecycleCorrect`, the inductive invariant `LifecycleInv`. None of the
three is inductive: a node exposes the LV because its copy of the Volume says
Available, which may be old, so the invariant has to speak of every copy.
`VolumeOK(v)` says of the server's object, each cache and each local copy that
attached implies available, available implies DataSourceCompleted, and that implies
`Populated`, a fact about the LV which once true stays true; so an old copy is as
good as a new one. `LvOK` is what LVM's locks give; `NodeOK` follows the population
steps: the node that is at one of them holds the LV exclusively, and what it read of
the counter still is the counter; `JobOK` says that a worker that can still write
belongs to such a node and starts at the counter or beyond. `PhaseOK` and
`ClusterOK` exclude that the LV is removed and made again. Expansion is left out of
`LifecycleSpec` because with it the properties are false (`LinearResizeExposure`,
`LinearStaleWipe`).

`RemovalCorrect` has an invariant of its own, `RemovalInv`, and holds with expansion:
the cluster reconciler's copy tells which half of Reconcile it is in, it never sees a
deletion undone, and from the moment it goes for the finalizer the LV is not there,
nobody holds it, and nobody is left who would make it again.

`WipeCorrect` adds `WipeInv`: the extents below the counter are not old, and neither are
those that a worker has done or that the node reconciler is about to count
(`WipedBy`); in each case the extents of `SrcHoles` are left out, which dd skips.

`StagedCorrect` adds `StagingInv`: a node that Status lists as attached in answer to
the present request holds the LV, has seen the request that it serves (its cache
may be old, but not older), and is past population, so that none of its steps
deactivates the LV. `NoLockLost` excludes a reboot that takes the lock of an LV which
the node holds: Status then still lists the node, and NodeStageVolume, repeated by kubelet,
returns early (`stage.go:74`).

### Thin pools

`CoverInv` makes `SpecCoversStatus` inductive: a copy from which an Update can succeed
lists the same thin LVs as the object (`FreshCopies`), and a process about to record
a creation, or to forget a thin LV, has a copy in which there is something to make, or in
which Status has none (`AllKnow`).
The theorem, like the three that follow, is stronger than the run, which has
`PatientSpec`, two nodes and two disturbances.

`StatusIsReal` rests on `CopyInv`, which holds whatever fails: what a copy from which an
Update can succeed has in common with the object at each step (`FreshOK`), and what the
copy of a node in charge says at each of its steps (`NodesKnow`). `ServiceInv` adds that while Snap is in
service (wanted active and reported active) the node in Status holds the pool with Snap
active, is the node in Spec, and its cache and its reconcile's copy, which may be old otherwise, ask
for that as well, so that it does not deactivate the device (`Serves`). A reboot breaks that: Status still calls the device active until the
node has reconciled. `NoDeviceLost` excludes just the reboot of the node that has it.

`PopulationHasSource` adds `SourceInv`: what the cluster manager's cache shows of Snap in
service is still so (`SourceOK`), because nobody ends the service before the target is
populated or deleted, so activateDataSource may write the label from an old cache. A
Linear clone is labelled with the leader's node, whatever Status says
(`blob_manager_linear.go:81`), hence `SameLeader` for that kind.

`SourceIsKept` has no hypothesis. Its invariant `OriginInv` says that any copy, of any
age, is `Sound`. It is coherent: it lists Snap as wanted only along with the source, and
while Snap is reported missing it reports the source. What it says has its consequences
now: a thin LV it reports has been made; one it lists as "Removed" is over
(`VolOver`, `SnapOver`) and never asked for again. A copy that lets the source go shows Snap,
if Snap still is wanted. So a node that comes to remove the source (`NodeReady`)
has either seen Snap reported or made Snap first, in the same reconcile, which handles
creations before deletions (`thinpoollv_node_controller.go`). That the volume is not added to
the pool again after its end takes what the leader's copies may lack (`HandedOK`) and
when the pool may be deleted (`EndOK`).

### Shared Thin volumes

`DiskCorrect` proves the refinement step by step. `SharedDisk` says that the home
changes only while no device is open and that no device disappears that a user holds.
Neither can be read off a state, hence `DiskInv`:

* `Asks`: `Spec.AttachToNodes` lists the nodes where NodeStageVolume is in progress or
  has returned;
* `Answers(n)`: where Status says "attached" in reply to the present request, the node has
  its wrappers and *a copy that asks for them*, so no reconcile removes them; where it
  says "detached" after NodeUnstageVolume, it has none and a copy that does not ask for
  them. The copy may be of any age otherwise: this is what makes an Update on the newest
  version, and a cache that never goes back, enough;
* `Backed`: whoever has the thin LV's device open (the wrapper, or q-s-d) is where it is
  active, and a connection that lives has a server. So an open device on any node ends
  at the one node that holds the pool, LVM refuses to deactivate it there, and the
  home cannot change;
* `Uncloned`, and the type invariant with `Lists`: no list names a node twice
  (`volume_types.go:66` declares a set), without which neither RemoveAll nor
  `InterestedNodes` would take a node out.

Each action is then one of `SharedDisk`'s, or leaves its variables alone: activation is
`Settle`, deactivation `Unsettle`, dm.Create `Provide`, dm.Resume and the connection
`OpenDevice`, dm.Suspend and the end of a server `Pause`, dm.Remove `Withdraw`, and
kubelet's calls and returns `Request` and `Confirm`. `MaxClones = 0` is needed: with a
clone `InterestedNodes` mangles the list, and the device of a staged volume does go
(`ThinAttachClone`). `TypeCorrect` has no such hypothesis; it shows that even a mangled
list leads to no ill-formed claim on the pool.

`StagedCorrect` adds that I/O through a connection is served. A host counts its clients in
a copy of the export, a client looks up its own entry in a copy of its own, and either may
be old. `ServiceInv` shows that both are good enough:

* `Counted`, `Joins`: a node with a connection that lives, or inside ConnectClient, *is* in
  `Spec.Clients` of the newest version. It enters before it connects, with an Update on
  that version, and leaves as it disconnects. An old copy in which it still is a client does
  not let it connect again unentered: `CheckClient` finds an entry without a connection
  and has it disconnect first (`MustDisconnect`), which conflicts until the copy is new;
* `Ends`: a host that still serves and whose copy shows the export as being deleted is
  right, and if the copy also shows it as unavailable, no client has entered since, because
  ConnectClient refuses an unavailable export. So the host that sees no client there has
  none. This takes `Publishes` (an export is made available only while the host's copy
  shows it as live) and `NullWhenGone` (a new export starts without clients);
* `Cuts`: hence only a crash of q-s-d takes the server from a connection;
* `Loaded`: where Status says "attached", the wrappers are past the zero target that
  dm.Create gives them.

Together they cover slow copies *and* faults, which no run enumerates.

### NBD server

`Inv`: `TableOK` (the daemon's devices bear numbers of the table, each number once),
`ShutdownOK` (once the channel is closed nothing is open in the daemon, nor will be, but
for the exports that the closing overtook),
and for each export `StepOK` (what a reconcile relies on at each of its steps; while it
withdraws the export there is no client and none can come) and `CopyOK` (how far the
cache and a reconcile's copy may be behind). The argument for clients is in `CopyOK`:
that an export is `Drained` (being deleted, degraded, without clients) is a property
that once seen stays true, so that an old copy that shows it may be acted upon. The
proof has caches of any age and any number of crashes and terminations, which the run
bounds to none and one.

### CSI controller

The capacity lemmas are about `validateCapacity` alone, for every width and every extent
size that divides it. `NumbersAssumption` asks for `(MaxInt + 1) % Extent = 0`, which the
code has with 4 MiB (`volume.go:35`) and 64 bits: it makes the sum with
`Extent - 1`, when it overflows, negative, so that the check after it catches every case.
For another extent size the last multiple would be refused although it fits.

`Inv` says of each name that it has one object in its life and that the cache, once the
orchestrator knows of the object, is without it only if it is gone (`NameOK`), and of each
call what its copy has in common with the object at each of its steps (`CallOK`): a
later version of what the request compared with, never smaller, never another's. The
three action properties follow from it.

### Only model-checked

* All liveness, which is out of the prover's reach.
* `GoneMeansRemoved` of `ThinPool`. With an expansion it is false (Observations);
  `ThinPoolSafe` has none.

## Findings

1. `LinearResizeExposure`: a `||` (`volume_controller.go:270`) keeps Available true
   during an offline expansion.
2. `LinearStaleWipe`: with two expansions `Workers.Run` (`workers.go:104`) hands the result
   of an older blkdiscard to a reconcile that records the new size as wiped.
3. `ThinAttachClone`: `InterestedNodes` (`thinpoollv.go:217`) takes the pinned node out of
   its caller's list, and the node removes the device of a staged volume.

## Counterexamples

What the passing runs except by name can be seen with these configurations, each of which
TLC finds violated within seconds. They are kept as documentation and are not runs of
`PROJECT.json`.

| Configuration | Module | Violates |
|---|---|---|
| `LinearLeftActive.cfg` | `MCLinearVolume` | `LeftActiveIsReleased` |
| `LinearDeleteBusy.cfg` | `MCLinearVolume` | `UnlabelledIsReleased` |
| `LinearCloneExpand.cfg` | `MCLinearVolume` | `CloneIsIndependent` |
| `ThinPoolLinearClone.cfg` | `MCThinPool` | `PopulationSourceActive` |
| `NbdServerLateStart.cfg` | `MCNbdServer` | `ClosedWhenUnused` |

* `LinearLeftActive`: CreateBlob leaves the LV active on the leader's node, since "it will be
  deactivated when the node reconciler finishes wiping" (`blob_manager_linear.go:35-38`). When
  the leader changes between `lvcreate --activate ey` and the population label, the label
  names another node, and nobody tells the first to let go.
* `LinearDeleteBusy`: deletion removes the population label (`volume_controller.go:206`)
  before the node has released the LV; the node then never does, and lvremove never
  succeeds. The run deletes only what CreateVolume has returned (`DeletedWhenReported`): an
  election between the preparation of an expansion and lvextend makes the preparation be
  repeated, which takes Available away (the `||` needs one reconcile for each condition);
  without that Available stays true, and the node releases the LV as that of a volume which
  it does not attach.
* `LinearCloneExpand`: an expansion of a clone needs the clone's source again
  (`volume_controller.go:347`), and never completes when that is gone.
* `ThinPoolLinearClone`: a Linear clone is populated on the leader's node
  (`blob_manager_linear.go:81`); after a change of leader its source is active elsewhere, and
  dd cannot start.
* `NbdServerLateStart`: a SIGTERM between Reconcile's unlocked look at `Shutdown`
  (`nbdexport_node_controller.go:170`) and StartExport's number closes the channel, and
  q-s-d quits below the export that has just started and its client.

## Observations

Behaviour met while modelling that no run reports. Where a passing run excludes it by a
condition or a bound, the condition is named.

Linear volumes

* dd runs with `conv=sparse` (`volume_node_controller.go:309`) and does not write the source's
  blocks of zeroes, but a new linear LV holds "the previous contents of the disk" (`:427`).
  The safe-offset tag is then set beyond the source, so the clone shows old contents there.
  `SafeOffsetIsWiped` excepts `SrcHoles`.
* After a reboot `Status.AttachedToNodes` still lists the node, and NodeStageVolume
  returns before the device is back (`stage.go:74`): `NoLockLost`, no reboots in
  `LinearLifecycle`.

Thin pools

* `RemoveBlob` takes "not in my copy" for "removed" (`blob_manager_thin.go:129`): a
  snapshot deleted while it is being made leaves its thin LV, and a clone target
  deleted before the label is written leaves the temporary snapshot
  (`volume_controller.go:131`). Excluded by `PatientSpec`.
* A node makes a thin LV before it finds out that its copy is old, and leaves it if its
  Update then conflicts. The event of an expansion that one reconcile records before it
  makes a snapshot queues the node again, with a copy in which the snapshot is still to be
  made. When the snapshot has been removed by another node by then, the node makes it
  again, and nothing refers to it (`GoneMeansRemoved`, with `MaxSize = 2` and one
  election). `ThinPoolSafe` has `MaxSize = 1`.

Shared Thin volumes

* An export is created before the Volume names it (`volume_node_controller.go:241-250`).
  When the node loses its interest in between, nothing refers to the export and q-s-d
  keeps the thin LV open (`DoneAtOnce`). An export whose `Spec.Path` was cleared before it
  started neither starts nor is deleted if the request to stop is overtaken
  (`DoneAtOnce`).
* A host that is attached again behind another node becomes the client of its own
  export, and the pool never moves (`HostIsFirst`).
* NodeUnstageVolume of a stage that was given up returns at once, as the node is not in
  `Status.AttachedToNodes`; staged again, the node is at the end of the list without
  having detached, and may wait for ever (`NotCancelled`).
* dm.Create leaves the wrappers live on the zero target, though its comment says that
  no I/O is possible before Resume. No user has the device then.
* When the Volume's event arrives before that of its new export, the export is
  not found and `Status.NBDExport` is cleared; the host then names it again.

NBD

* triggerCleanup asks only exports whose URI the cache shows
  (`nbdexport_node_controller.go:112`); one that is just starting holds the shutdown up
  until kubelet's grace period of 10 s (`ShutdownCompletes`, `PublishedAtOnce`).
* shutdownChannel is closed again when StopExport is repeated after the last one
  (`server.go:275`), and the process panics. In `NbdServer` this happens (`closes = 2`) and
  hurts nobody.
* When only the manager's container restarts, numbering starts at 0 beside a q-s-d that
  has devices under these numbers (`server.go:165`); the comment there rules it out, the
  manifest does not. `ReplacePod` replaces both.
* After a q-s-d crash a client that joins and undoes its claim over and over
  (`client.go:70-83`) can make each health check conflict, and an export without
  clients is never checked. `ThinAttachLive` has no crashes.

CSI controller

* ListSnapshots' next token is the length of the page (`snapshot.go:254`) but is read as
  an index into the list, so it repeats from the third page on, or with a filter.
  ListVolumes indexes a cached list that, unlike that of ListSnapshots, is not sorted.
* validateCapacity gives 0 for a limit below one extent; the API server then refuses
  the Volume.
* getVolumeType compares filesystem capabilities by address, so that two of them are
  always inconsistent (`ConsistentType`).
* CreateVolume answers with the capacity of the request, also when the existing volume is
  larger.
* When a name is used again, or deleted before its creation was reported, an old cache
  answers CreateVolume from the former volume, or DeleteVolume with success. The
  orchestrator's rules exclude both.

## Not modelled

* Formatting, mounting and bind mounts of Filesystem volumes; statistics: I/O without
  shared state.
* ListVolumes, ListSnapshots, ControllerGetVolume, ValidateVolumeCapabilities: they only
  read. Argument validation and the hashing of names.
* Generated code, set-up of managers and servers, process execution, manifests.
* A deletion of a Volume object by hand while it is attached
  (`volume_node_controller.go:485`).

## Open ends

The modelling is complete apart from the above, and every component has its theorems. The
one invariant that no theorem states is `GoneMeansRemoved` of `ThinPool`, false with
expansions.
