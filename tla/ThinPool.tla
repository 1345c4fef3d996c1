------------------------------ MODULE ThinPool ------------------------------
(***************************************************************************)
(* One ThinPoolLv: the thin LV of the Thin volume that owns the pool, one  *)
(* thin snapshot of it, and everything that acts on them.                  *)
(*                                                                         *)
(* On the cluster manager's leader run the reconcilers of the two owners   *)
(* (the Volume, and a Snapshot or the target Volume of a clone), which ask *)
(* for thin LVs through the ThinBlobManager, and the reconciler that makes *)
(* and removes the LVM thin pool; they share one informer cache. On every  *)
(* node runs the ThinPoolLv node reconciler, which does what Spec asks on  *)
(* the node that Spec.ActiveOnNode names and reports in Status.            *)
(*                                                                         *)
(* As in LinearVolume, copies of the ThinPoolLv lag behind the API server  *)
(* and an Update succeeds only when made from the newest copy. LVM grants  *)
(* a thin pool, with all its thin LVs, to one node at a time.              *)
(***************************************************************************)
EXTENDS Integers, FiniteSets

CONSTANTS Nodes,        \* the cluster's nodes
          None,         \* an empty node name
          Vol,          \* the owning Volume, and its thin LV
          Snap,         \* the Snapshot or clone target, and the thin snapshot it needs
          PoolCtl,      \* the cluster-wide ThinPoolLv reconciler
          Kinds,        \* what Snap may be: "Snapshot", or the target of a
                        \* clone in mode Thin or Linear: "ThinClone", "LinearClone"
          Deletable,    \* bound: the owners that users may delete
          MaxSize,      \* bound: the largest size of Vol, which starts at 1
          MaxFaults,    \* bound: node manager restarts and reboots
          MaxElections  \* bound: changes of the cluster manager's leader

LVs == {Vol, Snap}
Procs == Nodes \cup LVs \cup {PoolCtl}
Caches == Nodes \cup {PoolCtl}

ASSUME NamesAssumption ==
    /\ None \notin Nodes /\ Vol # Snap
    /\ LVs \cap Nodes = {} /\ PoolCtl \notin Nodes \cup LVs
ASSUME KindsAssumption == Kinds \subseteq {"Snapshot", "ThinClone", "LinearClone"}
ASSUME BoundsAssumption == Deletable \subseteq LVs /\ MaxSize \in Nat \ {0} /\ MaxFaults \in Nat /\ MaxElections \in Nat

VARIABLES
    pool,       \* the ThinPoolLv object on the API server
    cache,      \* the informer cache of the cluster manager and of each node manager
    local,      \* each process's copy during one reconcile
    fresh,      \* the processes whose copy still is the server's object
    pc,         \* each process's next step
    queued,     \* whether the process's work queue holds its object
    leader,     \* the node the cluster manager runs on
    lvm,        \* the thin pool and its thin LVs in the shared volume group
    kind,       \* what Snap is, a member of Kinds
    own,        \* how far the reconciler of each owner is
    deleting,   \* the owners marked for deletion
    size,       \* Vol's Spec.SizeBytes and Status.SizeBytes
    label,      \* the clone target's PopulationNodeLabel
    dd,         \* the clone's dd: "no", "running" or "canceled"
    faults, elections \* what the bounds count

ownerVars == <<own, deleting, size, label>>
reconcileVars == <<cache, local, fresh, pc, queued>>
boundVars == <<faults, elections>>
vars == <<pool, reconcileVars, leader, lvm, kind, ownerVars, dd, boundVars>>

-----------------------------------------------------------------------------
(* Types and null values. *)

\* The fields of ThinPoolLv that some control decision reads. A phase tells the
\* object's existence and DeletionTimestamp; want and have are the thin LV Vol's
\* sizes in Spec and Status; refs are the OwnerReferences.
Pool == [phase: {"none", "live", "deleting", "gone"},
         spec: [LVs -> {"none", "Inactive", "Active", "Removed"}],
         status: [LVs -> {"none", "Inactive", "Active"}],
         want: 0..MaxSize, have: 0..MaxSize,
         node: Nodes \cup {None}, statusNode: Nodes \cup {None},
         avail: BOOLEAN, active: BOOLEAN, refs: SUBSET LVs]

NoPool == [phase |-> "none", spec |-> [l \in LVs |-> "none"], status |-> [l \in LVs |-> "none"],
           want |-> 0, have |-> 0, node |-> None, statusNode |-> None,
           avail |-> FALSE, active |-> FALSE, refs |-> {}]

\* Mutant: the object gets no owner reference.
NewPoolUnowned == [NoPool EXCEPT !.phase = "live"]

\* createThinPoolLv makes the object with its owner and finalizer.
NewPool == [NoPool EXCEPT !.phase = "live", !.refs = {Vol}]

Exists(v) == v.phase \in {"live", "deleting"}
Empty(v) == \A l \in LVs : v.spec[l] = "none"

\* The pool, the node that holds its lock, whether the pool itself was activated,
\* and the thin LVs, active only on the node that holds the lock.
Lvm == [pool: BOOLEAN, lock: Nodes \cup {None}, up: BOOLEAN,
        lvs: [LVs -> {"none", "inactive", "active"}], size: 0..MaxSize]

NodePc == {"up", "down", "create", "record", "activate", "delete", "deleted", "unlock"}
PoolPc == {"mkstatus", "rmfinal"}
OwnerPc == {"add", "ready", "activate", "label", "remove", "forget", "drop", "forgot", "finish"}

-----------------------------------------------------------------------------
(* How a reconcile starts and ends, and what it may write. *)

\* The work queue hands the object to the reconciler. A step that starts a reconcile
\* reads the cache; nothing is lost by reading at the first step that does something,
\* since the cache may be old at that time as well.
Starts(c) == pc[c] = "idle" /\ queued[c]
Queue(c) == [queued EXCEPT ![c] = @ /\ pc[c] # "idle"]

Ends(c) ==
    /\ pc' = [pc EXCEPT ![c] = "idle"]
    /\ local' = [local EXCEPT ![c] = NoPool]
    /\ fresh' = fresh \ {c}
    /\ UNCHANGED cache

\* The reconcile returns no error, or one that stands for a watch: nothing happens
\* until the next event.
Return(c) == Ends(c) /\ queued' = Queue(c)

\* The reconcile returns an error: controller-runtime queues the key again.
Fail(c) == Ends(c) /\ queued' = [queued EXCEPT ![c] = TRUE]

\* The reconcile goes on with step p and the copy v, or it returns ("idle"), or it
\* returns an error ("retry").
Continue(c, v, isFresh, p) ==
    \/ p = "idle" /\ Return(c)
    \/ p = "retry" /\ Fail(c)
    \/ /\ p \notin {"idle", "retry"}
       /\ pc' = [pc EXCEPT ![c] = p]
       /\ local' = [local EXCEPT ![c] = v]
       /\ fresh' = IF isFresh THEN fresh \cup {c} ELSE fresh \ {c}
       /\ queued' = Queue(c)
       /\ UNCHANGED cache

\* Update or Status().Update of a copy changed to v: a conflict unless the copy is
\* fresh; otherwise every copy of an older version is out of date.
Write(c, v, isFresh, p) ==
    LET ends == p \in {"idle", "retry"}
    IN  \/ /\ isFresh
           /\ pool' = v
           /\ pc' = [pc EXCEPT ![c] = IF ends THEN "idle" ELSE p]
           /\ local' = [local EXCEPT ![c] = IF ends THEN NoPool ELSE v]
           /\ fresh' = {q \in fresh \cup {c} : IF q = c THEN ~ends ELSE v = pool}
           /\ queued' = IF p = "retry" THEN [queued EXCEPT ![c] = TRUE] ELSE Queue(c)
           /\ UNCHANGED cache
        \/ /\ ~isFresh
           /\ Fail(c)
           /\ UNCHANGED pool

\* A watch event reaches a cache. An owner's reconciler gets it only through an
\* OwnerReference, of the old or the new object.
WatchEvent(c) ==
    LET woken == {c} \cup (IF c = PoolCtl THEN cache[c].refs \cup pool.refs ELSE {})
    IN  /\ cache[c] # pool
        /\ cache' = [cache EXCEPT ![c] = pool]
        /\ queued' = [q \in Procs |-> queued[q] \/ q \in woken]
        /\ UNCHANGED <<pool, local, fresh, pc, leader, lvm, kind, ownerVars, dd, boundVars>>

-----------------------------------------------------------------------------
(* Spec.ActiveOnNode. *)

\* Mutant: a removal is not counted as work for the pool.
NeedsActivationNotToRemove(v) ==
    \E l \in LVs :
        \/ v.spec[l] = "Active"
        \/ v.spec[l] = "Inactive" /\ (v.status[l] # "Inactive" \/ (l = Vol /\ v.want > v.have))

\* Mutant: an expansion is not counted as work for the pool.
NeedsActivationNotToGrow(v) ==
    \E l \in LVs :
        \/ v.spec[l] = "Active"
        \/ v.spec[l] = "Inactive" /\ v.status[l] # "Inactive"
        \/ v.spec[l] = "Removed" /\ v.status[l] # "none"

\* thinPoolLvNeedsActivation: some thin LV is to be made, removed, activated,
\* deactivated or grown, or is to stay active. (Its error, for a new thin LV in a
\* pool being deleted, needs an owner that no such pool has left.)
NeedsActivation(v) ==
    \E l \in LVs :
        \/ v.spec[l] = "Active"
        \/ v.spec[l] = "Inactive" /\ (v.status[l] # "Inactive" \/ (l = Vol /\ v.want > v.have))
        \/ v.spec[l] = "Removed" /\ v.status[l] # "none"

\* Mutant: the pool stays assigned when there is nothing left to do.
RecalcNeverClears(v) == [v EXCEPT !.node = IF NeedsActivation(v) /\ @ = None THEN leader ELSE @]

\* recalcActiveOnNode, called from the cluster manager.
Recalc(v) ==
    [v EXCEPT !.node = IF ~NeedsActivation(v) THEN None ELSE IF @ = None THEN leader ELSE @]

\* UpdateThinPoolLv: recalculate, and write if anything changed.
UpdateThinPoolLv(c, old, v, isFresh, p) ==
    \/ Recalc(v) # old /\ Write(c, Recalc(v), isFresh, p)
    \/ Recalc(v) = old /\ Continue(c, old, isFresh, p) /\ UNCHANGED pool

-----------------------------------------------------------------------------
(* LVM, as the node reconcilers use it. *)

CanLock(n) == lvm.pool /\ lvm.lock \in {n, None}

\* lvmlockd keeps the pool's lock while the pool or a thin LV of it is active.
Settled(m, n) ==
    [m EXCEPT !.lock = IF m.up \/ \E l \in LVs : m.lvs[l] = "active" THEN n ELSE None]

\* IsLvmActive of the pool: its device is also there below an active thin LV.
IsUp(n) == lvm.lock = n /\ (lvm.up \/ \E l \in LVs : lvm.lvs[l] = "active")

\* The thin LV's device path exists on the node.
PathExists(n, l) == lvm.lock = n /\ lvm.lvs[l] = "active"

\* dd keeps the clone's source open.
InUse(n, l) == l = Snap /\ dd = "running" /\ PathExists(n, l)

-----------------------------------------------------------------------------
(* The ThinPoolLv node reconciler of node n. *)

\* reconcileThinLvCreation works through Spec, Vol first; a snapshot waits for its
\* source to be in Status.
Wanted(v, l) == v.spec[l] \in {"Inactive", "Active"} /\ v.status[l] = "none"
MustCreate(v) == Wanted(v, Vol)
MustExpand(v) ==
    v.spec[Vol] \in {"Inactive", "Active"} /\ v.status[Vol] # "none" /\ v.want > v.have
MustSnapshot(v) == ~MustCreate(v) /\ ~MustExpand(v) /\ Wanted(v, Snap) /\ v.status[Vol] # "none"

\* reconcileThinLvActivations compares Spec, the device and Status of each thin LV
\* in Status.
Listed(v) == {l \in LVs : v.status[l] # "none"}
Device(n, m, l) == m.lock = n /\ m.lvs[l] = "active"
RightStatus(v, l) == (v.spec[l] = "Active") = (v.status[l] = "Active")

\* Mutant: an active pool is taken for an active thin LV.
RightDeviceOfPool(n, v, m, l) == (v.spec[l] = "Active") = (m.lock = n)
RightDevice(n, v, m, l) == (v.spec[l] = "Active") = Device(n, m, l)

Removed(v) == {l \in LVs : v.spec[l] = "Removed"}

\* The next step of Reconcile that has something to do: creation and expansion,
\* activation, deletion, and releasing a lock that a deletion left behind. The copy
\* is v, and LVM's state m.
ToUnlock(n, v, m) == IF v.statusNode = None /\ m.lock = n THEN "unlock" ELSE "idle"
ToDelete(n, v, m) == IF Removed(v) # {} THEN "delete" ELSE ToUnlock(n, v, m)
ToActivate(n, v, m) ==
    IF \E l \in Listed(v) : ~(RightDevice(n, v, m, l) /\ RightStatus(v, l))
    THEN "activate" ELSE ToDelete(n, v, m)
ToCreate(n, v, m) ==
    IF v.phase = "live" /\ (MustCreate(v) \/ MustExpand(v) \/ MustSnapshot(v))
    THEN "create" ELSE ToActivate(n, v, m)

\* Mutant: deletion comes before creation.
AfterPoolDeletes(n, v, m) ==
    CASE v.node # n \/ v.statusNode \notin {n, None} \/ (v.phase # "live" /\ Empty(v)) -> "idle"
      [] Removed(v) # {} -> "delete"
      [] OTHER -> ToCreate(n, v, m)

\* Only the node in charge goes on, and not when the pool is being deleted and has
\* no thin LV left.
AfterPool(n, v, m) ==
    IF v.node = n /\ v.statusNode \in {n, None} /\ (v.phase = "live" \/ ~Empty(v))
    THEN ToCreate(n, v, m) ELSE "idle"

ShouldBeActive(n, v) == v.node = n /\ \E l \in LVs : v.spec[l] = "Active"

\* Reconcile waits for the cluster manager to make the pool.
StartsNode(n) == Starts(n) /\ Exists(cache[n]) /\ cache[n].avail

\* reconcileThinPoolLvActivation, the pool should be active here: another node
\* lets go first.
ActivatePool(n) ==
    LET v == cache[n]
    IN  /\ StartsNode(n) /\ ShouldBeActive(n, v)
        /\ \/ /\ v.statusNode \notin {n, None}
              /\ Return(n) /\ UNCHANGED lvm
           \/ /\ v.statusNode \in {n, None} /\ IsUp(n)
              /\ Continue(n, v, v = pool, "up") /\ UNCHANGED lvm
           \/ /\ v.statusNode \in {n, None} /\ ~IsUp(n) /\ CanLock(n)
              /\ lvm' = [lvm EXCEPT !.up = TRUE, !.lock = n]
              /\ Continue(n, v, v = pool, "up")
           \/ /\ v.statusNode \in {n, None} /\ ~IsUp(n) /\ ~CanLock(n)
              /\ Fail(n) /\ UNCHANGED lvm
        /\ UNCHANGED <<pool, leader, kind, ownerVars, dd, boundVars>>

RecordActive(n) ==
    LET v == [local[n] EXCEPT !.active = TRUE, !.statusNode = n]
    IN  /\ pc[n] = "up"
        /\ \/ v # local[n] /\ Write(n, v, n \in fresh, AfterPool(n, v, lvm))
           \/ v = local[n] /\ Continue(n, v, n \in fresh, AfterPool(n, v, lvm)) /\ UNCHANGED pool
        /\ UNCHANGED <<leader, lvm, kind, ownerVars, dd, boundVars>>

\* reconcileThinPoolLvActivation, the pool should not be active here: deactivate
\* the thin LVs that Status lists, then the pool.
DeactivatePool(n) ==
    LET v == cache[n]
        must == IsUp(n) \/ v.statusNode = n
        able == lvm.pool /\ \A l \in Listed(v) : ~InUse(n, l)
        off == [lvm EXCEPT !.up = FALSE,
                           !.lvs = [l \in LVs |-> IF l \in Listed(v) /\ @[l] = "active"
                                                  THEN "inactive" ELSE @[l]]]
        w == [v EXCEPT !.status = [l \in LVs |-> IF l \in Listed(v) THEN "Inactive" ELSE "none"]]
    IN  /\ StartsNode(n) /\ ~ShouldBeActive(n, v)
        /\ \/ /\ ~must
              /\ Continue(n, v, v = pool, AfterPool(n, v, lvm)) /\ UNCHANGED lvm
           \/ /\ must /\ able
              /\ lvm' = IF lvm.lock = n THEN Settled(off, n) ELSE lvm
              /\ Continue(n, w, v = pool, "down")
           \/ /\ must /\ ~able
              /\ Fail(n) /\ UNCHANGED lvm
        /\ UNCHANGED <<pool, leader, kind, ownerVars, dd, boundVars>>

RecordInactive(n) ==
    LET v == [local[n] EXCEPT !.active = FALSE, !.statusNode = None]
    IN  /\ pc[n] = "down"
        /\ \/ v # local[n] /\ Write(n, v, n \in fresh, AfterPool(n, v, lvm))
           \/ v = local[n] /\ Continue(n, v, n \in fresh, AfterPool(n, v, lvm)) /\ UNCHANGED pool
        /\ UNCHANGED <<leader, lvm, kind, ownerVars, dd, boundVars>>

\* createThinLv and expandThinLv. lvcreate makes an existing thin LV no different;
\* it leaves a new one active, and only an empty one is deactivated at once.
CreateThinLv(n) ==
    LET v == local[n]
        made == lvm.lvs[Vol] # "none"
        able == CanLock(n) /\ (made \/ MustCreate(v))
    IN  /\ pc[n] = "create"
        /\ \/ /\ able
              /\ \/ /\ MustCreate(v)
                    /\ lvm' = Settled([lvm EXCEPT !.lvs[Vol] = "inactive",
                                                  !.size = IF made THEN @ ELSE v.want], n)
                 \/ /\ MustExpand(v)
                    /\ lvm' = Settled([lvm EXCEPT !.size = IF @ < v.want THEN v.want ELSE @], n)
                 \/ /\ MustSnapshot(v)
                    /\ lvm' = Settled([lvm EXCEPT !.lvs[Snap] = IF @ = "none" THEN "active" ELSE @], n)
              /\ Continue(n, v, n \in fresh, "record")
           \/ /\ ~able
              /\ Fail(n) /\ UNCHANGED lvm
        /\ UNCHANGED <<pool, leader, kind, ownerVars, dd, boundVars>>

RecordThinLv(n) ==
    LET v == local[n]
        l == IF MustSnapshot(v) THEN Snap ELSE Vol
        w == [v EXCEPT !.status[l] = IF @ = "none" THEN "Inactive" ELSE @,
                       !.have = IF l = Vol THEN lvm.size ELSE @]
    IN  /\ pc[n] = "record"
        /\ Write(n, w, n \in fresh, ToCreate(n, w, lvm))
        /\ UNCHANGED <<leader, lvm, kind, ownerVars, dd, boundVars>>

\* reconcileThinLvActivations: first the device, then Status.
ActivateThinLvs(n) ==
    LET v == local[n]
    IN  /\ pc[n] = "activate"
        /\ \E l \in Listed(v) :
           LET on == [lvm EXCEPT !.lvs[l] = "active", !.lock = n]
               off == Settled([lvm EXCEPT !.lvs[l] = "inactive"], n)
               right == [v EXCEPT !.status[l] = IF v.spec[l] = "Active" THEN "Active" ELSE "Inactive"]
               able == IF v.spec[l] = "Active" THEN CanLock(n) /\ lvm.lvs[l] = "inactive" ELSE ~InUse(n, l)
           IN  \/ /\ ~RightDevice(n, v, lvm, l) /\ able
                  /\ lvm' = IF v.spec[l] = "Active" THEN on ELSE off
                  /\ Continue(n, v, n \in fresh, ToActivate(n, v, lvm')) /\ UNCHANGED pool
               \/ /\ ~RightDevice(n, v, lvm, l) /\ ~able
                  /\ Fail(n) /\ UNCHANGED <<pool, lvm>>
               \/ /\ RightDevice(n, v, lvm, l) /\ ~RightStatus(v, l)
                  /\ Write(n, right, n \in fresh, ToActivate(n, right, lvm)) /\ UNCHANGED lvm
        /\ UNCHANGED <<leader, kind, ownerVars, dd, boundVars>>

\* reconcileThinLvDeletion: lvremove every thin LV that Spec marks Removed. It does
\* not ask, so it fails on an active one; it may leave the pool's lock behind.
DeleteThinLvs(n) ==
    LET v == local[n]
        gone == {l \in Removed(v) : lvm.lvs[l] # "active"}
        missing == {l \in gone : lvm.lvs[l] = "none"}
        after == [lvm EXCEPT !.lvs = [l \in LVs |-> IF l \in gone THEN "none" ELSE @[l]]]
    IN  /\ pc[n] = "delete"
        /\ \/ /\ CanLock(n) /\ Removed(v) = gone
              /\ \/ lvm' = IF gone = missing THEN lvm ELSE Settled(after, n)
                 \/ gone # missing /\ lvm' = [after EXCEPT !.lock = n]
              /\ Continue(n, v, n \in fresh, "deleted")
           \/ /\ CanLock(n) /\ Removed(v) # gone
              /\ lvm' = after
              /\ Fail(n)
           \/ /\ ~CanLock(n)
              /\ Fail(n) /\ UNCHANGED lvm
        /\ UNCHANGED <<pool, leader, kind, ownerVars, dd, boundVars>>

\* Mutant: Status is emptied.
DropRemovedAll(v) == [v EXCEPT !.status = [l \in LVs |-> "none"]]

\* Status keeps the thin LVs that are not Removed. (The error for one that is not in
\* Spec at all is what SpecCoversStatus excludes.)
DropRemoved(v) ==
    [v EXCEPT !.status = [l \in LVs |-> IF l \in Removed(v) THEN "none" ELSE @[l]]]

RecordDeleted(n) ==
    LET v == DropRemoved(local[n])
    IN  /\ pc[n] = "deleted"
        /\ Write(n, v, n \in fresh, ToUnlock(n, v, lvm))
        /\ UNCHANGED <<leader, lvm, kind, ownerVars, dd, boundVars>>

UnlockPool(n) ==
    /\ pc[n] = "unlock"
    /\ lvm' = Settled([lvm EXCEPT !.up = FALSE], n)
    /\ Return(n)
    /\ UNCHANGED <<pool, leader, kind, ownerVars, dd, boundVars>>

-----------------------------------------------------------------------------
(* The cluster-wide ThinPoolLv reconciler. *)

\* reconcileDeleting waits for the node reconciler to deactivate the pool and to
\* remove its thin LVs.
MayRemovePool(v) == v.phase = "deleting" /\ ~v.active /\ Listed(v) = {}

CreatePoolLv ==
    LET v == cache[PoolCtl]
    IN  /\ Starts(PoolCtl) /\ v.phase = "live" /\ ~v.avail
        /\ lvm' = [lvm EXCEPT !.pool = TRUE]
        /\ Continue(PoolCtl, v, v = pool, "mkstatus")
        /\ UNCHANGED <<pool, leader, kind, ownerVars, dd, boundVars>>

SetPoolAvailable ==
    /\ pc[PoolCtl] = "mkstatus"
    /\ Write(PoolCtl, [local[PoolCtl] EXCEPT !.avail = TRUE], PoolCtl \in fresh, "idle")
    /\ UNCHANGED <<leader, lvm, kind, ownerVars, dd, boundVars>>

\* lvremove of the pool does not ask: it fails on an active pool, on one that still
\* has thin LVs, and on one whose lock another node holds.
RemovePoolLv ==
    LET able == lvm.lock \in {None, leader} /\ ~IsUp(leader) /\ \A l \in LVs : lvm.lvs[l] = "none"
        v == cache[PoolCtl]
    IN  /\ Starts(PoolCtl) /\ MayRemovePool(v)
        /\ \/ /\ able \/ ~lvm.pool
              /\ lvm' = [lvm EXCEPT !.pool = FALSE, !.lock = None]
              /\ Continue(PoolCtl, v, v = pool, "rmfinal")
           \/ /\ ~able /\ lvm.pool
              /\ Fail(PoolCtl) /\ UNCHANGED lvm
        /\ UNCHANGED <<pool, leader, kind, ownerVars, dd, boundVars>>

RemovePoolFinalizer ==
    /\ pc[PoolCtl] = "rmfinal"
    /\ Write(PoolCtl, [local[PoolCtl] EXCEPT !.phase = "gone"], PoolCtl \in fresh, "idle")
    /\ UNCHANGED <<leader, lvm, kind, ownerVars, dd, boundVars>>

\* Kubernetes' garbage collector drops references to owners that are gone, and
\* deletes the pool when no owner is left.
GarbageCollect ==
    LET left == {l \in pool.refs : own[l] # "gone"}
    IN  /\ Exists(pool) /\ left # pool.refs
        /\ \/ /\ left # {}
              /\ pool' = [pool EXCEPT !.refs = left]
           \/ /\ left = {} /\ pool.phase = "live"
              /\ pool' = [pool EXCEPT !.phase = "deleting"]
        /\ fresh' = {}
        /\ UNCHANGED <<cache, local, pc, queued, leader, lvm, kind, ownerVars, dd, boundVars>>

-----------------------------------------------------------------------------
(* The reconcilers of the owners, and the ThinBlobManager calls they make. Each *)
(* call gets the ThinPoolLv from the cluster manager's cache and updates it. An *)
(* owner's own object has one reconciler, so its lagging copy shows as the      *)
(* user's request coming later.                                                 *)

Cached == cache[PoolCtl]
CachedIsFresh == Cached = pool

NeedsResize == size.spec > size.status

\* Volume or Snapshot reconciler's Reconcile: what to do for the owner.
OwnerPcOf(l) ==
    CASE own[l] \in {"absent", "gone"} -> "idle"
      [] l = Vol /\ own[l] \in {"wanted", "ready"} ->
            IF l \in deleting THEN "off" ELSE IF own[l] = "wanted" \/ NeedsResize THEN "create" ELSE "idle"
      [] l = Snap /\ kind = "Snapshot" /\ own[l] \in {"wanted", "ready"} ->
            IF l \in deleting THEN "remove" ELSE IF own[l] = "wanted" THEN "snapshot" ELSE "idle"
      [] OTHER -> \* a clone's target
            IF l \in deleting THEN IF label = None THEN "finish" ELSE "off"
            ELSE IF own[l] = "copied" THEN "off" ELSE IF own[l] = "ready" THEN "idle" ELSE "snapshot"

At(l, p) == pc[l] = p \/ (Starts(l) /\ OwnerPcOf(l) = p)

\* What a WatchPending error amounts to: reconcileNotDeleting waits for the watch,
\* reconcileDeleting polls.
Pending(l) == IF l \in deleting THEN "retry" ELSE "idle"

\* Mutant: the volume's size is taken for the size to add.
AddVolAdds(v) ==
    [v EXCEPT !.spec[Vol] = IF @ = "none" THEN "Inactive" ELSE @,
              !.want = IF v.spec[Vol] = "none" \/ v.status[Vol] = "none" \/ size.spec > v.have
                       THEN size.spec + v.have ELSE @]

\* createThinLv for the volume, from a copy of the pool.
AddVol(v) ==
    [v EXCEPT !.spec[Vol] = IF @ = "none" THEN "Inactive" ELSE @,
              !.want = IF v.spec[Vol] = "none" \/ v.status[Vol] = "none" \/ size.spec > v.have
                       THEN size.spec ELSE @]
VolExists(v) == v.status[Vol] # "none" /\ v.have >= size.spec

\* CreateBlob creates the ThinPoolLv, or gets the one that exists, and asks for the
\* thin LV in it.
CreateBlob ==
    /\ At(Vol, "create")
    /\ \/ /\ pool.phase = "none"
          /\ Write(Vol, NewPool, TRUE, "add")
       \/ /\ pool.phase # "none" /\ ~Exists(Cached)
          /\ Fail(Vol) /\ UNCHANGED pool
       \/ /\ pool.phase # "none" /\ Exists(Cached)
          /\ UpdateThinPoolLv(Vol, Cached, AddVol(Cached), CachedIsFresh,
                              IF VolExists(Cached) THEN "ready" ELSE "idle")
    /\ UNCHANGED <<leader, lvm, kind, ownerVars, dd, boundVars>>

CreateBlobInNewPool ==
    /\ pc[Vol] = "add"
    /\ UpdateThinPoolLv(Vol, local[Vol], AddVol(local[Vol]), Vol \in fresh, "idle")
    /\ UNCHANGED <<leader, lvm, kind, ownerVars, dd, boundVars>>

\* The blob exists: the owner becomes available, with the size in the pool's Status.
BlobReady(l) ==
    /\ pc[l] = "ready"
    /\ own' = [own EXCEPT ![l] = "ready"]
    /\ size' = IF l = Vol THEN [size EXCEPT !.status = local[l].have] ELSE size
    /\ Return(l)
    /\ UNCHANGED <<pool, leader, lvm, kind, deleting, label, dd, boundVars>>

\* SnapshotBlob refuses a source that is not in Spec or is to be removed.
SourceFound(v) == v.spec[Vol] \notin {"none", "Removed"}

\* The Snapshot reconciler wants the Volume, not being deleted; a clone's source
\* Volume must exist.
SourceUsable == IF kind = "Snapshot" THEN own[Vol] = "ready" /\ Vol \notin deleting
                                     ELSE own[Vol] # "gone"

SnapshotBlob ==
    LET v == [Cached EXCEPT !.refs = @ \cup {Snap},
                            !.spec[Snap] = IF @ = "none" THEN "Inactive" ELSE @]
        next == IF kind = "Snapshot" THEN "ready" ELSE "activate"
    IN  /\ At(Snap, "snapshot")
        /\ \/ /\ SourceUsable /\ Exists(Cached) /\ SourceFound(Cached)
              /\ UpdateThinPoolLv(Snap, Cached, v, CachedIsFresh,
                                  IF Cached.status[Snap] # "none" THEN next ELSE "idle")
           \/ /\ ~(SourceUsable /\ Exists(Cached) /\ SourceFound(Cached))
              /\ Fail(Snap) /\ UNCHANGED pool
        /\ UNCHANGED <<leader, lvm, kind, ownerVars, dd, boundVars>>

\* ActivateBlobForCloneSource, ActivateThinLv.
ActivateBlobForCloneSource ==
    LET v == [Cached EXCEPT !.refs = @ \cup {Snap}, !.spec[Snap] = "Active"]
    IN  /\ pc[Snap] = "activate"
        /\ UpdateThinPoolLv(Snap, Cached, v, CachedIsFresh,
                            IF Cached.status[Snap] = "Active" THEN "label" ELSE "idle")
        /\ UNCHANGED <<leader, lvm, kind, ownerVars, dd, boundVars>>

\* Mutant: a Thin target is also populated on the cluster manager's node.
PopulationNodeIsLeader(v) == leader

\* ActivateBlobForCloneTarget: a Thin target is activated where the source is, a
\* Linear one on the cluster manager's node.
PopulationNode(v) == IF kind = "LinearClone" THEN leader ELSE v.statusNode

\* activateDataSource ends by writing the label, unless there is one.
LabelTarget ==
    /\ pc[Snap] = "label"
    /\ label' = IF label = None THEN PopulationNode(Cached) ELSE label
    /\ own' = IF label' = label THEN own ELSE [own EXCEPT ![Snap] = "labelled"]
    /\ Return(Snap)
    /\ UNCHANGED <<pool, leader, lvm, kind, deleting, size, dd, boundVars>>

\* DeactivateBlobForCloneSource and DeactivateBlobForCloneTarget, DeactivateThinLv.
DeactivateBlob(l) ==
    LET v == [Cached EXCEPT !.spec[l] = IF @ = "Active" THEN "Inactive" ELSE @]
    IN  /\ At(l, "off")
        /\ \/ /\ ~Exists(Cached) \/ Cached.spec[l] = "none"
              /\ Continue(l, NoPool, FALSE, "remove") /\ UNCHANGED pool
           \/ /\ Exists(Cached) /\ Cached.spec[l] # "none"
              /\ UpdateThinPoolLv(l, Cached, v, CachedIsFresh,
                                  IF Cached.status[l] = "Active" THEN Pending(l) ELSE "remove")
        /\ UNCHANGED <<leader, lvm, kind, ownerVars, dd, boundVars>>

\* Mutant: the thin LV is forgotten before the node has removed it.
AfterRequestAtOnce(l, v) == "forget"

\* checkThinLvRemoved
AfterRequest(l, v) == IF v.status[l] = "none" THEN "forget" ELSE Pending(l)

\* RemoveBlob: request the removal of the thin LV and wait for it,
RemoveBlob(l) ==
    LET v == [Cached EXCEPT !.spec[l] = "Removed"]
    IN  /\ At(l, "remove")
        /\ \/ /\ ~Exists(Cached)
              /\ Continue(l, NoPool, FALSE, "finish") /\ UNCHANGED pool
           \/ /\ Exists(Cached) /\ Cached.spec[l] = "none"
              /\ Continue(l, Cached, CachedIsFresh, "drop") /\ UNCHANGED pool
           \/ /\ Exists(Cached) /\ Cached.spec[l] # "none"
              /\ UpdateThinPoolLv(l, Cached, v, CachedIsFresh, AfterRequest(l, Cached))
        /\ UNCHANGED <<leader, lvm, kind, ownerVars, dd, boundVars>>

\* drop it from Spec (forgetRemovedThinLv, which always updates),
ForgetRemovedThinLv(l) ==
    /\ pc[l] = "forget"
    /\ Write(l, Recalc([local[l] EXCEPT !.spec[l] = "none"]), l \in fresh, "forgot")
    /\ UNCHANGED <<leader, lvm, kind, ownerVars, dd, boundVars>>

\* delete an empty pool, in which case the Update that follows, if anything is left
\* to update, meets a conflict, and drop the owner reference.
DropReference(l) ==
    LET v == [local[l] EXCEPT !.refs = @ \ {l}]
        delete == Empty(local[l]) /\ local[l].phase = "live"
        same == pc[l] = "drop" /\ Recalc(v) = local[l]
    IN  /\ pc[l] \in {"drop", "forgot"}
        /\ \/ /\ delete /\ Exists(pool)
              /\ pool' = [pool EXCEPT !.phase = "deleting"]
              /\ pc' = [pc EXCEPT ![l] = IF same THEN "finish" ELSE "idle"]
              /\ local' = [local EXCEPT ![l] = NoPool]
              /\ queued' = [queued EXCEPT ![l] = @ \/ ~same]
              /\ fresh' = IF pool.phase = "live" THEN {} ELSE fresh \ {l}
              /\ UNCHANGED cache
           \/ /\ delete /\ ~Exists(pool)
              /\ Continue(l, local[l], FALSE, "finish") /\ UNCHANGED pool
           \/ /\ ~delete /\ pc[l] = "forgot"
              /\ Write(l, Recalc(v), l \in fresh, "finish")
           \/ /\ ~delete /\ pc[l] = "drop"
              /\ UpdateThinPoolLv(l, local[l], v, l \in fresh, "finish")
        /\ UNCHANGED <<leader, lvm, kind, ownerVars, dd, boundVars>>

\* The owner's finalizer goes, or the clone's label and the clone is available.
FinishOwner(l) ==
    /\ At(l, "finish")
    /\ own' = [own EXCEPT ![l] = IF l \in deleting THEN "gone" ELSE "ready"]
    /\ label' = IF l = Snap THEN None ELSE label
    /\ Return(l)
    /\ UNCHANGED <<pool, leader, lvm, kind, deleting, size, dd, boundVars>>

\* A reconcile that finds nothing to do.
NothingToDo(c) ==
    /\ Starts(c)
    /\ \/ c \in Nodes /\ ~StartsNode(c)
       \/ c = PoolCtl /\ ~(cache[c].phase = "live" /\ ~cache[c].avail) /\ ~MayRemovePool(cache[c])
       \/ c \in LVs /\ OwnerPcOf(c) = "idle"
    /\ Return(c)
    /\ UNCHANGED <<pool, leader, lvm, kind, ownerVars, dd, boundVars>>

-----------------------------------------------------------------------------
(* Population of a clone on the labelled node: reconcileSourcePopulating. *)

StartDd ==
    /\ own[Snap] = "labelled" /\ dd = "no" /\ PathExists(label, Snap)
    /\ dd' = "running"
    /\ UNCHANGED <<pool, reconcileVars, leader, lvm, kind, ownerVars, boundVars>>

FinishDd ==
    /\ dd = "running"
    /\ dd' = "no"
    /\ own' = [own EXCEPT ![Snap] = "copied"]
    /\ queued' = [queued EXCEPT ![Snap] = TRUE]
    /\ UNCHANGED <<pool, cache, local, fresh, pc, leader, lvm, kind, deleting, size, label, boundVars>>

CancelDd ==
    /\ Snap \in deleting /\ label # None /\ dd # "canceled"
    /\ dd' = "canceled"
    /\ UNCHANGED <<pool, reconcileVars, leader, lvm, kind, ownerVars, boundVars>>

-----------------------------------------------------------------------------
(* Requests of users, and faults. *)

\* CreateSnapshot, or CreateVolume of a clone: the source has been handed out.
RequestSnap ==
    /\ own[Vol] = "ready" /\ own[Snap] = "absent"
    /\ own' = [own EXCEPT ![Snap] = "wanted"]
    /\ queued' = [queued EXCEPT ![Snap] = TRUE]
    /\ UNCHANGED <<pool, cache, local, fresh, pc, leader, lvm, kind, deleting, size, label, dd, boundVars>>

Expand(s) ==
    /\ own[Vol] = "ready" /\ Vol \notin deleting /\ s > size.spec
    /\ size' = [size EXCEPT !.spec = s]
    /\ queued' = [queued EXCEPT ![Vol] = TRUE]
    /\ UNCHANGED <<pool, cache, local, fresh, pc, leader, lvm, kind, own, deleting, label, dd, boundVars>>

Delete(l) ==
    /\ l \in Deletable /\ own[l] \notin {"absent", "gone"} /\ l \notin deleting
    /\ deleting' = deleting \cup {l}
    /\ queued' = [queued EXCEPT ![l] = TRUE]
    /\ UNCHANGED <<pool, cache, local, fresh, pc, leader, lvm, kind, own, size, label, dd, boundVars>>

\* The node manager's process starts again; dd dies with it.
Restarted(n) ==
    /\ faults < MaxFaults
    /\ faults' = faults + 1
    /\ pc' = [pc EXCEPT ![n] = "idle"]
    /\ local' = [local EXCEPT ![n] = NoPool]
    /\ fresh' = fresh \ {n}
    /\ cache' = [cache EXCEPT ![n] = pool]
    /\ queued' = [queued EXCEPT ![n] = TRUE]
    /\ dd' = IF label = n /\ dd = "running" THEN "no" ELSE dd
    /\ UNCHANGED <<pool, leader, kind, ownerVars, elections>>

RestartNode(n) == Restarted(n) /\ UNCHANGED lvm

\* A reboot also takes the node's devices and lock away.
RebootNode(n) ==
    /\ Restarted(n)
    /\ lvm.lock = n
    /\ lvm' = [lvm EXCEPT !.lock = None, !.up = FALSE,
                          !.lvs = [l \in LVs |-> IF @[l] = "active" THEN "inactive" ELSE @[l]]]

\* The cluster manager crashes or loses its lease; another takes over.
Election(n) ==
    LET here == LVs \cup {PoolCtl}
    IN  /\ elections < MaxElections
        /\ elections' = elections + 1
        /\ leader' = n
        /\ pc' = [c \in Procs |-> IF c \in here THEN "idle" ELSE pc[c]]
        /\ local' = [c \in Procs |-> IF c \in here THEN NoPool ELSE local[c]]
        /\ queued' = [c \in Procs |-> queued[c] \/ c \in here]
        /\ fresh' = fresh \ here
        /\ cache' = [cache EXCEPT ![PoolCtl] = pool]
        /\ UNCHANGED <<pool, lvm, kind, ownerVars, dd, faults>>

-----------------------------------------------------------------------------

Init ==
    /\ pool = NoPool
    /\ cache = [c \in Caches |-> NoPool]
    /\ local = [c \in Procs |-> NoPool]
    /\ fresh = {}
    /\ pc = [c \in Procs |-> "idle"]
    /\ queued = [c \in Procs |-> c = Vol]
    /\ leader \in Nodes
    /\ lvm = [pool |-> FALSE, lock |-> None, up |-> FALSE, lvs |-> [l \in LVs |-> "none"], size |-> 0]
    /\ kind \in Kinds
    /\ own = [l \in LVs |-> IF l = Vol THEN "wanted" ELSE "absent"]
    /\ deleting = {}
    /\ size = [spec |-> 1, status |-> 0]
    /\ label = None /\ dd = "no"
    /\ faults = 0 /\ elections = 0

NodeStep(n) ==
    \/ NothingToDo(n) \/ ActivatePool(n) \/ RecordActive(n) \/ DeactivatePool(n) \/ RecordInactive(n)
    \/ CreateThinLv(n) \/ RecordThinLv(n) \/ ActivateThinLvs(n)
    \/ DeleteThinLvs(n) \/ RecordDeleted(n) \/ UnlockPool(n)

PoolStep ==
    \/ NothingToDo(PoolCtl) \/ CreatePoolLv \/ SetPoolAvailable \/ RemovePoolLv \/ RemovePoolFinalizer

VolStep ==
    \/ NothingToDo(Vol) \/ CreateBlob \/ CreateBlobInNewPool \/ BlobReady(Vol)
    \/ DeactivateBlob(Vol) \/ RemoveBlob(Vol) \/ ForgetRemovedThinLv(Vol) \/ DropReference(Vol)
    \/ FinishOwner(Vol)

SnapStep ==
    \/ NothingToDo(Snap) \/ SnapshotBlob \/ BlobReady(Snap)
    \/ ActivateBlobForCloneSource \/ LabelTarget
    \/ DeactivateBlob(Snap) \/ RemoveBlob(Snap) \/ ForgetRemovedThinLv(Snap) \/ DropReference(Snap)
    \/ FinishOwner(Snap)

Fault(n) == RestartNode(n) \/ RebootNode(n) \/ Election(n)

\* Everything but the deletion of an owner that is not available yet. RemoveBlob then
\* drops every reference, or deletes the pool, before the owner goes, and the garbage
\* collector finds nothing to do.
PatientNext ==
    \/ PoolStep \/ VolStep \/ SnapStep
    \/ StartDd \/ FinishDd \/ CancelDd
    \/ \E c \in Caches : WatchEvent(c)
    \/ \E n \in Nodes : NodeStep(n) \/ Fault(n)
    \/ RequestSnap
    \/ \E s \in 2..MaxSize : Expand(s)
    \/ \E l \in LVs : own[l] # "wanted" /\ Delete(l)

Next == PatientNext \/ GarbageCollect \/ \E l \in LVs : Delete(l)

PatientSpec == Init /\ [][PatientNext]_vars
Spec == Init /\ [][Next]_vars

\* Reconcilers, watches and dd run when they have something to do; users and faults need not.
Fairness ==
    /\ WF_vars(PoolStep) /\ WF_vars(VolStep) /\ WF_vars(SnapStep)
    /\ WF_vars(StartDd \/ FinishDd \/ CancelDd)
    /\ \A c \in Caches : WF_vars(WatchEvent(c))
    /\ \A n \in Nodes : WF_vars(NodeStep(n))
FairPatientSpec == PatientSpec /\ Fairness

-----------------------------------------------------------------------------
(* Properties. *)

\* Every variable keeps its type.
TypeOK ==
    /\ pool \in Pool
    /\ cache \in [Caches -> Pool] /\ local \in [Procs -> Pool]
    /\ fresh \subseteq Procs
    /\ pc \in [Procs -> {"idle"} \cup NodePc \cup PoolPc \cup OwnerPc]
    /\ queued \in [Procs -> BOOLEAN]
    /\ leader \in Nodes
    /\ lvm \in Lvm
    /\ kind \in Kinds
    /\ own \in [LVs -> {"absent", "wanted", "labelled", "copied", "ready", "gone"}]
    /\ deleting \subseteq LVs
    /\ size \in [spec: 1..MaxSize, status: 0..MaxSize]
    /\ label \in Nodes \cup {None} /\ dd \in {"no", "running", "canceled"}
    /\ faults \in 0..MaxFaults /\ elections \in 0..MaxElections

\* reconcileThinLvDeletion finds the Spec of every thin LV in Status: an owner
\* forgets a thin LV only when the node reconciler has reported it removed, so
\* "went missing without requesting state Removed" is never logged.
SpecCoversStatus == \A l \in LVs : pool.status[l] # "none" => pool.spec[l] # "none"

\* A snapshot that SnapshotBlob accepted still has its source when the node
\* reconciler comes to make it, even if the source volume is deleted meanwhile.
SnapshotSourceKept ==
    pool.spec[Snap] \in {"Inactive", "Active"} /\ lvm.lvs[Snap] = "none"
        => lvm.lvs[Vol] # "none"

\* A thin LV that Status reports active, and that is still to be, is active on
\* Status.ActiveOnNode: what ActivateThinLv tells its callers.
ActiveStatusIsReal ==
    \A l \in LVs : pool.spec[l] = "Active" /\ pool.status[l] = "Active"
        => PathExists(pool.statusNode, l)

\* reconcileSourcePopulating: "We should only reach here on node where data source
\* is already activated".
PopulationSourceActive ==
    own[Snap] = "labelled" /\ Snap \notin deleting => PathExists(label, Snap)

\* When an owner goes, or a clone is complete, RemoveBlob has removed its thin LV:
\* none is left behind that no object accounts for. The ThinPoolLv goes only after
\* the LVM pool.
GoneMeansRemoved ==
    /\ \A l \in LVs : (own[l] = "gone" \/ (own[l] = "ready" /\ l = Snap /\ kind # "Snapshot"))
                         => lvm.lvs[l] = "none" /\ pool.spec[l] = "none"
    /\ pool.phase = "gone" => ~lvm.pool

\* Every owner gets its thin LV: the volume, and a snapshot or clone unless its
\* source is deleted first.
PendingCreation ==
    \/ own[Vol] = "wanted"
    \/ own[Snap] \in {"wanted", "labelled", "copied"} /\ Vol \notin deleting
CreationCompletes == PendingCreation ~> ~PendingCreation

\* ControllerExpandVolume is carried out, offline.
ExpansionCompletes == size.status < size.spec ~> (size.status = size.spec \/ Vol \in deleting)

\* An owner being deleted goes, and with the last one the pool.
PendingDeletion ==
    \/ \E l \in deleting : own[l] # "gone"
    \/ pool.phase # "gone" /\ \A l \in LVs : own[l] \in {"absent", "gone"}
DeletionCompletes == PendingDeletion ~> ~PendingDeletion

\* thinPoolLvNeedsActivation: "otherwise the thin-pool ... may remain activated when
\* it shouldn't be": once no owner wants anything the pool is active nowhere, and no
\* node holds its lock. (A restart may come between lvremove and the workaround for
\* the lock it leaves, which nothing does again: so not after one.)
Quiet ==
    /\ faults = 0 /\ size.status = size.spec
    /\ \A l \in LVs : own[l] \in {"absent", "ready", "gone"} /\ (l \in deleting => own[l] = "gone")
IdlePoolIsReleased == Quiet ~> (lvm.lock = None /\ pool.node = None) \/ ~Quiet
=============================================================================
