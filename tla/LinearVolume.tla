---------------------------- MODULE LinearVolume ----------------------------
(***************************************************************************)
(* One Linear-mode Volume: the cluster-wide Volume reconciler, the node    *)
(* Volume reconcilers, the CSI calls that change the Volume, and the       *)
(* shared LVM logical volume they act on.                                  *)
(*                                                                         *)
(* A reconciler reads the Volume from an informer cache that lags behind   *)
(* the API server, works on that local copy, and writes back under         *)
(* optimistic concurrency: a write succeeds only when the local copy still *)
(* is the server's object.  LVM commands are not protected that way; they  *)
(* act on the shared volume group the moment they run.                     *)
(*                                                                         *)
(* Of a clone's source, a thin volume or a snapshot of one, the module has *)
(* what this Volume's population depends on: whether its object exists,    *)
(* and the temporary snapshot that its thin pool keeps for this Volume.    *)
(***************************************************************************)
EXTENDS Integers, FiniteSets

CONSTANTS Nodes,        \* the cluster's nodes
          Cluster,      \* identifies the cluster-wide reconciler, not a node
          None,         \* an absent PopulationNodeLabel
          InitSize,     \* extents requested by CreateVolume
          MaxSize,      \* bound: the largest size ControllerExpandVolume asks for
          VolumeType,   \* "Block" or "Filesystem"
          WipePolicy,   \* "Full" or "UnsafeFast"
          SrcSize,      \* extents of the clone source, 0 for an Empty volume
          SrcHoles,     \* extents of the clone source that hold only zero bytes
          MaxStages,    \* bound: calls of NodeStageVolume
          MaxDeletes,   \* bound: calls of DeleteVolume, 0 or 1
          MaxFaults,    \* bound: node manager restarts, reboots, worker failures
          MaxElections  \* bound: changes of the cluster manager's leader

ASSUME NodesAssumption == Cluster \notin Nodes /\ None \notin Nodes
ASSUME SizeAssumption ==
    /\ InitSize \in Nat \ {0} /\ MaxSize \in Nat /\ InitSize <= MaxSize
    /\ SrcSize \in 0..InitSize /\ SrcHoles \subseteq 1..SrcSize
ASSUME KindAssumption ==
    VolumeType \in {"Block", "Filesystem"} /\ WipePolicy \in {"Full", "UnsafeFast"}
ASSUME BoundAssumption == MaxStages \in Nat /\ MaxDeletes \in {0, 1} /\ MaxFaults \in Nat /\ MaxElections \in Nat

VARIABLES
    vol,        \* the Volume object on the API server
    cache,      \* each reconciler's informer cache of it
    local,      \* each reconciler's copy during one reconcile
    pc,         \* each reconciler's next step
    queued,     \* whether the reconciler's work queue holds the Volume
    leader,     \* the node the cluster manager runs on
    fresh,      \* the reconcilers whose copy still is the server's object
    seen,       \* what each reconcile has read of the LV: counter and size
    job,        \* the node's worker for this volume
    lv,         \* the LVM logical volume
    active,     \* how each node holds the LV: "no", "sh" or "ex"
    kubelet,    \* how far kubelet and pods on each node are with the volume
    published,  \* CreateVolume has returned success
    deletePending, \* DeleteVolume has checked that nothing is staged
    source,     \* the clone source: whether its object is there, its temporary
                \* snapshot, and the node on which the snapshot is to be active
    stages, faults, elections \* what the bounds count

\* What the Volume's reconcilers do not own.
outerVars == <<kubelet, published, deletePending, source>>
lvmVars == <<lv, active>>
boundVars == <<stages, faults, elections>>
reconcileVars == <<cache, local, fresh, seen, pc, queued>>
vars == <<vol, reconcileVars, leader, job, lvmVars, outerVars, boundVars>>

-----------------------------------------------------------------------------
(* Types and null values. *)

Controllers == Nodes \cup {Cluster}
Extents == 1..MaxSize

\* The fields of Volume that some control decision reads. The finalizer is not
\* one: CreateVolume sets it at creation, so it is there until reconcileDeleting
\* takes it away and the object goes.
Volume == [phase: {"live", "deleting", "gone"},
           specSize: Extents, attachTo: SUBSET Nodes,
           size: 0..MaxSize, attached: SUBSET Nodes,
           lvCreated: BOOLEAN, dsc: BOOLEAN, avail: BOOLEAN, abnormal: BOOLEAN,
           label: Nodes \cup {None}]

NewVolume == [phase |-> "live", specSize |-> InitSize, attachTo |-> {},
              size |-> 0, attached |-> {},
              lvCreated |-> FALSE, dsc |-> FALSE, avail |-> FALSE, abnormal |-> FALSE,
              label |-> None]

\* What local holds between reconciles.
NoCopy == [NewVolume EXCEPT !.phase = "gone"]
NothingSeen == [offset |-> 0, size |-> 0]

\* What is stored in an extent: what the disk held before, zeroes, the clone
\* source's data, or something a user wrote.
Contents == {"old", "zero", "source", "user"}
Lv == [state: {"none", "present", "removed"}, size: 0..MaxSize, counter: 0..MaxSize,
       data: [Extents -> Contents]]

NoJob == [kind |-> "none", state |-> "done", from |-> 0, to |-> 0]
Job == [kind: {"none", "dd", "blkdiscard"}, state: {"running", "canceled", "done", "failed"},
        from: 0..MaxSize, to: 0..MaxSize]

\* The temporary snapshot is asked for, with its activation; active; and asked to go.
Source == [there: BOOLEAN, tmp: {"none", "asked", "active", "unasked"}, node: Nodes \cup {None}]
NoSource == [there |-> SrcSize > 0, tmp |-> "none", node |-> None]

ClusterPc == {"prepare", "create", "created", "source", "unlabel", "avail",
              "dunlabel", "remove", "finalize"}
NodePc == {"activate", "dd", "wipe", "counter", "deactivate", "dsc", "linear", "attach"}

\* Mutant: the counter adds up what it is given.
MaximumAdds(a, b) == a + b

Maximum(a, b) == IF a >= b THEN a ELSE b

-----------------------------------------------------------------------------
(* How a reconcile ends, and what it may write. *)

\* The reconcile returns without an error: nothing happens until the next event.
Return(c) ==
    /\ pc' = [pc EXCEPT ![c] = "idle"]
    /\ local' = [local EXCEPT ![c] = NoCopy]
    /\ seen' = [seen EXCEPT ![c] = NothingSeen]
    /\ fresh' = fresh \ {c}
    /\ UNCHANGED <<queued, cache>>

\* The reconcile returns an error: controller-runtime queues the key again.
Fail(c) ==
    /\ pc' = [pc EXCEPT ![c] = "idle"]
    /\ local' = [local EXCEPT ![c] = NoCopy]
    /\ seen' = [seen EXCEPT ![c] = NothingSeen]
    /\ fresh' = fresh \ {c}
    /\ queued' = [queued EXCEPT ![c] = TRUE]
    /\ UNCHANGED cache

\* The reconcile goes on with step p, or ends if there is none left.
Continue(c, p, r) ==
    IF p = "idle" THEN Return(c)
                  ELSE /\ pc' = [pc EXCEPT ![c] = p]
                       /\ seen' = [seen EXCEPT ![c] = r]
                       /\ UNCHANGED <<local, fresh, queued, cache>>

\* Update or Status().Update of the reconciler's copy: a conflict (or NotFound)
\* unless the copy still is the server's object, otherwise the copy becomes the
\* server's answer, every other copy is out of date, and the reconcile goes on
\* with step p.
Write(c, v, p) ==
    \/ /\ c \in fresh
       /\ vol' = v
       /\ pc' = [pc EXCEPT ![c] = p]
       /\ local' = [local EXCEPT ![c] = IF p = "idle" THEN NoCopy ELSE v]
       /\ seen' = [seen EXCEPT ![c] = IF p = "idle" THEN NothingSeen ELSE @]
       /\ fresh' = IF p = "idle" THEN {} ELSE {c}
       /\ UNCHANGED <<queued, cache>>
    \/ /\ c \notin fresh
       /\ Fail(c)
       /\ UNCHANGED vol

\* A watch event reaches a reconciler's cache.
WatchEvent(c) ==
    /\ cache[c] # vol
    /\ cache' = [cache EXCEPT ![c] = vol]
    /\ queued' = [queued EXCEPT ![c] = TRUE]
    /\ UNCHANGED <<vol, local, fresh, seen, pc, leader, job, lvmVars, outerVars, boundVars>>

-----------------------------------------------------------------------------
(* LVM, as the reconcilers use it. *)

LvPresent == lv.state = "present"

\* lvchange --activate ey succeeds when no other node holds the LV.
CanLockExclusive(n) == LvPresent /\ \A m \in Nodes \ {n} : active[m] = "no"

\* lvchange --activate sy succeeds when no other node holds it exclusively.
CanLockShared(n) == LvPresent /\ \A m \in Nodes \ {n} : active[m] # "ex"

\* The device is open on the node: by a pod, or by a running dd or blkdiscard.
InUse(n) == kubelet[n] = "used" \/ job[n].state \in {"running", "canceled"}

-----------------------------------------------------------------------------
(* The cluster-wide Volume reconciler, on the leader's node. *)

\* Mutant: the volume becomes available without waiting for population.
AfterCreateEager(v) ==
    CASE ~v.avail -> "avail"
      [] v.avail /\ ~v.dsc /\ v.label = None -> "source"
      [] OTHER -> "idle"

\* Mutant: no population node is ever chosen.
AfterCreateUnlabelled(v) == IF v.dsc /\ ~v.avail THEN "avail" ELSE "idle"

\* The rest of reconcileNotDeleting once the LV exists: choose a population node
\* unless the label is there already, or make a populated volume available.
AfterCreate(v) ==
    CASE ~v.dsc /\ v.label = None -> "source"
      [] v.dsc /\ ~v.avail -> IF v.label # None THEN "unlabel" ELSE "avail"
      [] OTHER -> "idle"

NeedsResize(v) == v.size > 0 /\ v.specSize > v.size
Online(v) == v.attachTo \cup v.attached # {}

\* reconcileNotDeleting; an expansion waits while the volume is online.
NotDeletingPc(v) ==
    CASE NeedsResize(v) -> IF Online(v) THEN "idle" ELSE "prepare"
      [] ~NeedsResize(v) /\ ~v.lvCreated -> "create"
      [] OTHER -> AfterCreate(v)

\* Mutant: the LV is kept when there was no label to clean up.
DeletingPcKeepsLv(v) ==
    CASE v.attached # {} -> "idle"
      [] v.attached = {} /\ v.label # None -> "dunlabel"
      [] OTHER -> "finalize"

\* reconcileDeleting; removal waits while the volume is attached.
DeletingPc(v) ==
    CASE v.attached # {} -> "idle"
      [] v.attached = {} /\ v.label # None -> "dunlabel"
      [] OTHER -> "remove"

\* VolumeReconciler.Reconcile reads its cache and picks the branch.
ReconcileVolume ==
    LET v == cache[Cluster]
        p == CASE v.phase = "live" -> NotDeletingPc(v)
               [] v.phase = "deleting" -> DeletingPc(v)
               [] OTHER -> "idle"
    IN  /\ pc[Cluster] = "idle" /\ queued[Cluster]
        /\ pc' = [pc EXCEPT ![Cluster] = p]
        /\ local' = [local EXCEPT ![Cluster] = IF p = "idle" THEN NoCopy ELSE v]
        /\ fresh' = IF p # "idle" /\ v = vol THEN fresh \cup {Cluster} ELSE fresh
        /\ queued' = [queued EXCEPT ![Cluster] = FALSE]
        /\ UNCHANGED <<vol, cache, seen, leader, job, lvmVars, outerVars, boundVars>>

\* Mutant: population is not started over.
ResizeConditionsKeepCompleted(v) == [v EXCEPT !.abnormal = TRUE]

\* The three SetStatusCondition calls are joined by ||, so the first one that
\* changes its condition keeps the later ones from being made.
ResizeConditions(v) ==
    CASE v.dsc -> [v EXCEPT !.dsc = FALSE]
      [] ~v.dsc /\ v.avail -> [v EXCEPT !.avail = FALSE]
      [] OTHER -> [v EXCEPT !.abnormal = TRUE]

\* reconcilePrepareForResize: record that the volume is resizing.
ReconcilePrepareForResize ==
    LET v == ResizeConditions(local[Cluster])
    IN  /\ pc[Cluster] = "prepare"
        /\ \/ v # local[Cluster] /\ Write(Cluster, v, "create")
           \/ v = local[Cluster] /\ Continue(Cluster, "create", seen[Cluster]) /\ UNCHANGED vol
        /\ UNCHANGED <<leader, job, lvmVars, outerVars, boundVars>>

\* LinearBlobManager.CreateBlob: lvcreate leaves a new LV active on the leader's
\* node; lvextend needs the LV to be inactive, or active here exclusively.
CreateBlob ==
    LET want == local[Cluster].specSize
    IN  /\ pc[Cluster] = "create"
        /\ \/ /\ ~LvPresent
              /\ lv' = [state |-> "present", size |-> want, counter |-> 0,
                        data |-> [e \in Extents |-> "old"]]
              /\ active' = [active EXCEPT ![leader] = "ex"]
              /\ Continue(Cluster, "created", seen[Cluster])
           \/ /\ LvPresent /\ lv.size >= want
              /\ Continue(Cluster, "created", seen[Cluster])
              /\ UNCHANGED lvmVars
           \/ /\ LvPresent /\ lv.size < want
              /\ CanLockExclusive(leader) /\ active[leader] # "sh"
              /\ lv' = [lv EXCEPT !.size = want]
              /\ Continue(Cluster, "created", seen[Cluster])
              /\ UNCHANGED active
           \/ /\ LvPresent /\ lv.size < want
              /\ ~(CanLockExclusive(leader) /\ active[leader] # "sh")
              /\ Fail(Cluster)
              /\ UNCHANGED lvmVars
        /\ UNCHANGED <<vol, leader, job, outerVars, boundVars>>

\* After CreateBlob: record the size LVM reports and the LvCreated condition.
RecordLvCreated ==
    LET v == [local[Cluster] EXCEPT !.size = Maximum(@, lv.size), !.lvCreated = TRUE]
    IN  /\ pc[Cluster] = "created"
        /\ \/ LvPresent /\ v # local[Cluster] /\ Write(Cluster, v, AfterCreate(v))
           \/ LvPresent /\ v = local[Cluster] /\ Continue(Cluster, AfterCreate(v), seen[Cluster]) /\ UNCHANGED vol
           \/ ~LvPresent /\ Fail(Cluster) /\ UNCHANGED vol
        /\ UNCHANGED <<leader, job, lvmVars, outerVars, boundVars>>

Clone == SrcSize > 0

\* getDataSourceBlob and SnapshotBlob find the source, unless its object or its thin LV is
\* gone, or the snapshot of this name is one that was asked to go.
DataSourceFound == Clone => source.there /\ source.tmp # "unasked"

\* activateDataSource: the source's pool makes a temporary snapshot and activates it, on a
\* node that uses the pool already, or else on the leader's; any node stands for either.
\* Once it is active the leader's node becomes the population node. The reconciler waits
\* for the pool's events, and fails when the source is not found.
ActivateDataSource ==
    /\ pc[Cluster] = "source"
    /\ \/ /\ ~DataSourceFound
          /\ Fail(Cluster) /\ UNCHANGED <<vol, source>>
       \/ /\ DataSourceFound /\ Clone /\ source.tmp = "none"
          /\ \E n \in Nodes : source' = [source EXCEPT !.tmp = "asked", !.node = n]
          /\ Return(Cluster) /\ UNCHANGED vol
       \/ /\ DataSourceFound /\ Clone /\ source.tmp = "asked"
          /\ Return(Cluster) /\ UNCHANGED <<vol, source>>
       \/ /\ DataSourceFound /\ (Clone => source.tmp = "active")
          /\ Write(Cluster, [local[Cluster] EXCEPT !.label = leader], "idle")
          /\ UNCHANGED source
    /\ UNCHANGED <<leader, job, lvmVars, kubelet, published, deletePending, boundVars>>

\* deactivateDataSource removes the temporary snapshot and then the label, before the volume
\* becomes available or while it is being deleted. Only in the latter case is waiting for
\* the pool an error, and tried again.
DeactivateDataSource ==
    /\ pc[Cluster] \in {"unlabel", "dunlabel"}
    /\ \/ /\ source.tmp # "none"
          /\ source' = [source EXCEPT !.tmp = "unasked"]
          /\ IF pc[Cluster] = "unlabel" THEN Return(Cluster) ELSE Fail(Cluster)
          /\ UNCHANGED vol
       \/ /\ source.tmp = "none"
          /\ Write(Cluster, [local[Cluster] EXCEPT !.label = None],
                   IF pc[Cluster] = "unlabel" THEN "avail" ELSE "remove")
          /\ UNCHANGED source
    /\ UNCHANGED <<leader, job, lvmVars, kubelet, published, deletePending, boundVars>>

SetAvailable ==
    /\ pc[Cluster] = "avail"
    /\ Write(Cluster, [local[Cluster] EXCEPT !.avail = TRUE, !.abnormal = FALSE], "idle")
    /\ UNCHANGED <<leader, job, lvmVars, outerVars, boundVars>>

\* Mutant: the error is logged and dropped.
RetryRemovalNever == Return(Cluster)

\* reconcileDeleting hands RemoveBlob's error to controller-runtime.
RetryRemoval == Fail(Cluster)

\* lvremove without -y, nobody answering its question, fails while any node holds the LV.
Removable == \A n \in Nodes : active[n] = "no"

RemoveBlob ==
    /\ pc[Cluster] = "remove"
    /\ \/ /\ LvPresent /\ Removable
          /\ lv' = [lv EXCEPT !.state = "removed"]
          /\ Continue(Cluster, "finalize", seen[Cluster])
       \/ /\ ~LvPresent
          /\ Continue(Cluster, "finalize", seen[Cluster])
          /\ UNCHANGED lv
       \/ /\ LvPresent /\ ~Removable
          /\ RetryRemoval
          /\ UNCHANGED lv
    /\ UNCHANGED <<vol, active, leader, job, outerVars, boundVars>>

\* reconcileDeleting ends by taking the finalizer away: the object goes.
RemoveFinalizer ==
    /\ pc[Cluster] = "finalize"
    /\ Write(Cluster, [local[Cluster] EXCEPT !.phase = "gone"], "idle")
    /\ UNCHANGED <<leader, job, lvmVars, outerVars, boundVars>>

-----------------------------------------------------------------------------
(* The node Volume reconciler of node n. *)

Ready(v) == IF v.avail THEN "linear" ELSE "idle"

\* VolumeNodeReconciler.Reconcile reads its cache: populate, serve, or nothing.
ReconcileNode(n) ==
    LET v == cache[n]
        p == CASE v.phase = "gone" -> "idle"
               [] v.phase # "gone" /\ v.lvCreated /\ ~v.dsc /\ v.label = n -> "activate"
               [] OTHER -> Ready(v)
    IN  /\ pc[n] = "idle" /\ queued[n]
        /\ pc' = [pc EXCEPT ![n] = p]
        /\ local' = [local EXCEPT ![n] = IF p = "idle" THEN NoCopy ELSE v]
        /\ fresh' = IF p # "idle" /\ v = vol THEN fresh \cup {n} ELSE fresh
        /\ queued' = [queued EXCEPT ![n] = FALSE]
        /\ UNCHANGED <<vol, cache, seen, leader, job, lvmVars, outerVars, boundVars>>

\* Mutant: the counter's tag is not recognised.
GetCounterIgnoresTag == 0

\* LvmLvGetCounter: the value of the safe-offset tag.
GetCounter == lv.counter

\* reconcileLinearPopulating: activate exclusively and read the counter tag.
PopulateActivate(n) ==
    /\ pc[n] = "activate"
    /\ \/ /\ CanLockExclusive(n)
          /\ active' = [active EXCEPT ![n] = "ex"]
          /\ Continue(n, IF SrcSize > 0 /\ GetCounter = 0 THEN "dd" ELSE "wipe",
                      [seen[n] EXCEPT !.offset = GetCounter])
       \/ /\ ~CanLockExclusive(n)
          /\ Fail(n)
          /\ UNCHANGED active
    /\ UNCHANGED <<vol, lv, leader, job, outerVars, boundVars>>

\* Workers.Run: start the work if there is none, take the result if it is done.
\* One volume has at most one worker on a node, as dd is over before blkdiscard
\* starts.
RunStarts(n, kind, from, to) ==
    /\ job[n].kind # kind
    /\ job' = [job EXCEPT ![n] = [kind |-> kind, state |-> "running", from |-> from, to |-> to]]
    /\ Return(n)
RunPends(n, kind) ==
    /\ job[n].kind = kind /\ job[n].state \in {"running", "canceled"}
    /\ Return(n)
    /\ UNCHANGED job
RunFails(n, kind) ==
    /\ job[n].kind = kind /\ job[n].state = "failed"
    /\ job' = [job EXCEPT ![n] = NoJob]
    /\ Fail(n)
RunSucceeds(n, kind) ==
    /\ job[n].kind = kind /\ job[n].state = "done"
    /\ job' = [job EXCEPT ![n] = NoJob]

\* Workers.Cancel: pending until the work has stopped.
CancelPends(n, kind) ==
    /\ job[n].kind = kind /\ job[n].state \in {"running", "canceled"}
    /\ job' = [job EXCEPT ![n].state = "canceled"]
    /\ Return(n)
CancelDone(n, kind) ==
    /\ ~(job[n].kind = kind /\ job[n].state \in {"running", "canceled"})
    /\ job' = [job EXCEPT ![n] = IF @.kind = kind THEN NoJob ELSE @]

\* The temporary snapshot is active on the node.
SourceMounted(n) == source.node = n /\ source.tmp \in {"active", "unasked"}

\* reconcileSourcePopulating, which needs both devices, and the counter update that
\* follows it.
PopulateFromSource(n) ==
    /\ pc[n] = "dd"
    /\ \/ /\ local[n].phase = "deleting"
          /\ \/ CancelPends(n, "dd")
             \/ CancelDone(n, "dd") /\ LvPresent /\ Continue(n, "wipe", seen[n])
             \/ CancelDone(n, "dd") /\ ~LvPresent /\ Fail(n)
          /\ UNCHANGED lv
       \/ /\ local[n].phase = "live" /\ ~(SourceMounted(n) /\ active[n] # "no")
          /\ Fail(n) /\ UNCHANGED <<job, lv>>
       \/ /\ local[n].phase = "live" /\ SourceMounted(n) /\ active[n] # "no"
          /\ \/ RunStarts(n, "dd", 0, SrcSize) /\ UNCHANGED lv
             \/ RunPends(n, "dd") /\ UNCHANGED lv
             \/ RunFails(n, "dd") /\ UNCHANGED lv
             \/ /\ RunSucceeds(n, "dd")
                /\ lv' = [lv EXCEPT !.counter = Maximum(@, SrcSize)]
                /\ Continue(n, "wipe", [seen[n] EXCEPT !.offset = SrcSize])
    /\ UNCHANGED <<vol, active, leader, outerVars, boundVars>>

\* Zero the LV from the counter's offset to its end, or stop doing so.
PopulateWipe(n) ==
    LET wipes == seen[n].offset < lv.size /\ WipePolicy # "UnsafeFast"
        measured == [seen[n] EXCEPT !.size = lv.size]
    IN  /\ pc[n] = "wipe"
        /\ \/ /\ local[n].phase = "deleting"
              /\ \/ CancelPends(n, "blkdiscard")
                 \/ CancelDone(n, "blkdiscard") /\ Continue(n, "deactivate", seen[n])
           \/ /\ local[n].phase = "live" /\ VolumeType = "Filesystem"
              /\ Continue(n, "deactivate", seen[n])
              /\ UNCHANGED job
           \/ /\ local[n].phase = "live" /\ VolumeType = "Block" /\ ~LvPresent
              /\ Fail(n)
              /\ UNCHANGED job
           \/ /\ local[n].phase = "live" /\ VolumeType = "Block" /\ LvPresent /\ wipes
              /\ \/ RunStarts(n, "blkdiscard", seen[n].offset, lv.size)
                 \/ RunPends(n, "blkdiscard")
                 \/ RunFails(n, "blkdiscard")
                 \/ RunSucceeds(n, "blkdiscard") /\ Continue(n, "counter", measured)
           \/ /\ local[n].phase = "live" /\ VolumeType = "Block" /\ LvPresent /\ ~wipes
              /\ Continue(n, "counter", measured)
              /\ UNCHANGED job
        /\ UNCHANGED <<vol, leader, lvmVars, outerVars, boundVars>>

\* LvmLvUpdateCounterIfLower with the size that was read before the wipe.
PopulateCounter(n) ==
    /\ pc[n] = "counter"
    /\ \/ /\ LvPresent
          /\ lv' = [lv EXCEPT !.counter = Maximum(@, seen[n].size)]
          /\ Continue(n, "deactivate", seen[n])
       \/ ~LvPresent /\ Fail(n) /\ UNCHANGED lv
    /\ UNCHANGED <<vol, active, leader, job, outerVars, boundVars>>

\* lvchange --activate n at the end of reconcileLinearPopulating.
PopulateDeactivate(n) ==
    /\ pc[n] = "deactivate"
    /\ \/ /\ LvPresent /\ ~InUse(n)
          /\ active' = [active EXCEPT ![n] = "no"]
          /\ Continue(n, IF local[n].phase = "deleting" THEN "idle" ELSE "dsc", seen[n])
       \/ ~(LvPresent /\ ~InUse(n)) /\ Fail(n) /\ UNCHANGED active
    /\ UNCHANGED <<vol, lv, leader, job, outerVars, boundVars>>

\* Signal to the cluster reconciler that population is done.
SetDataSourceCompleted(n) ==
    /\ pc[n] = "dsc"
    /\ Write(n, [local[n] EXCEPT !.dsc = TRUE], Ready(local[n]))
    /\ UNCHANGED <<leader, job, lvmVars, outerVars, boundVars>>

\* reconcileLinear: hold the LV shared exactly when the volume is to be attached
\* here.
ReconcileLinear(n) ==
    LET should == local[n].phase = "live" /\ n \in local[n].attachTo
        actual == active[n] # "no"
        after(isActive) == IF isActive = (n \in local[n].attached) THEN "idle" ELSE "attach"
    IN  /\ pc[n] = "linear"
        /\ \/ /\ should /\ ~actual /\ CanLockShared(n)
              /\ active' = [active EXCEPT ![n] = "sh"]
              /\ Continue(n, after(TRUE), seen[n])
           \/ should /\ ~actual /\ ~CanLockShared(n) /\ Fail(n) /\ UNCHANGED active
           \/ /\ ~should /\ actual /\ ~InUse(n)
              /\ active' = [active EXCEPT ![n] = "no"]
              /\ Continue(n, after(FALSE), seen[n])
           \/ ~should /\ actual /\ InUse(n) /\ Fail(n) /\ UNCHANGED active
           \/ should = actual /\ Continue(n, after(actual), seen[n]) /\ UNCHANGED active
        /\ UNCHANGED <<vol, lv, leader, job, outerVars, boundVars>>

\* Mutant: the status is not written.
UpdateAttachedToNodesForgotten(n) ==
    /\ pc[n] = "attach"
    /\ Return(n)
    /\ UNCHANGED <<vol, leader, job, lvmVars, outerVars, boundVars>>

\* Record in the status what reconcileLinear did.
UpdateAttachedToNodes(n) ==
    /\ pc[n] = "attach"
    /\ Write(n, [local[n] EXCEPT !.attached = IF n \in @ THEN @ \ {n} ELSE @ \cup {n}], "idle")
    /\ UNCHANGED <<leader, job, lvmVars, outerVars, boundVars>>

\* Mutant: the wipe starts one extent late.
WrittenLate(j, data) ==
    [e \in Extents |->
        CASE j.kind = "blkdiscard" /\ e > j.from + 1 /\ e <= j.to -> "zero"
          [] j.kind = "dd" /\ e <= j.to /\ e \notin SrcHoles -> "source"
          [] OTHER -> data[e]]

\* What a worker's command has written once it is complete. dd runs with
\* conv=sparse: it seeks over blocks of the source that hold only zeroes.
Written(j, data) ==
    [e \in Extents |->
        CASE j.kind = "blkdiscard" /\ e > j.from /\ e <= j.to -> "zero"
          [] j.kind = "dd" /\ e <= j.to /\ e \notin SrcHoles -> "source"
          [] OTHER -> data[e]]

\* The worker's event reaches the work queue.
TriggerReconcile(n) == queued' = [queued EXCEPT ![n] = TRUE]

\* The worker's command ends and its event queues the volume. A canceled command
\* was killed before it was complete.
WorkerDone(n) ==
    /\ \/ /\ job[n].state = "running"
          /\ lv' = [lv EXCEPT !.data = Written(job[n], @)]
          /\ job' = [job EXCEPT ![n].state = "done"]
       \/ /\ job[n].state = "canceled"
          /\ job' = [job EXCEPT ![n].state = "failed"]
          /\ UNCHANGED lv
    /\ TriggerReconcile(n)
    /\ UNCHANGED <<vol, cache, local, fresh, seen, pc, active, leader, outerVars, boundVars>>

-----------------------------------------------------------------------------
(* The clone source: its owner deletes it, and its thin pool does what it is asked. *)

SourceDeleted ==
    /\ source.there
    /\ source' = [source EXCEPT !.there = FALSE]
    /\ UNCHANGED <<vol, reconcileVars, leader, job, lvmVars, kubelet, published, deletePending, boundVars>>

\* The pool's status changes, and the event queues the Volume, an owner of the pool.
PoolAnswers(s) ==
    /\ source' = s
    /\ queued' = [queued EXCEPT ![Cluster] = TRUE]
    /\ UNCHANGED <<vol, cache, local, fresh, seen, pc, leader, job, lvmVars,
                   kubelet, published, deletePending, boundVars>>
SourceActivated ==
    /\ source.tmp = "asked"
    /\ PoolAnswers([source EXCEPT !.tmp = "active"])
\* A device that dd reads is not deactivated.
SourceReleased ==
    /\ source.tmp = "unasked"
    /\ \A n \in Nodes : ~(job[n].kind = "dd" /\ job[n].state \in {"running", "canceled"})
    /\ PoolAnswers([source EXCEPT !.tmp = "none", !.node = None])

-----------------------------------------------------------------------------
(* Faults. *)

WorkerFails(n) ==
    /\ faults < MaxFaults /\ job[n].state = "running"
    /\ faults' = faults + 1
    /\ job' = [job EXCEPT ![n].state = "failed"]
    /\ TriggerReconcile(n)
    /\ UNCHANGED <<vol, cache, local, fresh, seen, pc, leader, lvmVars, outerVars, stages, elections>>

\* The node manager's process starts again: its reconcile and worker are gone,
\* the LV stays as it was, and the first list queues the volume.
Restarted(n) ==
    /\ faults < MaxFaults
    /\ faults' = faults + 1
    /\ pc' = [pc EXCEPT ![n] = "idle"]
    /\ local' = [local EXCEPT ![n] = NoCopy]
    /\ cache' = [cache EXCEPT ![n] = vol]
    /\ queued' = [queued EXCEPT ![n] = TRUE]
    /\ seen' = [seen EXCEPT ![n] = NothingSeen]
    /\ fresh' = fresh \ {n}
    /\ job' = [job EXCEPT ![n] = NoJob]
    /\ UNCHANGED <<vol, leader, lv, published, deletePending, source, stages, elections>>

RestartNode(n) == Restarted(n) /\ UNCHANGED <<active, kubelet>>

\* A reboot also releases the node's LVM lock; kubelet stages its volumes again.
RebootNode(n) ==
    /\ Restarted(n)
    /\ active' = [active EXCEPT ![n] = "no"]
    /\ kubelet' = [kubelet EXCEPT ![n] = IF @ \in {"staged", "used"} THEN "staging" ELSE @]

\* The cluster manager crashes or loses its lease; another takes over.
Election(n) ==
    /\ elections < MaxElections
    /\ elections' = elections + 1
    /\ leader' = n
    /\ pc' = [pc EXCEPT ![Cluster] = "idle"]
    /\ local' = [local EXCEPT ![Cluster] = NoCopy]
    /\ seen' = [seen EXCEPT ![Cluster] = NothingSeen]
    /\ fresh' = fresh \ {Cluster}
    /\ cache' = [cache EXCEPT ![Cluster] = vol]
    /\ queued' = [queued EXCEPT ![Cluster] = TRUE]
    /\ UNCHANGED <<vol, job, lvmVars, outerVars, stages, faults>>

-----------------------------------------------------------------------------
(* CSI calls. Their read-modify-write of the Volume retries on a conflict, so   *)
(* it is one step; each then waits for a condition of the Volume.               *)

CreateVolumeReturns ==
    /\ ~published /\ vol.phase # "gone" /\ vol.avail
    /\ published' = TRUE
    /\ UNCHANGED <<vol, reconcileVars, leader, job, lvmVars, kubelet, deletePending, source, boundVars>>

CsiWrites(v) ==
    /\ vol' = v
    /\ fresh' = {}
    /\ UNCHANGED <<cache, local, seen, pc, queued, leader, job, lvmVars, faults, elections>>

NodeStageVolume(n) ==
    /\ published /\ kubelet[n] = "idle" /\ vol.phase = "live"
    /\ stages < MaxStages /\ stages' = stages + 1
    /\ CsiWrites([vol EXCEPT !.attachTo = @ \cup {n}])
    /\ kubelet' = [kubelet EXCEPT ![n] = "staging"]
    /\ UNCHANGED <<published, deletePending, source>>

NodeUnstageVolume(n) ==
    /\ kubelet[n] \in {"staging", "staged"} /\ vol.phase # "gone"
    /\ CsiWrites([vol EXCEPT !.attachTo = @ \ {n}])
    /\ kubelet' = [kubelet EXCEPT ![n] = "unstaging"]
    /\ UNCHANGED <<published, deletePending, source, stages>>

Kubelet(n, from, to) ==
    /\ kubelet[n] = from
    /\ kubelet' = [kubelet EXCEPT ![n] = to]
    /\ UNCHANGED <<vol, reconcileVars, leader, job, lvmVars, published, deletePending, source, boundVars>>

\* Mutant: NodeStageVolume does not wait.
NodeStageReturnsEarly(n) == Kubelet(n, "staging", "staged")
NodeStageReturns(n) ==
    vol.phase # "gone" /\ n \in vol.attached /\ Kubelet(n, "staging", "staged")
NodeUnstageReturns(n) ==
    vol.phase # "gone" /\ n \notin vol.attached /\ Kubelet(n, "unstaging", "idle")

\* NodePublishVolume links the device for a pod, which opens it (it must exist),
\* writes extents, and closes it before NodeUnpublishVolume. The check of the
\* Volume reads a cache that may be as old as NodeStageVolume's own write, which
\* passes it.
NodePublishVolume(n) == active[n] # "no" /\ Kubelet(n, "staged", "used")
NodeUnpublishVolume(n) == Kubelet(n, "used", "staged")
PodWrites(n, e) ==
    /\ kubelet[n] = "used" /\ active[n] # "no" /\ e <= lv.size
    /\ lv' = [lv EXCEPT !.data[e] = "user"]
    /\ UNCHANGED <<vol, reconcileVars, leader, job, active, outerVars, boundVars>>

\* DeleteVolume looks for staged nodes, then deletes without a precondition.
DeleteVolumeChecks ==
    /\ MaxDeletes > 0 /\ ~deletePending /\ vol.phase = "live" /\ vol.attachTo = {}
    /\ deletePending' = TRUE
    /\ UNCHANGED <<vol, reconcileVars, leader, job, lvmVars, kubelet, published, source, boundVars>>
DeleteVolumeDeletes ==
    /\ deletePending /\ vol.phase = "live"
    /\ CsiWrites([vol EXCEPT !.phase = "deleting"])
    /\ UNCHANGED <<outerVars, stages>>

\* ControllerExpandVolume refuses a linear volume that is attached, and a
\* filesystem.
ControllerExpandVolume(s) ==
    /\ published /\ vol.phase = "live" /\ VolumeType = "Block"
    /\ vol.attachTo \cup vol.attached = {}
    /\ s > vol.specSize
    /\ CsiWrites([vol EXCEPT !.specSize = s])
    /\ UNCHANGED <<outerVars, stages>>

-----------------------------------------------------------------------------

Init ==
    /\ vol = NewVolume
    /\ cache = [c \in Controllers |-> NewVolume]
    /\ local = [c \in Controllers |-> NoCopy]
    /\ pc = [c \in Controllers |-> "idle"]
    /\ queued = [c \in Controllers |-> TRUE]
    /\ leader \in Nodes
    /\ seen = [c \in Controllers |-> NothingSeen]
    /\ fresh = {}
    /\ job = [n \in Nodes |-> NoJob]
    /\ lv = [state |-> "none", size |-> 0, counter |-> 0, data |-> [e \in Extents |-> "old"]]
    /\ active = [n \in Nodes |-> "no"]
    /\ kubelet = [n \in Nodes |-> "idle"]
    /\ published = FALSE /\ deletePending = FALSE /\ source = NoSource
    /\ stages = 0 /\ faults = 0 /\ elections = 0

ClusterStep ==
    \/ ReconcileVolume \/ ReconcilePrepareForResize \/ CreateBlob \/ RecordLvCreated
    \/ ActivateDataSource \/ DeactivateDataSource \/ SetAvailable
    \/ RemoveBlob \/ RemoveFinalizer

NodeStep(n) ==
    \/ ReconcileNode(n) \/ PopulateActivate(n) \/ PopulateFromSource(n) \/ PopulateWipe(n)
    \/ PopulateCounter(n) \/ PopulateDeactivate(n) \/ SetDataSourceCompleted(n)
    \/ ReconcileLinear(n) \/ UpdateAttachedToNodes(n)

CsiStep(n) ==
    \/ NodeStageVolume(n) \/ NodeStageReturns(n) \/ NodePublishVolume(n) \/ NodeUnpublishVolume(n)
    \/ NodeUnstageVolume(n) \/ NodeUnstageReturns(n)
    \/ \E e \in Extents : PodWrites(n, e)

Fault(n) == WorkerFails(n) \/ RestartNode(n) \/ RebootNode(n) \/ Election(n)

\* Everything but expansion.
LifecycleNext ==
    \/ ClusterStep
    \/ \E c \in Controllers : WatchEvent(c)
    \/ \E n \in Nodes : NodeStep(n) \/ WorkerDone(n) \/ CsiStep(n) \/ Fault(n)
    \/ CreateVolumeReturns \/ DeleteVolumeChecks \/ DeleteVolumeDeletes
    \/ SourceDeleted \/ SourceActivated \/ SourceReleased

Next == LifecycleNext \/ \E s \in Extents : ControllerExpandVolume(s)

LifecycleSpec == Init /\ [][LifecycleNext]_vars
Spec == Init /\ [][Next]_vars

\* Reconcilers, watches, workers and the source's pool act when they have something to
\* do; kubelet, pods, users and faults need not.
Fairness ==
    /\ WF_vars(ClusterStep) /\ WF_vars(SourceActivated \/ SourceReleased)
    /\ \A c \in Controllers : WF_vars(WatchEvent(c))
    /\ \A n \in Nodes : WF_vars(NodeStep(n)) /\ WF_vars(WorkerDone(n))
FairLifecycleSpec == LifecycleSpec /\ Fairness
FairSpec == Spec /\ Fairness

-----------------------------------------------------------------------------
(* Properties. *)

\* Every variable keeps its type; in particular the sizes and the safe-offset
\* counter stay within the volume.
TypeOK ==
    /\ vol \in Volume
    /\ cache \in [Controllers -> Volume] /\ local \in [Controllers -> Volume]
    /\ seen \in [Controllers -> [offset: 0..MaxSize, size: 0..MaxSize]]
    /\ fresh \subseteq Controllers
    /\ pc \in [Controllers -> {"idle"} \cup ClusterPc \cup NodePc]
    /\ queued \in [Controllers -> BOOLEAN]
    /\ leader \in Nodes
    /\ job \in [Nodes -> Job]
    /\ lv \in Lv
    /\ active \in [Nodes -> {"no", "sh", "ex"}]
    /\ kubelet \in [Nodes -> {"idle", "staging", "staged", "used", "unstaging"}]
    /\ published \in BOOLEAN /\ deletePending \in BOOLEAN /\ source \in Source
    /\ stages \in 0..MaxStages /\ faults \in 0..MaxFaults /\ elections \in 0..MaxElections

\* The image is within reach of a user on the node: the node Volume reconciler
\* activated it for attachment, or NodeStageVolume handed it to kubelet.
Exposed(n) == active[n] = "sh" \/ kubelet[n] \in {"staged", "used"}

\* reconcileLinearPopulating: "must never expose the image to the user while the
\* stored value is less than the lv size".
ExposedIsSafe ==
    (VolumeType = "Block" /\ LvPresent /\ \E n \in Nodes : Exposed(n))
        => lv.counter >= lv.size

\* The counter tag tells "how much of the image has been zeroed and then exposed":
\* no extent below it still holds what the disk held before the volume existed, except
\* where the clone source holds zeroes and dd skipped them (README, observations).
SafeOffsetIsWiped ==
    (VolumeType = "Block" /\ WipePolicy = "Full" /\ LvPresent)
        => \A e \in 1..lv.counter : lv.data[e] = "old" => e \in SrcHoles

\* reconcileLinearPopulating: "We must never touch an offset prior to the stored
\* value": a dd or blkdiscard that can still write starts at the counter or beyond,
\* whatever leader changes, restarts and expansions happened since it was started.
SafeOffsetKept ==
    \A n \in Nodes : job[n].state = "running" /\ LvPresent => job[n].from >= lv.counter

\* Nothing but a user's own write, or the removal of the volume, replaces what a
\* user wrote: neither wipe nor clone population runs after the image was exposed.
UserDataKept ==
    [][\A e \in Extents : lv.data[e] = "user" => lv'.data[e] = "user"]_vars

\* When the Volume object goes, reconcileDeleting has removed the LV and no node
\* holds it: nothing is left behind that no object accounts for.
GoneMeansRemoved ==
    vol.phase = "gone" => ~LvPresent /\ \A n \in Nodes : active[n] = "no"

\* While the Volume lives, a node reconciler working from an old copy never takes
\* the device away from under a staged volume.
StagedIsBacked ==
    \A n \in Nodes : kubelet[n] \in {"staged", "used"} /\ vol.phase = "live"
                        => active[n] # "no"

\* What the code leaves undone for good (README, counterexamples). LeftLocked: a node holds the LV
\* exclusively and is not, or no longer, the population node, so that its reconciler never
\* releases it. Orphaned: a clone that needs its source again has lost it. Misplaced: the
\* population node is not where the source is active.
LeftLocked == \E n \in Nodes : active[n] = "ex" /\ vol.label # n
Orphaned == Clone /\ ~source.there /\ vol.label = None
Misplaced == vol.label # None /\ source.node \notin {None, vol.label}

\* LinearBlobManager.CreateBlob: "we can leave the device activated because it
\* will be deactivated when the node reconciler finishes wiping".
LeftActiveIsReleased ==
    \A n \in Nodes : active[n] = "ex" ~> active[n] # "ex"

\* DeactivateBlobForCloneTarget: "Deactivation was taken care of in the node reconciler",
\* also of a volume that is deleted before it is populated.
UnlabelledIsReleased ==
    \A n \in Nodes : vol.phase = "deleting" /\ vol.label = None /\ active[n] = "ex"
                        ~> active[n] # "ex"

\* A volume being deleted goes, unless DeleteVolume raced with NodeStageVolume and some node
\* still has it, or an exclusive lock is left behind.
DeleteCompletes ==
    vol.phase = "deleting" ~>
        \/ vol.phase = "gone" \/ \E n \in Nodes : kubelet[n] \in {"staging", "staged", "used"}
        \/ []LeftLocked

\* A NodeStageVolume that waits sees the volume attached in the end, unless the
\* volume is being deleted or kubelet gives up.
StageCompletes ==
    \A n \in Nodes : kubelet[n] = "staging" ~>
        (n \in vol.attached \/ kubelet[n] # "staging" \/ vol.phase # "live")

\* CreateVolume returns in the end: the volume becomes available, or is deleted, unless the
\* source is deleted too early or is active elsewhere, or a lock is left behind.
CreationCompletes ==
    <>(vol.avail \/ vol.phase # "live" \/ []LeftLocked \/ []Orphaned \/ []Misplaced)

\* An expansion that ControllerExpandVolume accepted is carried out and wiped, unless the
\* volume is deleted or attached again in the meantime, or a clone has lost its source.
ExpansionCompletes ==
    vol.specSize > vol.size /\ published ~>
        \/ lv.counter >= vol.specSize /\ vol.dsc
        \/ vol.phase # "live" \/ stages > 0 \/ []Orphaned

\* A clone is a volume of its own: what happens to its source after CreateVolume returned
\* does not keep it from being expanded.
CloneIsIndependent ==
    vol.specSize > vol.size /\ published ~>
        \/ lv.counter >= vol.specSize /\ vol.dsc
        \/ vol.phase # "live" \/ stages > 0
=============================================================================
