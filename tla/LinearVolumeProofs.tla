------------------------- MODULE LinearVolumeProofs -------------------------
(***************************************************************************)
(* Proofs about LinearVolume, for every set of nodes and every value of    *)
(* the other constants.                                                    *)
(***************************************************************************)
EXTENDS LinearVolume, TLAPS

Pcs == {"idle"} \cup ClusterPc \cup NodePc
Seen == [offset: 0..MaxSize, size: 0..MaxSize]

\* The part of TypeOK that a reconcile step changes.
ReconcileTypes ==
    /\ vol \in Volume
    /\ cache \in [Controllers -> Volume] /\ local \in [Controllers -> Volume]
    /\ seen \in [Controllers -> Seen]
    /\ fresh \subseteq Controllers
    /\ pc \in [Controllers -> Pcs]
    /\ queued \in [Controllers -> BOOLEAN]

\* The null values have their types.
LEMMA NullTypes == NewVolume \in Volume /\ NoCopy \in Volume /\ NothingSeen \in Seen
                   /\ NoJob \in Job /\ NoSource \in Source
  <1>1. InitSize \in Extents /\ 0 \in 0..MaxSize
    BY SizeAssumption DEF SizeAssumption, Extents
  <1>2. NewVolume \in Volume
    BY <1>1 DEF NewVolume, Volume
  <1>3. NoCopy \in Volume
    BY <1>2 DEF NoCopy, Volume
  <1>4. QED
    BY <1>1, <1>2, <1>3 DEF NothingSeen, Seen, NoJob, Job, NoSource, Source

\* Return and Fail keep the types.
LEMMA EndTypes ==
  ASSUME ReconcileTypes, NEW c \in Controllers, Return(c) \/ Fail(c), UNCHANGED vol
  PROVE  ReconcileTypes'
  BY NullTypes, ZenonT(30) DEF ReconcileTypes, Return, Fail, Pcs

\* Continue keeps the types.
LEMMA ContinueTypes ==
  ASSUME ReconcileTypes, NEW c \in Controllers, NEW p \in Pcs, NEW r \in Seen,
         Continue(c, p, r), UNCHANGED vol
  PROVE  ReconcileTypes'
  <1>1. CASE p = "idle"
    BY <1>1, EndTypes DEF Continue
  <1>2. CASE p # "idle"
    BY <1>2 DEF ReconcileTypes, Continue
  <1>3. QED BY <1>1, <1>2

\* Write keeps the types.
LEMMA WriteTypes ==
  ASSUME ReconcileTypes, NEW c \in Controllers, NEW v \in Volume, NEW p \in Pcs,
         Write(c, v, p)
  PROVE  ReconcileTypes'
  <1>1. CASE c \in fresh
    BY <1>1, NullTypes DEF ReconcileTypes, Write, Fail
  <1>2. CASE c \notin fresh
    BY <1>2, EndTypes DEF Write
  <1>3. QED BY <1>1, <1>2

\* Where a reconcile goes next is one of its steps.
LEMMA NextPcTypes ==
  ASSUME NEW v \in Volume
  PROVE  AfterCreate(v) \in Pcs /\ NotDeletingPc(v) \in Pcs /\ DeletingPc(v) \in Pcs
         /\ Ready(v) \in Pcs
  <1>1. AfterCreate(v) \in Pcs
    BY DEF AfterCreate, Pcs, ClusterPc
  <1>2. QED
    BY <1>1 DEF NotDeletingPc, DeletingPc, Ready, Pcs, ClusterPc, NodePc

\* Updates of a Volume that keep its type.
LEMMA VolumeUpdates ==
  ASSUME NEW v \in Volume
  PROVE  /\ ResizeConditions(v) \in Volume
         /\ \A n \in Nodes \cup {None} : [v EXCEPT !.label = n] \in Volume
         /\ [v EXCEPT !.avail = TRUE, !.abnormal = FALSE] \in Volume
         /\ \A p \in {"live", "deleting", "gone"} : [v EXCEPT !.phase = p] \in Volume
         /\ [v EXCEPT !.dsc = TRUE] \in Volume
         /\ \A s \in Extents : [v EXCEPT !.specSize = s] \in Volume
         /\ \A s \in 0..MaxSize : [v EXCEPT !.size = s, !.lvCreated = TRUE] \in Volume
         /\ \A t \in SUBSET Nodes : /\ [v EXCEPT !.attachTo = t] \in Volume
                                    /\ [v EXCEPT !.attached = t] \in Volume
  <1>1. ResizeConditions(v) \in Volume
    BY DEF Volume, ResizeConditions
  <1>2. QED
    BY <1>1 DEF Volume


\* The part of TypeOK that a reconcile step leaves alone unless it runs an LVM
\* command or a worker.
OtherTypes ==
    /\ leader \in Nodes
    /\ job \in [Nodes -> Job]
    /\ lv \in Lv
    /\ active \in [Nodes -> {"no", "sh", "ex"}]
    /\ kubelet \in [Nodes -> {"idle", "staging", "staged", "used", "unstaging"}]
    /\ published \in BOOLEAN /\ deletePending \in BOOLEAN /\ source \in Source
    /\ stages \in 0..MaxStages /\ faults \in 0..MaxFaults /\ elections \in 0..MaxElections

LEMMA TypeParts == TypeOK <=> ReconcileTypes /\ OtherTypes
  BY DEF TypeOK, ReconcileTypes, OtherTypes, Pcs, Seen

LEMMA TypeInit == Init => TypeOK
  <1>1. Init => ReconcileTypes
    BY NullTypes DEF Init, ReconcileTypes, Pcs
  <1>2. 0 \in 0..MaxSize /\ 0 \in 0..MaxStages /\ 0 \in 0..MaxFaults /\ 0 \in 0..MaxElections
    BY SizeAssumption, BoundAssumption DEF SizeAssumption, BoundAssumption
  <1>3. Init => lv \in Lv
    BY <1>2 DEF Init, Lv, Contents
  <1>4. Init => OtherTypes
    BY <1>2, <1>3, NullTypes, ZenonT(30) DEF Init, OtherTypes
  <1>5. QED BY <1>1, <1>4, TypeParts

\* Every step of the cluster-wide reconciler keeps the types.
LEMMA ClusterTypes == TypeOK /\ ClusterStep => TypeOK'
  <1> SUFFICES ASSUME ReconcileTypes, OtherTypes, ClusterStep
               PROVE  ReconcileTypes' /\ OtherTypes'
    BY DEF TypeOK, ReconcileTypes, OtherTypes, Pcs, Seen
  <1> DEFINE v == local[Cluster]
  <1>0. Cluster \in Controllers /\ v \in Volume /\ cache[Cluster] \in Volume
        /\ seen[Cluster] \in Seen /\ lv.size \in 0..MaxSize
    BY DEF ReconcileTypes, OtherTypes, Controllers, Lv
  <1>1. CASE ReconcileVolume
    <2>1. ReconcileTypes'
      BY <1>0, <1>1, NullTypes, NextPcTypes DEF ReconcileVolume, ReconcileTypes, Pcs
    <2>2. QED BY <1>1, <2>1 DEF ReconcileVolume, OtherTypes, lvmVars, outerVars, boundVars
  <1>2. CASE ReconcilePrepareForResize
    <2>1. "create" \in Pcs
      BY DEF Pcs, ClusterPc
    <2>2. ReconcileTypes'
      BY <1>0, <1>2, <2>1, VolumeUpdates, WriteTypes, ContinueTypes DEF ReconcilePrepareForResize
    <2>3. QED BY <1>2, <2>2 DEF ReconcilePrepareForResize, OtherTypes, lvmVars, outerVars, boundVars
  <1>3. CASE CreateBlob
    <2>1. "created" \in Pcs
      BY DEF Pcs, ClusterPc
    <2>2. ReconcileTypes'
      BY <1>0, <1>3, <2>1, EndTypes, ContinueTypes DEF CreateBlob
    <2>3. v.specSize \in 0..MaxSize
      BY <1>0 DEF Volume, Extents
    <2>4. lv' \in Lv /\ active' \in [Nodes -> {"no", "sh", "ex"}]
      BY <1>3, <2>3, SizeAssumption
         DEF CreateBlob, OtherTypes, Lv, Contents, lvmVars, SizeAssumption
    <2>5. QED BY <1>3, <2>2, <2>4 DEF CreateBlob, OtherTypes, outerVars, boundVars
  <1>4. CASE RecordLvCreated
    <2>1. Maximum(v.size, lv.size) \in 0..MaxSize
      BY <1>0 DEF Maximum, Volume
    <2>2. [v EXCEPT !.size = Maximum(@, lv.size), !.lvCreated = TRUE] \in Volume
      BY <1>0, <2>1 DEF Volume
    <2>3. ReconcileTypes'
      BY <1>0, <1>4, <2>2, NextPcTypes, EndTypes, WriteTypes, ContinueTypes DEF RecordLvCreated
    <2>4. QED BY <1>4, <2>3 DEF RecordLvCreated, OtherTypes, lvmVars, outerVars, boundVars
  <1>5. CASE ActivateDataSource
    <2>1. leader \in Nodes \cup {None} /\ "idle" \in Pcs
      BY DEF Pcs, OtherTypes
    <2>2. ReconcileTypes'
      BY <1>0, <1>5, <2>1, VolumeUpdates, EndTypes, WriteTypes DEF ActivateDataSource
    <2>3. source' \in Source
      BY <1>5 DEF ActivateDataSource, OtherTypes, Source
    <2>4. QED BY <1>5, <2>2, <2>3 DEF ActivateDataSource, OtherTypes, lvmVars, boundVars
  <1>6. CASE DeactivateDataSource
    <2>1. None \in Nodes \cup {None} /\ "avail" \in Pcs /\ "remove" \in Pcs
      BY DEF Pcs, ClusterPc
    <2>2. ReconcileTypes'
      BY <1>0, <1>6, <2>1, VolumeUpdates, EndTypes, WriteTypes DEF DeactivateDataSource
    <2>3. source' \in Source
      BY <1>6 DEF DeactivateDataSource, OtherTypes, Source
    <2>4. QED BY <1>6, <2>2, <2>3 DEF DeactivateDataSource, OtherTypes, lvmVars, boundVars
  <1>7. CASE SetAvailable
    <2>1. "idle" \in Pcs
      BY DEF Pcs
    <2>2. ReconcileTypes'
      BY <1>0, <1>7, <2>1, VolumeUpdates, WriteTypes DEF SetAvailable
    <2>3. QED BY <1>7, <2>2 DEF SetAvailable, OtherTypes, lvmVars, outerVars, boundVars
  <1>8. CASE RemoveBlob
    <2>1. "finalize" \in Pcs
      BY DEF Pcs, ClusterPc
    <2>2. ReconcileTypes'
      BY <1>0, <1>8, <2>1, EndTypes, ContinueTypes DEF RemoveBlob, RetryRemoval
    <2>3. lv' \in Lv
      BY <1>8 DEF RemoveBlob, OtherTypes, Lv
    <2>4. QED BY <1>8, <2>2, <2>3 DEF RemoveBlob, OtherTypes, outerVars, boundVars
  <1>9. CASE RemoveFinalizer
    <2>1. "idle" \in Pcs
      BY DEF Pcs
    <2>2. ReconcileTypes'
      BY <1>0, <1>9, <2>1, VolumeUpdates, WriteTypes DEF RemoveFinalizer
    <2>3. QED BY <1>9, <2>2 DEF RemoveFinalizer, OtherTypes, lvmVars, outerVars, boundVars
  <1>10. QED
    BY <1>1, <1>2, <1>3, <1>4, <1>5, <1>6, <1>7, <1>8, <1>9 DEF ClusterStep


\* Starting, taking or canceling a worker keeps the types.
LEMMA WorkerTypes ==
  ASSUME OtherTypes, NEW n \in Nodes, NEW kind \in {"dd", "blkdiscard"},
         NEW from \in 0..MaxSize, NEW to \in 0..MaxSize,
         \/ RunStarts(n, kind, from, to) \/ RunPends(n, kind) \/ RunFails(n, kind)
         \/ RunSucceeds(n, kind) \/ CancelPends(n, kind) \/ CancelDone(n, kind)
  PROVE  job' \in [Nodes -> Job]
  <1>1. [kind |-> kind, state |-> "running", from |-> from, to |-> to] \in Job
        /\ [job[n] EXCEPT !.state = "canceled"] \in Job
    BY DEF Job, OtherTypes
  <1>2. QED
    BY <1>1, NullTypes DEF OtherTypes, RunStarts, RunPends, RunFails, RunSucceeds,
                           CancelPends, CancelDone

\* Every step of a node reconciler keeps the types.
LEMMA NodeTypes == ASSUME NEW n \in Nodes PROVE TypeOK /\ NodeStep(n) => TypeOK'
  <1> SUFFICES ASSUME ReconcileTypes, OtherTypes, NodeStep(n)
               PROVE  ReconcileTypes' /\ OtherTypes'
    BY DEF TypeOK, ReconcileTypes, OtherTypes, Pcs, Seen
  <1>0. n \in Controllers /\ local[n] \in Volume /\ cache[n] \in Volume
        /\ seen[n] \in Seen /\ lv.size \in 0..MaxSize /\ lv.counter \in 0..MaxSize
        /\ SrcSize \in 0..MaxSize /\ seen[n].offset \in 0..MaxSize
        /\ seen[n].size \in 0..MaxSize
    BY SizeAssumption DEF ReconcileTypes, OtherTypes, Controllers, Lv, Seen, SizeAssumption
  <1>p. /\ "idle" \in Pcs /\ "activate" \in Pcs /\ "dd" \in Pcs /\ "wipe" \in Pcs
        /\ "counter" \in Pcs /\ "deactivate" \in Pcs /\ "dsc" \in Pcs /\ "attach" \in Pcs
    BY DEF Pcs, NodePc
  <1>s. \A x \in 0..MaxSize : [seen[n] EXCEPT !.offset = x] \in Seen
                               /\ [seen[n] EXCEPT !.size = x] \in Seen
    BY <1>0 DEF Seen
  <1>1. CASE ReconcileNode(n)
    <2>1. ReconcileTypes'
      BY <1>0, <1>1, <1>p, NullTypes, NextPcTypes DEF ReconcileNode, ReconcileTypes
    <2>2. QED BY <1>1, <2>1 DEF ReconcileNode, OtherTypes, lvmVars, outerVars, boundVars
  <1>2. CASE PopulateActivate(n)
    <2>1. ReconcileTypes'
      BY <1>0, <1>2, <1>p, <1>s, EndTypes, ContinueTypes DEF PopulateActivate, GetCounter
    <2>2. active' \in [Nodes -> {"no", "sh", "ex"}]
      BY <1>2 DEF PopulateActivate, OtherTypes
    <2>3. QED BY <1>2, <2>1, <2>2 DEF PopulateActivate, OtherTypes, outerVars, boundVars
  <1>3. CASE PopulateFromSource(n)
    <2>1. ReconcileTypes'
      BY <1>0, <1>3, <1>p, <1>s, EndTypes, ContinueTypes
         DEF PopulateFromSource, RunStarts, RunPends, RunFails, CancelPends
    <2>2. job' \in [Nodes -> Job]
      BY <1>0, <1>3, WorkerTypes, SizeAssumption DEF PopulateFromSource, OtherTypes, SizeAssumption
    <2>3. Maximum(lv.counter, SrcSize) \in 0..MaxSize
      BY <1>0 DEF Maximum
    <2>4. lv' \in Lv
      BY <1>3, <2>3 DEF PopulateFromSource, OtherTypes, Lv
    <2>5. QED BY <1>3, <2>1, <2>2, <2>4 DEF PopulateFromSource, OtherTypes, outerVars, boundVars
  <1>4. CASE PopulateWipe(n)
    <2>1. ReconcileTypes'
      BY <1>0, <1>4, <1>p, <1>s, EndTypes, ContinueTypes
         DEF PopulateWipe, RunStarts, RunPends, RunFails, CancelPends
    <2>2. job' \in [Nodes -> Job]
      BY <1>0, <1>4, WorkerTypes DEF PopulateWipe, OtherTypes
    <2>3. QED BY <1>4, <2>1, <2>2 DEF PopulateWipe, OtherTypes, lvmVars, outerVars, boundVars
  <1>5. CASE PopulateCounter(n)
    <2>1. ReconcileTypes'
      BY <1>0, <1>5, <1>p, EndTypes, ContinueTypes DEF PopulateCounter
    <2>2. Maximum(lv.counter, seen[n].size) \in 0..MaxSize
      BY <1>0 DEF Maximum
    <2>3. lv' \in Lv
      BY <1>5, <2>2 DEF PopulateCounter, OtherTypes, Lv
    <2>4. QED BY <1>5, <2>1, <2>3 DEF PopulateCounter, OtherTypes, outerVars, boundVars
  <1>6. CASE PopulateDeactivate(n)
    <2>1. ReconcileTypes'
      BY <1>0, <1>6, <1>p, EndTypes, ContinueTypes DEF PopulateDeactivate
    <2>2. active' \in [Nodes -> {"no", "sh", "ex"}]
      BY <1>6 DEF PopulateDeactivate, OtherTypes
    <2>3. QED BY <1>6, <2>1, <2>2 DEF PopulateDeactivate, OtherTypes, outerVars, boundVars
  <1>7. CASE SetDataSourceCompleted(n)
    <2>1. ReconcileTypes'
      BY <1>0, <1>7, NextPcTypes, VolumeUpdates, WriteTypes DEF SetDataSourceCompleted
    <2>2. QED BY <1>7, <2>1 DEF SetDataSourceCompleted, OtherTypes, lvmVars, outerVars, boundVars
  <1>8. CASE ReconcileLinear(n)
    <2>1. ReconcileTypes'
      BY <1>0, <1>8, <1>p, EndTypes, ContinueTypes DEF ReconcileLinear
    <2>2. active' \in [Nodes -> {"no", "sh", "ex"}]
      BY <1>8 DEF ReconcileLinear, OtherTypes
    <2>3. QED BY <1>8, <2>1, <2>2 DEF ReconcileLinear, OtherTypes, outerVars, boundVars
  <1>9. CASE UpdateAttachedToNodes(n)
    <2>1. local[n].attached \ {n} \in SUBSET Nodes /\ local[n].attached \cup {n} \in SUBSET Nodes
      BY <1>0 DEF Volume
    <2>2. [local[n] EXCEPT !.attached = IF n \in @ THEN @ \ {n} ELSE @ \cup {n}] \in Volume
      BY <1>0, <2>1 DEF Volume
    <2>3. ReconcileTypes'
      BY <1>0, <1>9, <1>p, <2>2, WriteTypes DEF UpdateAttachedToNodes
    <2>4. QED BY <1>9, <2>3 DEF UpdateAttachedToNodes, OtherTypes, lvmVars, outerVars, boundVars
  <1>10. QED
    BY <1>1, <1>2, <1>3, <1>4, <1>5, <1>6, <1>7, <1>8, <1>9 DEF NodeStep


\* A worker's end, and the faults, keep the types.
LEMMA FaultTypes ==
  ASSUME NEW n \in Nodes PROVE TypeOK /\ (WorkerDone(n) \/ Fault(n)) => TypeOK'
  <1> SUFFICES ASSUME ReconcileTypes, OtherTypes, WorkerDone(n) \/ Fault(n)
               PROVE  ReconcileTypes' /\ OtherTypes'
    BY DEF TypeOK, ReconcileTypes, OtherTypes, Pcs, Seen
  <1>0. n \in Controllers /\ Cluster \in Controllers /\ "idle" \in Pcs
    BY DEF Controllers, Pcs
  <1>j. job[n] \in Job /\ \A s \in {"done", "failed"} : [job[n] EXCEPT !.state = s] \in Job
    BY DEF OtherTypes, Job
  <1>1. CASE WorkerDone(n)
    <2>1. Written(job[n], lv.data) \in [Extents -> Contents]
      BY DEF Written, OtherTypes, Lv, Contents
    <2>2. lv' \in Lv
      BY <1>1, <2>1 DEF WorkerDone, OtherTypes, Lv
    <2>3. job' \in [Nodes -> Job]
      BY <1>1, <1>j DEF WorkerDone, OtherTypes
    <2>4. ReconcileTypes'
      BY <1>1 DEF WorkerDone, TriggerReconcile, ReconcileTypes
    <2>5. QED BY <1>1, <2>2, <2>3, <2>4 DEF WorkerDone, OtherTypes, outerVars, boundVars
  <1>2. CASE WorkerFails(n)
    <2>1. job' \in [Nodes -> Job] /\ faults' \in 0..MaxFaults
      BY <1>2, <1>j, BoundAssumption DEF WorkerFails, OtherTypes, BoundAssumption
    <2>2. ReconcileTypes'
      BY <1>2 DEF WorkerFails, TriggerReconcile, ReconcileTypes
    <2>3. QED BY <1>2, <2>1, <2>2 DEF WorkerFails, OtherTypes, lvmVars, outerVars
  <1>3. CASE RestartNode(n) \/ RebootNode(n)
    <2>1. faults' \in 0..MaxFaults
      BY <1>3, BoundAssumption DEF RestartNode, RebootNode, Restarted, OtherTypes, BoundAssumption
    <2>2. active' \in [Nodes -> {"no", "sh", "ex"}]
          /\ kubelet' \in [Nodes -> {"idle", "staging", "staged", "used", "unstaging"}]
      BY <1>3 DEF RestartNode, RebootNode, OtherTypes
    <2>r. Restarted(n)
      BY <1>3 DEF RestartNode, RebootNode
    <2>3. ReconcileTypes'
      BY <1>0, <2>r, NullTypes DEF Restarted, ReconcileTypes
    <2>4. job' \in [Nodes -> Job]
      BY <1>3, NullTypes DEF RestartNode, RebootNode, Restarted, OtherTypes
    <2>5. QED BY <1>3, <2>1, <2>2, <2>3, <2>4 DEF RestartNode, RebootNode, Restarted, OtherTypes
  <1>4. CASE Election(n)
    <2>1. elections' \in 0..MaxElections
      BY <1>4, BoundAssumption DEF Election, OtherTypes, BoundAssumption
    <2>2. ReconcileTypes'
      BY <1>0, <1>4, NullTypes DEF Election, ReconcileTypes
    <2>3. QED BY <1>4, <2>1, <2>2 DEF Election, OtherTypes, lvmVars, outerVars
  <1>5. QED BY <1>1, <1>2, <1>3, <1>4 DEF Fault

\* A CSI call's write of the Volume keeps the reconcilers' types.
LEMMA CsiWriteTypes ==
  ASSUME ReconcileTypes, NEW v \in Volume, CsiWrites(v)
  PROVE  ReconcileTypes'
  BY DEF ReconcileTypes, CsiWrites

\* CSI calls, pods and users keep the types.
LEMMA CsiTypes ==
  ASSUME NEW n \in Nodes PROVE TypeOK /\ CsiStep(n) => TypeOK'
  <1> SUFFICES ASSUME ReconcileTypes, OtherTypes, CsiStep(n)
               PROVE  ReconcileTypes' /\ OtherTypes'
    BY DEF TypeOK, ReconcileTypes, OtherTypes, Pcs, Seen
  <1>0. vol.attachTo \cup {n} \in SUBSET Nodes /\ vol.attachTo \ {n} \in SUBSET Nodes
        /\ vol \in Volume
    BY DEF ReconcileTypes, Volume
  <1>1. CASE NodeStageVolume(n)
    <2>1. ReconcileTypes'
      BY <1>0, <1>1, VolumeUpdates, CsiWriteTypes DEF NodeStageVolume
    <2>2. stages' \in 0..MaxStages
      BY <1>1, BoundAssumption DEF NodeStageVolume, OtherTypes, BoundAssumption
    <2>3. QED BY <1>1, <2>1, <2>2 DEF NodeStageVolume, CsiWrites, OtherTypes, lvmVars
  <1>2. CASE NodeUnstageVolume(n)
    <2>1. ReconcileTypes'
      BY <1>0, <1>2, VolumeUpdates, CsiWriteTypes DEF NodeUnstageVolume
    <2>2. QED BY <1>2, <2>1 DEF NodeUnstageVolume, CsiWrites, OtherTypes, lvmVars
  <1>3. ASSUME NEW from, NEW to \in {"idle", "staged", "used"}, Kubelet(n, from, to)
        PROVE  ReconcileTypes' /\ OtherTypes'
    BY <1>3 DEF Kubelet, ReconcileTypes, OtherTypes, reconcileVars, lvmVars, boundVars
  <1>4. CASE NodeStageReturns(n) \/ NodeUnstageReturns(n) \/ NodePublishVolume(n) \/ NodeUnpublishVolume(n)
    BY <1>3, <1>4 DEF NodeStageReturns, NodeUnstageReturns, NodePublishVolume, NodeUnpublishVolume
  <1>5. ASSUME NEW e \in Extents, PodWrites(n, e)
        PROVE  ReconcileTypes' /\ OtherTypes'
    <2>1. lv' \in Lv
      <3>1. [lv.data EXCEPT ![e] = "user"] \in [Extents -> Contents]
        BY DEF OtherTypes, Lv, Contents
      <3>2. QED BY <1>5, <3>1 DEF PodWrites, OtherTypes, Lv
    <2>2. ReconcileTypes'
      BY <1>5 DEF PodWrites, ReconcileTypes, reconcileVars
    <2>3. QED BY <1>5, <2>1, <2>2 DEF PodWrites, OtherTypes, outerVars, boundVars
  <1>6. QED BY <1>1, <1>2, <1>4, <1>5 DEF CsiStep

\* What happens to the clone source keeps the types.
LEMMA SourceTypes ==
  TypeOK /\ (SourceDeleted \/ SourceActivated \/ SourceReleased) => TypeOK'
  <1> SUFFICES ASSUME ReconcileTypes, OtherTypes,
                      SourceDeleted \/ SourceActivated \/ SourceReleased
               PROVE  ReconcileTypes' /\ OtherTypes'
    BY DEF TypeOK, ReconcileTypes, OtherTypes, Pcs, Seen
  <1>1. source' \in Source
    BY DEF SourceDeleted, SourceActivated, SourceReleased, PoolAnswers, OtherTypes, Source
  <1>2. UNCHANGED <<vol, cache, local, seen, fresh, pc>> /\ queued' \in [Controllers -> BOOLEAN]
    BY DEF SourceDeleted, SourceActivated, SourceReleased, PoolAnswers, ReconcileTypes, reconcileVars
  <1>3. UNCHANGED <<leader, job, lvmVars, kubelet, published, deletePending, boundVars>>
    BY DEF SourceDeleted, SourceActivated, SourceReleased, PoolAnswers
  <1>4. QED BY <1>1, <1>2, <1>3 DEF ReconcileTypes, OtherTypes, lvmVars, boundVars

\* The remaining steps keep the types.
LEMMA RestTypes ==
  TypeOK /\ \/ \E c \in Controllers : WatchEvent(c)
            \/ CreateVolumeReturns \/ DeleteVolumeChecks \/ DeleteVolumeDeletes
            \/ \E s \in Extents : ControllerExpandVolume(s)
         => TypeOK'
  <1> SUFFICES ASSUME ReconcileTypes, OtherTypes,
                      \/ \E c \in Controllers : WatchEvent(c)
                      \/ CreateVolumeReturns \/ DeleteVolumeChecks \/ DeleteVolumeDeletes
                      \/ \E s \in Extents : ControllerExpandVolume(s)
               PROVE  ReconcileTypes' /\ OtherTypes'
    BY DEF TypeOK, ReconcileTypes, OtherTypes, Pcs, Seen
  <1>0. vol \in Volume
    BY DEF ReconcileTypes
  <1>1. ASSUME NEW c \in Controllers, WatchEvent(c) PROVE ReconcileTypes' /\ OtherTypes'
    BY <1>1 DEF WatchEvent, ReconcileTypes, OtherTypes, lvmVars, outerVars, boundVars
  <1>2. CASE CreateVolumeReturns \/ DeleteVolumeChecks
    BY <1>2 DEF CreateVolumeReturns, DeleteVolumeChecks, ReconcileTypes, OtherTypes,
                reconcileVars, lvmVars, boundVars
  <1>3. CASE DeleteVolumeDeletes
    <2>1. ReconcileTypes'
      BY <1>0, <1>3, VolumeUpdates, CsiWriteTypes DEF DeleteVolumeDeletes
    <2>2. QED BY <1>3, <2>1 DEF DeleteVolumeDeletes, CsiWrites, OtherTypes, lvmVars, outerVars
  <1>4. ASSUME NEW s \in Extents, ControllerExpandVolume(s) PROVE ReconcileTypes' /\ OtherTypes'
    <2>1. ReconcileTypes'
      BY <1>0, <1>4, VolumeUpdates, CsiWriteTypes DEF ControllerExpandVolume
    <2>2. QED BY <1>4, <2>1 DEF ControllerExpandVolume, CsiWrites, OtherTypes, lvmVars, outerVars
  <1>5. QED BY <1>1, <1>2, <1>3, <1>4

\* Every state of the specification, expansions included, is well typed: whatever
\* is crashed, restarted or interleaved, the sizes and the safe-offset counter stay
\* within the volume and every reconcile is at one of its steps.
THEOREM TypeCorrect == Spec => []TypeOK
  <1>1. TypeOK /\ [Next]_vars => TypeOK'
    <2>1. TypeOK /\ Next => TypeOK'
      BY ClusterTypes, NodeTypes, FaultTypes, CsiTypes, SourceTypes, RestTypes DEF Next, LifecycleNext
    <2>2. TypeOK /\ UNCHANGED vars => TypeOK'
      BY DEF TypeOK, vars, reconcileVars, lvmVars, outerVars, boundVars
    <2>3. QED BY <2>1, <2>2
  <1>2. QED BY <1>1, TypeInit, PTL DEF Spec

=============================================================================
