------------------------ MODULE LinearServiceProofs ------------------------
(***************************************************************************)
(* What a Linear volume's reconcilers promise beyond the exposure of its   *)
(* image: the object goes only after the LV (expansions included), what    *)
(* the safe-offset counter covers was wiped, and a staged volume keeps its *)
(* device.                                                                 *)
(***************************************************************************)
EXTENDS LinearSafetyProofs

-----------------------------------------------------------------------------
(* Removal. *)

\* The cluster-wide reconciler's copy tells which half of Reconcile it is in, and it
\* never sees a deletion undone.
ClusterPhase ==
    /\ pc[Cluster] \in {"prepare", "create", "created", "source", "unlabel", "avail"}
        => local[Cluster].phase = "live"
    /\ pc[Cluster] \in {"dunlabel", "remove", "finalize"} => local[Cluster].phase = "deleting"
    /\ cache[Cluster].phase # "live" => vol.phase # "live"
    /\ local[Cluster].phase = "deleting" => cache[Cluster].phase # "live"

\* An LV that is not there is held by nobody; it is not there from the moment the
\* reconciler goes for the finalizer, and nobody is left who would create it again.
Removal ==
    /\ ~LvPresent => \A n \in Nodes : active[n] = "no"
    /\ pc[Cluster] = "finalize" => ~LvPresent
    /\ vol.phase = "gone" => /\ ~LvPresent
                             /\ cache[Cluster].phase # "live" /\ local[Cluster].phase # "live"

RemovalInv == TypeOK /\ FreshOK /\ ClusterPhase /\ Removal

\* How a step of a reconcile of c leaves the copies, whichever way it ends.
LEMMA ReconcileStep ==
  ASSUME TypeOK, FreshOK, NEW c \in Controllers, NEW p, NEW r, NEW v,
         \/ UNCHANGED vol /\ (Return(c) \/ Fail(c) \/ Continue(c, p, r))
         \/ Write(c, v, p)
  PROVE  /\ FreshOK' /\ cache' = cache
         /\ \A d \in Controllers \ {c} : pc'[d] = pc[d] /\ local'[d] = local[d]
         /\ \A d \in Controllers \ {c} : d \in fresh' => d \in fresh /\ vol' = vol
         /\ vol' = vol \/ (vol' = v /\ vol = local[c])
         /\ \/ pc'[c] = "idle" /\ local'[c] = NoCopy
            \/ pc'[c] = p /\ local'[c] = local[c] /\ vol' = vol
            \/ pc'[c] = p /\ local'[c] = v /\ vol' = v
  <1>1. CASE UNCHANGED vol /\ (Return(c) \/ Fail(c))
    <2>1. /\ cache' = cache /\ fresh' = fresh \ {c} /\ pc'[c] = "idle" /\ local'[c] = NoCopy
          /\ \A d \in Controllers \ {c} : pc'[d] = pc[d] /\ local'[d] = local[d]
      BY <1>1 DEF Return, Fail, TypeOK
    <2>2. FreshOK'
      BY <1>1, <2>1 DEF FreshOK, TypeOK
    <2>3. QED BY <1>1, <2>1, <2>2
  <1>2. CASE UNCHANGED vol /\ Continue(c, p, r) /\ p # "idle"
    <2>1. /\ cache' = cache /\ fresh' = fresh /\ local' = local /\ pc'[c] = p
          /\ \A d \in Controllers \ {c} : pc'[d] = pc[d]
      BY <1>2 DEF Continue, TypeOK
    <2>2. FreshOK'
      BY <1>2, <2>1 DEF FreshOK, TypeOK
    <2>3. QED BY <1>2, <2>1, <2>2
  <1>3. CASE Write(c, v, p) /\ c \in fresh
    <2>1. /\ cache' = cache /\ vol' = v /\ vol = local[c] /\ pc'[c] = p
          /\ local'[c] = (IF p = "idle" THEN NoCopy ELSE v)
          /\ fresh' = (IF p = "idle" THEN {} ELSE {c})
          /\ \A d \in Controllers \ {c} : pc'[d] = pc[d] /\ local'[d] = local[d]
      BY <1>3 DEF Write, TypeOK, FreshOK
    <2>2. FreshOK'
      BY <2>1 DEF FreshOK
    <2>3. QED BY <2>1, <2>2
  <1>4. QED
    BY <1>1, <1>2, <1>3 DEF Continue, Write

\* A step that leaves the cluster-wide reconciler, the phase and the LV's existence
\* alone.
LEMMA RemovalFrame ==
  ASSUME RemovalInv, TypeOK', FreshOK', vol'.phase = vol.phase, cache'[Cluster] = cache[Cluster],
         pc'[Cluster] = pc[Cluster], local'[Cluster] = local[Cluster], lv'.state = lv.state,
         ~LvPresent => \A n \in Nodes : active'[n] = "no"
  PROVE  RemovalInv'
  BY DEF RemovalInv, ClusterPhase, Removal, LvPresent

\* The node reconcilers take and release the LV, and write conditions.
LEMMA RemovalNode ==
  ASSUME RemovalInv, TypeOK', NEW n \in Nodes, NodeStep(n)
  PROVE  RemovalInv'
  <1>0. /\ n \in Controllers /\ Cluster \in Controllers \ {n} /\ TypeOK /\ FreshOK
        /\ local[n] \in Volume /\ lv \in Lv
        /\ ~LvPresent => \A m \in Nodes : active[m] = "no"
    BY NodesAssumption DEF NodesAssumption, Controllers, RemovalInv, Removal, TypeOK
  <1>1. ASSUME NEW p, NEW r, UNCHANGED vol, Return(n) \/ Fail(n) \/ Continue(n, p, r),
               lv'.state = lv.state, ~LvPresent => \A m \in Nodes : active'[m] = "no"
        PROVE  RemovalInv'
    <2>1. /\ FreshOK' /\ cache' = cache
          /\ \A d \in Controllers \ {n} : pc'[d] = pc[d] /\ local'[d] = local[d]
      BY <1>0, <1>1, ReconcileStep
    <2>2. QED BY <1>0, <1>1, <2>1, RemovalFrame
  <1>2. ASSUME NEW v, NEW p, Write(n, v, p), v.phase = local[n].phase, UNCHANGED <<lv, active>>
        PROVE  RemovalInv'
    <2>1. /\ FreshOK' /\ cache' = cache /\ (vol' = vol \/ (vol' = v /\ vol = local[n]))
          /\ \A d \in Controllers \ {n} : pc'[d] = pc[d] /\ local'[d] = local[d]
      BY <1>0, <1>2, ReconcileStep
    <2>2. QED BY <1>0, <1>2, <2>1, RemovalFrame
  <1>3. CASE ReconcileNode(n)
    <2>1. /\ UNCHANGED <<vol, cache, lv, active>> /\ pc[n] = "idle"
          /\ pc'[Cluster] = pc[Cluster] /\ local'[Cluster] = local[Cluster]
      BY <1>0, <1>3 DEF ReconcileNode, TypeOK, lvmVars
    <2>2. FreshOK'
      BY <1>0, <1>3, <2>1 DEF ReconcileNode, FreshOK, TypeOK
    <2>3. QED BY <1>0, <2>1, <2>2, RemovalFrame
  <1>4. CASE PopulateActivate(n)
    <2>1. /\ UNCHANGED <<vol, lv>>
          /\ ~LvPresent => active' = active
          /\ \/ Fail(n)
             \/ Continue(n, IF SrcSize > 0 /\ GetCounter = 0 THEN "dd" ELSE "wipe",
                         [seen[n] EXCEPT !.offset = GetCounter])
      BY <1>4 DEF PopulateActivate, CanLockExclusive
    <2>2. QED BY <1>0, <1>1, <2>1
  <1>5. CASE PopulateFromSource(n)
    <2>1. /\ UNCHANGED <<vol, active>> /\ lv'.state = lv.state
          /\ \/ Return(n) \/ Fail(n) \/ Continue(n, "wipe", seen[n])
             \/ Continue(n, "wipe", [seen[n] EXCEPT !.offset = SrcSize])
      BY <1>0, <1>5 DEF PopulateFromSource, CancelPends, RunStarts, RunPends, RunFails, Lv
    <2>2. QED BY <1>0, <1>1, <2>1
  <1>6. CASE PopulateWipe(n)
    <2>1. /\ UNCHANGED <<vol, lv, active>>
          /\ \/ Return(n) \/ Fail(n) \/ Continue(n, "deactivate", seen[n])
             \/ Continue(n, "counter", [seen[n] EXCEPT !.size = lv.size])
      BY <1>6 DEF PopulateWipe, CancelPends, RunStarts, RunPends, RunFails, lvmVars
    <2>2. QED BY <1>0, <1>1, <2>1
  <1>7. CASE PopulateCounter(n)
    <2>1. /\ UNCHANGED <<vol, active>> /\ lv'.state = lv.state
          /\ Fail(n) \/ Continue(n, "deactivate", seen[n])
      BY <1>0, <1>7 DEF PopulateCounter, Lv
    <2>2. QED BY <1>0, <1>1, <2>1
  <1>8. CASE PopulateDeactivate(n)
    <2>1. /\ UNCHANGED <<vol, lv>>
          /\ \A m \in Nodes : active'[m] \in {active[m], "no"}
          /\ \/ Fail(n)
             \/ Continue(n, IF local[n].phase = "deleting" THEN "idle" ELSE "dsc", seen[n])
      BY <1>0, <1>8 DEF PopulateDeactivate, TypeOK
    <2>2. QED BY <1>0, <1>1, <2>1
  <1>9. CASE ReconcileLinear(n)
    <2> DEFINE after(isActive) == IF isActive = (n \in local[n].attached) THEN "idle" ELSE "attach"
    <2>1. /\ UNCHANGED <<vol, lv>>
          /\ \/ Fail(n) \/ \E b \in BOOLEAN : Continue(n, after(b), seen[n])
          /\ ~LvPresent => \A m \in Nodes : active'[m] = "no"
      BY <1>0, <1>9 DEF ReconcileLinear, CanLockShared, TypeOK
    <2>2. QED BY <1>0, <1>1, <2>1
  <1>10. CASE SetDataSourceCompleted(n)
    <2>1. [local[n] EXCEPT !.dsc = TRUE].phase = local[n].phase
      BY <1>0 DEF Volume
    <2>2. QED BY <1>2, <1>10, <2>1 DEF SetDataSourceCompleted, lvmVars
  <1>11. CASE UpdateAttachedToNodes(n)
    <2>1. [local[n] EXCEPT !.attached = IF n \in @ THEN @ \ {n} ELSE @ \cup {n}].phase
            = local[n].phase
      BY <1>0 DEF Volume
    <2>2. QED BY <1>2, <1>11, <2>1 DEF UpdateAttachedToNodes, lvmVars
  <1>12. QED
    BY <1>3, <1>4, <1>5, <1>6, <1>7, <1>8, <1>9, <1>10, <1>11 DEF NodeStep

\* The cluster-wide reconciler removes the LV before it lets the object go.
LEMMA RemovalCluster ==
  ASSUME RemovalInv, TypeOK', ClusterStep
  PROVE  RemovalInv'
  <1> DEFINE u == local[Cluster]
             Work == {"create", "created", "source", "unlabel", "avail"}
  <1>0. /\ Cluster \in Controllers /\ TypeOK /\ FreshOK /\ u \in Volume /\ vol \in Volume /\ lv \in Lv
        /\ cache[Cluster] \in Volume /\ leader \in Nodes
        /\ NoCopy.phase = "gone" /\ ClusterPhase /\ Removal
    BY DEF Controllers, RemovalInv, TypeOK, NoCopy, NewVolume
  <1>1. ASSUME NEW p, NEW r, UNCHANGED <<vol, lv, active>>,
               Return(Cluster) \/ Fail(Cluster) \/ Continue(Cluster, p, r),
               p \in Work => u.phase = "live",
               p = "finalize" => u.phase = "deleting" /\ ~LvPresent,
               p \in Work \cup {"finalize", "idle"}
        PROVE  RemovalInv'
    <2>1. /\ FreshOK' /\ cache' = cache
          /\ \/ pc'[Cluster] = "idle" /\ local'[Cluster] = NoCopy
             \/ pc'[Cluster] = p /\ local'[Cluster] = u
      BY <1>0, <1>1, ReconcileStep, ZenonT(30)
    <2>2. ClusterPhase'
      BY <1>0, <1>1, <2>1 DEF ClusterPhase
    <2>3. Removal'
      BY <1>0, <1>1, <2>1 DEF Removal, LvPresent
    <2>4. QED BY <2>1, <2>2, <2>3 DEF RemovalInv
  <1>2. ASSUME NEW w \in Volume, NEW p, Write(Cluster, w, p), UNCHANGED <<lv, active>>,
               \/ w.phase = u.phase
               \/ w.phase = "gone" /\ p = "idle" /\ u.phase = "deleting" /\ ~LvPresent,
               p \in Work => u.phase = "live",
               p = "remove" => u.phase = "deleting",
               p \in Work \cup {"remove", "idle"}
        PROVE  RemovalInv'
    <2>1. /\ FreshOK' /\ cache' = cache /\ (vol' = vol \/ (vol' = w /\ vol = u))
          /\ \/ pc'[Cluster] = "idle" /\ local'[Cluster] = NoCopy
             \/ pc'[Cluster] = p /\ local'[Cluster] = u
             \/ pc'[Cluster] = p /\ local'[Cluster] = w /\ vol' = w
      BY <1>0, <1>2, ReconcileStep
    <2>2. ClusterPhase'
      BY <1>0, <1>2, <2>1 DEF ClusterPhase
    <2>3. Removal'
      BY <1>0, <1>2, <2>1 DEF Removal, ClusterPhase, LvPresent
    <2>4. QED BY <2>1, <2>2, <2>3 DEF RemovalInv
  <1>3. CASE ReconcileVolume
    <2> DEFINE c == cache[Cluster]
               p == CASE c.phase = "live" -> NotDeletingPc(c)
                      [] c.phase = "deleting" -> DeletingPc(c)
                      [] OTHER -> "idle"
    <2>1. /\ UNCHANGED <<vol, cache, lv, active>> /\ pc[Cluster] = "idle" /\ pc'[Cluster] = p
          /\ \A d \in Controllers \ {Cluster} : pc'[d] = pc[d] /\ local'[d] = local[d]
          /\ local'[Cluster] = (IF p = "idle" THEN NoCopy ELSE c)
          /\ fresh' = IF p # "idle" /\ c = vol THEN fresh \cup {Cluster} ELSE fresh
      BY <1>0, <1>3 DEF ReconcileVolume, TypeOK, lvmVars
    <2>2. /\ c.phase = "live" => p \in Work \cup {"idle", "prepare"}
          /\ c.phase = "deleting" => p \in {"idle", "dunlabel", "remove"}
          /\ c.phase = "gone" => p = "idle"
      BY DEF NotDeletingPc, DeletingPc, AfterCreate
    <2>3. c.phase \in {"live", "deleting", "gone"}
      BY <1>0 DEF Volume
    <2>4. FreshOK'
      BY <1>0, <2>1 DEF FreshOK, TypeOK
    <2> HIDE DEF p
    <2>5. ClusterPhase'
      BY <1>0, <2>1, <2>2, <2>3 DEF ClusterPhase
    <2>6. Removal'
      BY <1>0, <2>1, <2>2, <2>3 DEF Removal, LvPresent
    <2>7. QED BY <2>4, <2>5, <2>6 DEF RemovalInv
  <1>4. CASE ReconcilePrepareForResize
    <2> DEFINE w == ResizeConditions(u)
    <2>1. w \in Volume /\ w.phase = u.phase
      BY <1>0 DEF ResizeConditions, Volume
    <2>2. u.phase = "live"
      BY <1>0, <1>4 DEF ReconcilePrepareForResize, ClusterPhase
    <2>3. /\ UNCHANGED <<lv, active>>
          /\ \/ Write(Cluster, w, "create")
             \/ Continue(Cluster, "create", seen[Cluster]) /\ UNCHANGED vol
      BY <1>4 DEF ReconcilePrepareForResize, lvmVars
    <2> HIDE DEF w
    <2>4. QED BY <1>1, <1>2, <2>1, <2>2, <2>3
  <1>5. CASE CreateBlob
    <2>1. u.phase = "live" /\ vol' = vol
      BY <1>0, <1>5 DEF CreateBlob, ClusterPhase
    <2>2. CASE UNCHANGED <<lv, active>>
      BY <1>1, <1>5, <2>1, <2>2 DEF CreateBlob
    <2>3. CASE ~UNCHANGED <<lv, active>>
      <3>1. Continue(Cluster, "created", seen[Cluster]) /\ lv'.state = "present"
        BY <1>0, <1>5, <2>3 DEF CreateBlob, lvmVars, LvPresent, Lv
      <3>2. /\ FreshOK' /\ cache' = cache /\ pc'[Cluster] = "created" /\ local'[Cluster] = u
        BY <1>0, <2>1, <3>1 DEF Continue, TypeOK, FreshOK
      <3>3. ClusterPhase'
        BY <1>0, <2>1, <3>2 DEF ClusterPhase
      <3>4. Removal'
        BY <1>0, <2>1, <3>1, <3>2 DEF Removal, LvPresent
      <3>5. QED BY <3>2, <3>3, <3>4 DEF RemovalInv
    <2>4. QED BY <2>2, <2>3
  <1>6. CASE RecordLvCreated
    <2> DEFINE w == [u EXCEPT !.size = Maximum(@, lv.size), !.lvCreated = TRUE]
    <2>1. w \in Volume /\ w.phase = u.phase
      <3>1. Maximum(u.size, lv.size) \in 0..MaxSize
        BY <1>0 DEF Maximum, Volume, Lv
      <3>2. QED BY <1>0, <3>1 DEF Volume
    <2>2. u.phase = "live" /\ AfterCreate(w) \in Work \cup {"idle"}
      BY <1>0, <1>6 DEF RecordLvCreated, ClusterPhase, AfterCreate
    <2>3. /\ UNCHANGED <<lv, active>>
          /\ \/ Write(Cluster, w, AfterCreate(w))
             \/ Continue(Cluster, AfterCreate(w), seen[Cluster]) /\ UNCHANGED vol
             \/ Fail(Cluster) /\ UNCHANGED vol
      BY <1>6 DEF RecordLvCreated, lvmVars
    <2> HIDE DEF w
    <2>4. QED BY <1>1, <1>2, <2>1, <2>2, <2>3
  <1>7. CASE ActivateDataSource
    <2> DEFINE w == [u EXCEPT !.label = leader]
    <2>1. w \in Volume /\ w.phase = u.phase
      BY <1>0 DEF Volume
    <2>2. /\ UNCHANGED <<lv, active>>
          /\ Write(Cluster, w, "idle") \/ (UNCHANGED vol /\ (Return(Cluster) \/ Fail(Cluster)))
      BY <1>7 DEF ActivateDataSource, lvmVars
    <2> HIDE DEF w
    <2>3. CASE Write(Cluster, w, "idle")
      BY <1>2, <2>1, <2>2, <2>3
    <2>4. QED BY <1>1, <2>2, <2>3
  <1>8. CASE DeactivateDataSource
    <2> DEFINE w == [u EXCEPT !.label = None]
               p == IF pc[Cluster] = "unlabel" THEN "avail" ELSE "remove"
    <2>1. w \in Volume /\ w.phase = u.phase
      BY <1>0 DEF Volume
    <2>2. /\ UNCHANGED <<lv, active>>
          /\ Write(Cluster, w, p) \/ (UNCHANGED vol /\ (Return(Cluster) \/ Fail(Cluster)))
          /\ p = "avail" => u.phase = "live"
          /\ p = "remove" => u.phase = "deleting"
          /\ p \in {"avail", "remove"}
      BY <1>0, <1>8 DEF DeactivateDataSource, lvmVars, ClusterPhase
    <2> HIDE DEF w, p
    <2>3. CASE Write(Cluster, w, p)
      BY <1>2, <2>1, <2>2, <2>3
    <2>4. QED BY <1>1, <2>2, <2>3
  <1>9. CASE SetAvailable
    <2> DEFINE w == [u EXCEPT !.avail = TRUE, !.abnormal = FALSE]
    <2>1. w \in Volume /\ w.phase = u.phase
      BY <1>0 DEF Volume
    <2>2. Write(Cluster, w, "idle") /\ UNCHANGED <<lv, active>>
      BY <1>9 DEF SetAvailable, lvmVars
    <2> HIDE DEF w
    <2>3. QED BY <1>2, <2>1, <2>2
  <1>10. CASE RemoveBlob
    <2>1. u.phase = "deleting" /\ vol' = vol
      BY <1>0, <1>10 DEF RemoveBlob, ClusterPhase
    <2>2. CASE UNCHANGED <<lv, active>>
      <3>1. Fail(Cluster) \/ (~LvPresent /\ Continue(Cluster, "finalize", seen[Cluster]))
        BY <1>0, <1>10, <2>2 DEF RemoveBlob, RetryRemoval, LvPresent, Lv
      <3>2. QED BY <1>1, <2>1, <2>2, <3>1
    <2>3. CASE ~UNCHANGED <<lv, active>>
      <3>1. /\ Continue(Cluster, "finalize", seen[Cluster]) /\ lv'.state = "removed"
            /\ \A n \in Nodes : active'[n] = "no"
        BY <1>0, <1>10, <2>3 DEF RemoveBlob, Removable, Lv
      <3>2. /\ FreshOK' /\ cache' = cache /\ pc'[Cluster] = "finalize" /\ local'[Cluster] = u
        BY <1>0, <2>1, <3>1 DEF Continue, TypeOK, FreshOK
      <3>3. ClusterPhase'
        BY <1>0, <2>1, <3>2 DEF ClusterPhase
      <3>4. Removal'
        BY <1>0, <2>1, <3>1, <3>2 DEF Removal, LvPresent
      <3>5. QED BY <3>2, <3>3, <3>4 DEF RemovalInv
    <2>4. QED BY <2>2, <2>3
  <1>11. CASE RemoveFinalizer
    <2> DEFINE w == [u EXCEPT !.phase = "gone"]
    <2>1. w \in Volume /\ w.phase = "gone" /\ u.phase = "deleting" /\ ~LvPresent
      BY <1>0, <1>11 DEF RemoveFinalizer, Volume, ClusterPhase, Removal
    <2>2. Write(Cluster, w, "idle") /\ UNCHANGED <<lv, active>>
      BY <1>11 DEF RemoveFinalizer, lvmVars
    <2> HIDE DEF w
    <2>3. QED BY <1>2, <2>1, <2>2
  <1>12. QED
    BY <1>3, <1>4, <1>5, <1>6, <1>7, <1>8, <1>9, <1>10, <1>11 DEF ClusterStep

\* The rest of the system never touches the LV's existence or the cluster-wide
\* reconciler, except that a watch event, or a new leader, gives it what the server has.
LEMMA RemovalRest ==
  ASSUME RemovalInv, TypeOK', Next, ~ClusterStep, ~\E n \in Nodes : NodeStep(n)
  PROVE  RemovalInv'
  <1>0. /\ Cluster \in Controllers /\ Cluster \notin Nodes /\ Nodes \subseteq Controllers
        /\ TypeOK /\ FreshOK /\ vol \in Volume /\ lv \in Lv
        /\ NoCopy.phase = "gone" /\ ClusterPhase /\ Removal
    BY NodesAssumption DEF NodesAssumption, Controllers, RemovalInv, TypeOK, NoCopy, NewVolume
  <1>1. ASSUME NEW c \in Controllers, WatchEvent(c) PROVE RemovalInv'
    <2>1. /\ UNCHANGED <<vol, local, fresh, pc, lv, active>>
          /\ cache'[Cluster] \in {cache[Cluster], vol}
      BY <1>0, <1>1 DEF WatchEvent, TypeOK, lvmVars
    <2>2. QED
      BY <1>0, <2>1 DEF RemovalInv, FreshOK, ClusterPhase, Removal, LvPresent
  <1>2. ASSUME NEW n \in Nodes, Election(n) PROVE RemovalInv'
    <2>1. /\ UNCHANGED <<vol, lv, active>> /\ cache'[Cluster] = vol /\ local'[Cluster] = NoCopy
          /\ pc'[Cluster] = "idle"
      BY <1>0, <1>2 DEF Election, TypeOK, lvmVars
    <2>2. FreshOK'
      BY <1>0, <1>2 DEF Election, FreshOK, TypeOK
    <2>3. QED
      BY <1>0, <2>1, <2>2 DEF RemovalInv, ClusterPhase, Removal, LvPresent
  <1>3. ASSUME NEW n \in Nodes, WorkerDone(n) \/ WorkerFails(n) \/ RestartNode(n) \/ RebootNode(n)
        PROVE  RemovalInv'
    <2>1. CASE WorkerDone(n) \/ WorkerFails(n)
      <3>1. UNCHANGED <<vol, cache, local, fresh, pc, active>> /\ lv'.state = lv.state
        BY <1>0, <2>1 DEF WorkerDone, WorkerFails, Lv, lvmVars
      <3>2. FreshOK'
        BY <1>0, <3>1 DEF FreshOK
      <3>3. QED BY <1>0, <3>1, <3>2, RemovalFrame DEF Removal
    <2>2. CASE RestartNode(n) \/ RebootNode(n)
      <3>1. /\ UNCHANGED <<vol, lv>> /\ fresh' = fresh \ {n}
            /\ \A m \in Nodes : active'[m] \in {active[m], "no"}
            /\ \A c \in Controllers \ {n} : cache'[c] = cache[c] /\ pc'[c] = pc[c] /\ local'[c] = local[c]
        BY <1>0, <2>2 DEF RestartNode, RebootNode, Restarted, TypeOK
      <3>2. FreshOK'
        BY <1>0, <3>1 DEF FreshOK, TypeOK
      <3>3. QED BY <1>0, <3>1, <3>2, RemovalFrame DEF Removal
    <2>3. QED BY <1>3, <2>1, <2>2
  <1>4. ASSUME NEW w \in Volume, CsiWrites(w),
               w.phase = vol.phase \/ (vol.phase = "live" /\ w.phase = "deleting")
        PROVE  RemovalInv'
    <2>1. UNCHANGED <<cache, local, pc, lv, active>> /\ vol' = w /\ fresh' = {}
      BY <1>4 DEF CsiWrites, lvmVars
    <2>2. QED
      BY <1>0, <1>4, <2>1 DEF RemovalInv, FreshOK, ClusterPhase, Removal, LvPresent
  <1>5. ASSUME NEW n \in Nodes, CsiStep(n) PROVE RemovalInv'
    <2>1. CASE NodeStageVolume(n) \/ NodeUnstageVolume(n)
      <3>1. \E s \in SUBSET Nodes : CsiWrites([vol EXCEPT !.attachTo = s])
        <4>1. vol.attachTo \cup {n} \in SUBSET Nodes /\ vol.attachTo \ {n} \in SUBSET Nodes
          BY <1>0 DEF Volume
        <4>2. QED BY <2>1, <4>1 DEF NodeStageVolume, NodeUnstageVolume
      <3>2. PICK s \in SUBSET Nodes : CsiWrites([vol EXCEPT !.attachTo = s])
        BY <3>1
      <3>3. [vol EXCEPT !.attachTo = s] \in Volume /\ [vol EXCEPT !.attachTo = s].phase = vol.phase
        BY <1>0 DEF Volume
      <3>4. QED BY <1>4, <3>2, <3>3
    <2>2. CASE ~(NodeStageVolume(n) \/ NodeUnstageVolume(n))
      <3>1. UNCHANGED <<vol, cache, local, fresh, pc, active>> /\ lv'.state = lv.state
        BY <1>0, <1>5, <2>2 DEF CsiStep, NodeStageReturns, NodePublishVolume, NodeUnpublishVolume,
             NodeUnstageReturns, Kubelet, PodWrites, reconcileVars, lvmVars, Lv
      <3>2. FreshOK'
        BY <1>0, <3>1 DEF FreshOK
      <3>3. QED BY <1>0, <3>1, <3>2, RemovalFrame DEF Removal
    <2>3. QED BY <2>1, <2>2
  <1>6. CASE CreateVolumeReturns \/ DeleteVolumeChecks
    <2>1. UNCHANGED <<vol, cache, local, fresh, pc, active, lv>>
      BY <1>6 DEF CreateVolumeReturns, DeleteVolumeChecks, reconcileVars, lvmVars
    <2>2. FreshOK'
      BY <1>0, <2>1 DEF FreshOK
    <2>3. QED BY <1>0, <2>1, <2>2, RemovalFrame DEF Removal
  <1>7. CASE DeleteVolumeDeletes
    <2>1. [vol EXCEPT !.phase = "deleting"] \in Volume /\ [vol EXCEPT !.phase = "deleting"].phase = "deleting"
      BY <1>0 DEF Volume
    <2>2. QED BY <1>4, <1>7, <2>1 DEF DeleteVolumeDeletes
  <1>8. ASSUME NEW s \in Extents, ControllerExpandVolume(s) PROVE RemovalInv'
    <2>1. [vol EXCEPT !.specSize = s] \in Volume /\ [vol EXCEPT !.specSize = s].phase = vol.phase
      BY <1>0 DEF Volume
    <2>2. QED BY <1>4, <1>8, <2>1 DEF ControllerExpandVolume
  <1>9. CASE SourceDeleted \/ SourceActivated \/ SourceReleased
    <2>1. UNCHANGED <<vol, cache, local, fresh, pc, active, lv>>
      BY <1>9 DEF SourceDeleted, SourceActivated, SourceReleased, PoolAnswers, reconcileVars, lvmVars
    <2>2. FreshOK'
      BY <1>0, <2>1 DEF FreshOK
    <2>3. QED BY <1>0, <2>1, <2>2, RemovalFrame DEF Removal
  <1>10. QED
    BY <1>1, <1>2, <1>3, <1>5, <1>6, <1>7, <1>8, <1>9 DEF Next, LifecycleNext, Fault

\* The object goes only once the LV is gone and no node holds it, whatever the volume
\* went through: changes of leader, restarts, expansions, a racing NodeStageVolume.
THEOREM RemovalCorrect == Spec => []GoneMeansRemoved
  <1>1. Init => RemovalInv
    <2> SUFFICES ASSUME Init PROVE RemovalInv
      OBVIOUS
    <2>1. TypeOK
      BY TypeInit
    <2>2. FreshOK /\ ClusterPhase /\ Removal
      BY DEF Init, FreshOK, ClusterPhase, Removal, LvPresent, NoCopy, NewVolume, Controllers
    <2>3. QED BY <2>1, <2>2 DEF RemovalInv
  <1>2. RemovalInv /\ [Next]_vars => RemovalInv'
    <2> SUFFICES ASSUME RemovalInv, [Next]_vars PROVE RemovalInv'
      OBVIOUS
    <2>1. CASE Next
      <3>1. TypeOK'
        BY <2>1, ClusterTypes, NodeTypes, FaultTypes, CsiTypes, SourceTypes, RestTypes
           DEF Next, LifecycleNext, RemovalInv
      <3>2. QED BY <2>1, <3>1, RemovalNode, RemovalCluster, RemovalRest
    <2>2. CASE UNCHANGED vars
      <3>1. UNCHANGED <<vol, cache, local, fresh, pc, active, lv>>
        BY <2>2 DEF vars, reconcileVars, lvmVars
      <3>2. TypeOK'
        BY <2>2 DEF RemovalInv, TypeOK, vars, reconcileVars, lvmVars, outerVars, boundVars
      <3>3. FreshOK'
        BY <3>1 DEF FreshOK, RemovalInv
      <3>4. QED BY <3>1, <3>2, <3>3, RemovalFrame DEF RemovalInv, Removal
    <2>3. QED BY <2>1, <2>2
  <1>3. RemovalInv => GoneMeansRemoved
    BY DEF RemovalInv, Removal, GoneMeansRemoved
  <1>4. QED BY <1>1, <1>2, <1>3, PTL DEF Spec

-----------------------------------------------------------------------------
(* Wiping. *)

\* The first k extents were written, but for those that dd skips.
NotOld(k) == \A e \in Extents : e <= k /\ e \notin SrcHoles => lv.data[e] # "old"

\* What a worker has written or will have written when it is done, and what a node
\* reconciler is about to record, is where the counter is about to go.
WipedBy(n) ==
    /\ job[n].kind # "none" => lv.state # "none"
    /\ job[n].kind = "blkdiscard" /\ job[n].state = "running" => job[n].to = lv.size /\ NotOld(job[n].from)
    /\ job[n].kind = "blkdiscard" /\ job[n].state = "done" => NotOld(lv.size)
    /\ job[n].kind = "dd" /\ job[n].state = "running" => job[n].to = SrcSize
    /\ job[n].kind = "dd" /\ job[n].state = "done" => NotOld(SrcSize)
    /\ pc[n] = "counter" => NotOld(lv.size)

WipeInv == (LvPresent => NotOld(lv.counter)) /\ \A n \in Nodes : WipedBy(n)

\* A step that keeps the counter, the workers and the node reconcilers' place, and turns
\* no written extent back.
LEMMA WipeFrame ==
  ASSUME LifecycleInv, WipeInv, lv'.size = lv.size, lv'.counter = lv.counter,
         lv'.state = lv.state \/ (lv.state = "present" /\ lv'.state = "removed"),
         \A e \in Extents : lv.data[e] # "old" => lv'.data[e] # "old",
         job' = job, \A n \in Nodes : pc'[n] = "counter" => pc[n] = "counter"
  PROVE  WipeInv'
  BY DEF WipeInv, WipedBy, NotOld, LvPresent

\* A step of node n that keeps what is stored.
LEMMA WipeNode ==
  ASSUME LifecycleInv, WipeInv, NEW n \in Nodes, lv'.size = lv.size, lv'.data = lv.data,
         lv'.state = lv.state, LvPresent => NotOld(lv'.counter),
         \A m \in Nodes \ {n} : job'[m] = job[m] /\ pc'[m] = pc[m], WipedBy(n)'
  PROVE  WipeInv'
  <1>1. ASSUME NEW m \in Nodes \ {n} PROVE WipedBy(m)'
    BY DEF WipeInv, WipedBy, NotOld
  <1>2. LvPresent' => NotOld(lv.counter)'
    BY DEF LvPresent, NotOld
  <1>3. QED BY <1>1, <1>2 DEF WipeInv

\* The node reconcilers' steps: a worker starts where the counter is, and the counter
\* moves to where a worker has come to.
LEMMA WipeNodeStep ==
  ASSUME VolumeType = "Block", WipePolicy = "Full", LifecycleInv, WipeInv, NEW n \in Nodes, NodeStep(n)
  PROVE  WipeInv'
  <1>0. /\ TypeOK /\ n \in Controllers /\ NodeOK(n) /\ JobOK(n) /\ LvOK /\ WipedBy(n)
        /\ lv \in Lv /\ lv.size \in 0..MaxSize /\ lv.counter \in 0..MaxSize /\ SrcSize \in Nat /\ MaxSize \in Nat
        /\ seen[n] \in Seen /\ job[n] \in Job /\ local[n] \in Volume
        /\ LvPresent => NotOld(lv.counter)
    BY NodeFacts, SizeAssumption DEF WipeInv, TypeOK, Lv, SizeAssumption
  <1>n. Nodes \subseteq Controllers
    BY DEF Controllers
  <1> DEFINE Others == \A m \in Nodes \ {n} : pc'[m] = pc[m]
  <1>a. Return(n) \/ Fail(n) => pc'[n] = "idle" /\ Others
    BY <1>0, <1>n DEF Return, Fail, TypeOK
  <1>b. ASSUME NEW p, NEW r, Continue(n, p, r) PROVE pc'[n] = p /\ Others
    BY <1>0, <1>n, <1>a, <1>b DEF Continue, TypeOK
  <1>c. ASSUME NEW v, NEW p, Write(n, v, p) PROVE pc'[n] \in {"idle", p} /\ Others
    BY <1>0, <1>n, <1>a, <1>c DEF Write, TypeOK
  <1>j. /\ \A k \in {"dd", "blkdiscard"} : CancelPends(n, k) =>
              job'[n].state = "canceled" /\ job'[n].kind = job[n].kind
        /\ \A k \in {"dd", "blkdiscard"} : CancelDone(n, k) => job'[n] \in {job[n], NoJob}
        /\ \A k \in {"dd", "blkdiscard"} : RunFails(n, k) \/ RunSucceeds(n, k) => job'[n] = NoJob
        /\ \A k \in {"dd", "blkdiscard"} : RunPends(n, k) => job'[n] = job[n]
    BY <1>0 DEF CancelPends, CancelDone, RunFails, RunSucceeds, RunPends, TypeOK, Job
  <1>s. ASSUME NEW k, NEW i, NEW j, RunStarts(n, k, i, j)
        PROVE  job'[n] = [kind |-> k, state |-> "running", from |-> i, to |-> j]
    BY <1>0, <1>s DEF RunStarts, TypeOK
  <1>2. CASE PopulateFromSource(n)
    <2>1. /\ lv'.size = lv.size /\ lv'.data = lv.data /\ lv'.state = lv.state /\ UNCHANGED vol
          /\ \/ Return(n) \/ Fail(n) \/ Continue(n, "wipe", seen[n])
             \/ Continue(n, "wipe", [seen[n] EXCEPT !.offset = SrcSize])
          /\ \A m \in Nodes \ {n} : job'[m] = job[m]
      BY <1>0, <1>2 DEF PopulateFromSource, CancelPends, CancelDone, RunStarts, RunPends, RunFails,
           RunSucceeds, Lv, TypeOK
    <2>2. pc'[n] # "counter" /\ \A m \in Nodes \ {n} : pc'[m] = pc[m]
      BY <1>a, <1>b, <2>1
    <2>3. LvPresent => NotOld(lv'.counter)
      <3>1. CASE lv'.counter = lv.counter
        BY <1>0, <3>1
      <3>2. CASE lv'.counter # lv.counter
        <4>1. RunSucceeds(n, "dd") /\ lv'.counter \in {lv.counter, SrcSize}
          BY <1>0, <1>2, <3>2 DEF PopulateFromSource, Lv, Maximum
        <4>2. QED BY <1>0, <3>2, <4>1 DEF RunSucceeds, WipedBy
      <3>3. QED BY <3>1, <3>2
    <2>4. \/ job'[n] = job[n] \/ job'[n] = NoJob
          \/ (job'[n].state = "canceled" /\ job'[n].kind = job[n].kind)
          \/ job'[n] = [kind |-> "dd", state |-> "running", from |-> 0, to |-> SrcSize]
      <3>1. RunStarts(n, "dd", 0, SrcSize) =>
              job'[n] = [kind |-> "dd", state |-> "running", from |-> 0, to |-> SrcSize]
        BY <1>s
      <3>2. /\ CancelPends(n, "dd") => job'[n].state = "canceled" /\ job'[n].kind = job[n].kind
            /\ CancelDone(n, "dd") => job'[n] \in {job[n], NoJob}
            /\ RunFails(n, "dd") \/ RunSucceeds(n, "dd") => job'[n] = NoJob
            /\ RunPends(n, "dd") => job'[n] = job[n]
        BY <1>j
      <3>3. QED BY <1>2, <3>1, <3>2 DEF PopulateFromSource
    <2>5. lv.state # "none"
      BY <1>0, <1>2 DEF NodeOK, PopulateFromSource
    <2>6. WipedBy(n)'
      BY <1>0, <2>1, <2>2, <2>4, <2>5 DEF WipedBy, NotOld, NoJob
    <2>7. QED BY <2>1, <2>2, <2>3, <2>6, WipeNode
  <1>3. CASE PopulateWipe(n)
    <2> DEFINE wipes == seen[n].offset < lv.size /\ WipePolicy # "UnsafeFast"
    <2>1. /\ UNCHANGED <<vol, lv>>
          /\ \/ Return(n) \/ Fail(n) \/ Continue(n, "deactivate", seen[n])
             \/ Continue(n, "counter", [seen[n] EXCEPT !.size = lv.size])
          /\ \A m \in Nodes \ {n} : job'[m] = job[m]
      BY <1>0, <1>3 DEF PopulateWipe, CancelPends, CancelDone, RunStarts, RunPends, RunFails,
           RunSucceeds, TypeOK, lvmVars
    <2>2. pc'[n] \in {"idle", "deactivate", "counter"} /\ \A m \in Nodes \ {n} : pc'[m] = pc[m]
      BY <1>a, <1>b, <2>1
    <2>3. pc'[n] = "counter" => NotOld(lv.size)
      <3>1. CASE Continue(n, "counter", [seen[n] EXCEPT !.size = lv.size]) /\ wipes
        <4>1. ~Return(n) /\ ~Fail(n)
          BY <1>0, <3>1 DEF Continue, Return, Fail, TypeOK
        <4>2. ~Continue(n, "deactivate", seen[n])
          BY <1>0, <3>1 DEF Continue, TypeOK
        <4>3. RunSucceeds(n, "blkdiscard")
          BY <1>3, <3>1, <4>1, <4>2 DEF PopulateWipe, CancelPends, RunStarts, RunPends, RunFails
        <4>4. QED BY <1>0, <4>3 DEF RunSucceeds, WipedBy
      <3>2. CASE Continue(n, "counter", [seen[n] EXCEPT !.size = lv.size]) /\ ~wipes
        <4>1. ~Return(n) /\ ~Fail(n)
          BY <1>0, <3>2 DEF Continue, Return, Fail, TypeOK
        <4>2. ~Continue(n, "deactivate", seen[n])
          BY <1>0, <3>2 DEF Continue, TypeOK
        <4>3. pc[n] = "wipe" /\ local[n].phase = "live" /\ LvPresent
          BY <1>3, <3>2, <4>1, <4>2 DEF PopulateWipe, CancelPends
        <4>4. lv.counter >= lv.size
          BY <1>0, <3>2, <4>3 DEF NodeOK
        <4>5. QED BY <1>0, <4>3, <4>4 DEF NotOld, Extents
      <3>3. CASE ~Continue(n, "counter", [seen[n] EXCEPT !.size = lv.size])
        <4>1. Return(n) \/ Fail(n) \/ Continue(n, "deactivate", seen[n])
          BY <2>1, <3>3
        <4>2. pc'[n] \in {"idle", "deactivate"}
          BY <1>a, <1>b, <4>1
        <4>3. QED BY <4>2
      <3>4. QED BY <3>1, <3>2, <3>3
    <2>4. \/ job'[n] = job[n] \/ job'[n] = NoJob
          \/ (job'[n].state = "canceled" /\ job'[n].kind = job[n].kind)
          \/ /\ job'[n] = [kind |-> "blkdiscard", state |-> "running", from |-> seen[n].offset, to |-> lv.size]
             /\ pc[n] = "wipe" /\ local[n].phase = "live" /\ LvPresent
      <3>1. RunStarts(n, "blkdiscard", seen[n].offset, lv.size) =>
              job'[n] = [kind |-> "blkdiscard", state |-> "running", from |-> seen[n].offset, to |-> lv.size]
        BY <1>s
      <3>2. /\ CancelPends(n, "blkdiscard") => job'[n].state = "canceled" /\ job'[n].kind = job[n].kind
            /\ CancelDone(n, "blkdiscard") => job'[n] \in {job[n], NoJob}
            /\ RunFails(n, "blkdiscard") \/ RunSucceeds(n, "blkdiscard") => job'[n] = NoJob
            /\ RunPends(n, "blkdiscard") => job'[n] = job[n]
        BY <1>j
      <3>3. QED BY <1>3, <3>1, <3>2 DEF PopulateWipe
    <2>5. lv.state # "none" /\ (pc[n] = "wipe" /\ local[n].phase = "live" /\ LvPresent => NotOld(seen[n].offset))
      BY <1>0, <1>3 DEF NodeOK, PopulateWipe
    <2>6. WipedBy(n)'
      BY <1>0, <2>1, <2>2, <2>3, <2>4, <2>5 DEF WipedBy, NotOld, NoJob
    <2>7. QED BY <1>0, <2>1, <2>2, <2>6, WipeNode
  <1>4. CASE PopulateCounter(n)
    <2>1. /\ lv'.size = lv.size /\ lv'.data = lv.data /\ lv'.state = lv.state /\ UNCHANGED <<vol, job>>
          /\ Fail(n) \/ Continue(n, "deactivate", seen[n])
      BY <1>0, <1>4 DEF PopulateCounter, Lv
    <2>2. pc'[n] # "counter" /\ \A m \in Nodes \ {n} : pc'[m] = pc[m]
      BY <1>a, <1>b, <2>1
    <2>3. LvPresent => NotOld(lv'.counter)
      <3>1. LvPresent => lv'.counter \in {lv.counter, lv.size}
        BY <1>0, <1>4 DEF PopulateCounter, NodeOK, Maximum, Lv
      <3>2. NotOld(lv.size)
        BY <1>0, <1>4 DEF PopulateCounter, WipedBy
      <3>3. QED BY <1>0, <3>1, <3>2
    <2>4. WipedBy(n)'
      BY <1>0, <2>1, <2>2 DEF WipedBy, NotOld
    <2>5. QED BY <2>1, <2>2, <2>3, <2>4, WipeNode
  <1>5. CASE ~PopulateFromSource(n) /\ ~PopulateWipe(n) /\ ~PopulateCounter(n)
    <2>1. /\ UNCHANGED <<lv, job>>
          /\ \A m \in Nodes \ {n} : pc'[m] = pc[m]
          /\ pc'[n] # "counter"
      <3>1. CASE ReconcileNode(n)
        <4>1. UNCHANGED <<lv, job>> /\ (\A m \in Nodes \ {n} : pc'[m] = pc[m])
          BY <1>0, <3>1 DEF ReconcileNode, TypeOK, lvmVars
        <4>2. pc'[n] # "counter"
          BY <1>0, <3>1 DEF ReconcileNode, TypeOK, Ready
        <4>3. QED BY <4>1, <4>2
      <3>2. CASE PopulateActivate(n)
        BY <1>a, <1>b, <1>c, <3>2 DEF PopulateActivate
      <3>3. CASE PopulateDeactivate(n)
        BY <1>a, <1>b, <1>c, <3>3 DEF PopulateDeactivate
      <3>4. CASE SetDataSourceCompleted(n)
        BY <1>a, <1>b, <1>c, <3>4 DEF SetDataSourceCompleted, Ready, lvmVars
      <3>5. CASE ReconcileLinear(n)
        BY <1>a, <1>b, <1>c, <3>5 DEF ReconcileLinear
      <3>6. CASE UpdateAttachedToNodes(n)
        BY <1>a, <1>b, <1>c, <3>6 DEF UpdateAttachedToNodes, lvmVars
      <3>7. QED BY <1>5, <3>1, <3>2, <3>3, <3>4, <3>5, <3>6 DEF NodeStep
    <2>2. \A m \in Nodes : pc'[m] = "counter" => pc[m] = "counter"
      BY <2>1
    <2>3. QED BY <2>1, <2>2, WipeFrame
  <1>6. QED BY <1>2, <1>3, <1>4, <1>5

\* lvcreate starts over, before there is a worker or a counter; a worker that ends has
\* written what it was to write; the other steps leave the contents to the users.
LEMMA WipeRest ==
  ASSUME VolumeType = "Block", WipePolicy = "Full", LifecycleInv, WipeInv, TypeOK',
         LifecycleNext, ~\E n \in Nodes : NodeStep(n)
  PROVE  WipeInv'
  <1>0. /\ TypeOK /\ lv \in Lv /\ lv.size \in Nat /\ lv.counter \in Nat /\ SrcSize \in Nat
        /\ lv.state \in {"none", "present", "removed"} /\ MaxSize \in Nat
        /\ Cluster \in Controllers /\ Cluster \notin Nodes /\ Nodes \subseteq Controllers
        /\ FreshOK /\ ClusterOK /\ LvOK
    BY NodesAssumption, SizeAssumption
       DEF NodesAssumption, SizeAssumption, LifecycleInv, TypeOK, Lv, Controllers
  <1>1. CASE ClusterStep
    <2>1. \A n \in Nodes : pc'[n] = pc[n]
      BY <1>0, <1>1 DEF ClusterStep, ReconcileVolume, ReconcilePrepareForResize, CreateBlob,
           RecordLvCreated, ActivateDataSource, DeactivateDataSource, SetAvailable, RemoveBlob,
           RemoveFinalizer, Write, Continue, Return, Fail, RetryRemoval, TypeOK
    <2>2. job' = job
      BY <1>1 DEF ClusterStep, ReconcileVolume, ReconcilePrepareForResize, CreateBlob,
           RecordLvCreated, ActivateDataSource, DeactivateDataSource, SetAvailable, RemoveBlob,
           RemoveFinalizer
    <2>3. CASE CreateBlob /\ ~LvPresent
      <3>1. lv.state = "none"
        BY <1>0, <2>3 DEF CreateBlob, ClusterOK, LvOK, LvPresent
      <3>2. lv'.counter = 0 /\ lv'.state = "present"
        BY <2>3 DEF CreateBlob
      <3>3. NotOld(lv.counter)'
        BY <3>2 DEF NotOld, Extents
      <3>4. ASSUME NEW n \in Nodes PROVE WipedBy(n)'
        <4>1. job[n].kind = "none" /\ pc[n] # "counter"
          BY <3>1 DEF WipeInv, WipedBy, LifecycleInv, NodeOK
        <4>2. QED BY <2>1, <2>2, <4>1 DEF WipedBy
      <3>5. QED BY <3>3, <3>4 DEF WipeInv
    <2>4. CASE ~(CreateBlob /\ ~LvPresent)
      <3>1. /\ lv'.size = lv.size /\ lv'.counter = lv.counter /\ lv'.data = lv.data
            /\ lv'.state = lv.state \/ (lv.state = "present" /\ lv'.state = "removed")
        <4>1. CASE CreateBlob
          <5>1. LvPresent /\ lv.size = InitSize /\ local[Cluster].specSize = InitSize
            BY <1>0, <2>4, <4>1 DEF LvOK, LvPresent, LifecycleInv, CopiesOK, VolumeOK
          <5>2. lv' = lv
            BY <1>0, <4>1, <5>1 DEF CreateBlob, lvmVars
          <5>3. QED BY <5>2
        <4>2. CASE RemoveBlob
          BY <1>0, <4>2 DEF RemoveBlob, LvPresent, lvmVars, Lv
        <4>3. CASE ~CreateBlob /\ ~RemoveBlob
          BY <1>1, <4>3 DEF ClusterStep, ReconcileVolume, ReconcilePrepareForResize,
               RecordLvCreated, ActivateDataSource, DeactivateDataSource, SetAvailable,
               RemoveFinalizer, lvmVars
        <4>4. QED BY <4>1, <4>2, <4>3
      <3>2. QED BY <2>1, <2>2, <3>1, WipeFrame
    <2>5. QED BY <2>3, <2>4
  <1>2. ASSUME NEW n \in Nodes, WorkerDone(n), job[n].state = "running" PROVE WipeInv'
    <2>1. /\ lv' = [lv EXCEPT !.data = Written(job[n], lv.data)] /\ pc' = pc
          /\ job' = [job EXCEPT ![n].state = "done"]
      BY <1>2 DEF WorkerDone
    <2>2. /\ lv'.state = lv.state /\ lv'.size = lv.size /\ lv'.counter = lv.counter
          /\ lv'.data = Written(job[n], lv.data) /\ job[n] \in Job
      BY <1>0, <2>1 DEF Lv, TypeOK
    <2>3. \A e \in Extents : lv.data[e] # "old" => lv'.data[e] # "old"
      BY <2>2 DEF Written
    <2>4. /\ job'[n].kind = job[n].kind /\ job'[n].state = "done"
          /\ \A m \in Nodes \ {n} : job'[m] = job[m]
      BY <1>0, <2>1, <2>2 DEF TypeOK, Job
    <2>5. LvPresent' => NotOld(lv.counter)'
      BY <2>2, <2>3 DEF WipeInv, NotOld, LvPresent
    <2>6. ASSUME NEW m \in Nodes \ {n} PROVE WipedBy(m)'
      BY <2>1, <2>2, <2>3, <2>4 DEF WipeInv, WipedBy, NotOld
    <2>7. WipedBy(n)'
      <3>1. WipedBy(n) /\ JobOK(n) /\ job[n].from \in Nat /\ job[n].to \in Nat
        BY <2>2 DEF WipeInv, LifecycleInv, Job
      <3>2. job[n].kind = "blkdiscard" => NotOld(lv.size)'
        <4> SUFFICES ASSUME job[n].kind = "blkdiscard", NEW e \in Extents, e <= lv.size, e \notin SrcHoles
                     PROVE  lv'.data[e] # "old"
          BY <2>2 DEF NotOld
        <4>1. job[n].to = lv.size /\ (e <= job[n].from => lv.data[e] # "old")
          BY <1>2, <3>1 DEF WipedBy, NotOld
        <4>2. e \in Nat
          BY DEF Extents
        <4>3. QED BY <2>2, <2>3, <3>1, <4>1, <4>2 DEF Written
      <3>3. job[n].kind = "dd" => NotOld(SrcSize)'
        <4> SUFFICES ASSUME job[n].kind = "dd", NEW e \in Extents, e <= SrcSize, e \notin SrcHoles
                     PROVE  lv'.data[e] # "old"
          BY DEF NotOld
        <4>1. job[n].to = SrcSize
          BY <1>2, <3>1 DEF WipedBy
        <4>2. QED BY <2>2, <4>1 DEF Written
      <3>4. pc[n] = "counter" => NotOld(lv.size)'
        BY <2>2, <2>3, <3>1 DEF WipedBy, NotOld
      <3>5. QED BY <2>1, <2>2, <2>4, <3>1, <3>2, <3>3, <3>4 DEF WipedBy
    <2>8. QED BY <2>5, <2>6, <2>7 DEF WipeInv
  <1>3. ASSUME NEW n \in Nodes, lv' = lv, \A m \in Nodes : pc'[m] \in {pc[m], "idle"},
               \A m \in Nodes \ {n} : job'[m] = job[m],
               job'[n] = NoJob \/ (job'[n].kind = job[n].kind /\ job'[n].state = "failed")
        PROVE  WipeInv'
    <2>1. ASSUME NEW m \in Nodes PROVE WipedBy(m)'
      <3>1. CASE m = n
        BY <1>3, <3>1 DEF WipeInv, WipedBy, NotOld, NoJob
      <3>2. CASE m # n
        BY <1>3, <3>2 DEF WipeInv, WipedBy, NotOld
      <3>3. QED BY <3>1, <3>2
    <2>2. QED BY <1>3, <2>1 DEF WipeInv, NotOld, LvPresent
  <1>4. ASSUME NEW n \in Nodes, WorkerDone(n) \/ Fault(n) PROVE WipeInv'
    <2>1. CASE WorkerDone(n)
      <3>1. CASE job[n].state = "running"
        BY <1>2, <2>1, <3>1
      <3>2. CASE job[n].state # "running"
        <4>1. lv' = lv /\ pc' = pc /\ job' = [job EXCEPT ![n].state = "failed"]
          BY <2>1, <3>2 DEF WorkerDone
        <4>2. /\ job'[n].kind = job[n].kind /\ job'[n].state = "failed"
              /\ \A m \in Nodes \ {n} : job'[m] = job[m]
          BY <1>0, <4>1 DEF TypeOK, Job
        <4>3. QED BY <1>3, <4>1, <4>2
      <3>3. QED BY <3>1, <3>2
    <2>2. CASE WorkerFails(n)
      <3>1. lv' = lv /\ pc' = pc /\ job' = [job EXCEPT ![n].state = "failed"]
        BY <2>2 DEF WorkerFails, lvmVars
      <3>2. /\ job'[n].kind = job[n].kind /\ job'[n].state = "failed"
            /\ \A m \in Nodes \ {n} : job'[m] = job[m]
        BY <1>0, <3>1 DEF TypeOK, Job
      <3>3. QED BY <1>3, <3>1, <3>2
    <2>3. CASE RestartNode(n) \/ RebootNode(n)
      <3>1. /\ lv' = lv /\ job'[n] = NoJob /\ (\A m \in Nodes \ {n} : job'[m] = job[m])
            /\ \A m \in Nodes : pc'[m] \in {pc[m], "idle"}
        BY <1>0, <2>3 DEF RestartNode, RebootNode, Restarted, TypeOK
      <3>2. QED BY <1>3, <3>1
    <2>4. CASE Election(n)
      <3>1. lv' = lv /\ job' = job /\ \A m \in Nodes : pc'[m] = pc[m]
        BY <1>0, <2>4 DEF Election, TypeOK, lvmVars
      <3>2. QED BY <3>1, WipeFrame
    <2>5. QED BY <1>4, <2>1, <2>2, <2>3, <2>4 DEF Fault
  <1>5. ASSUME NEW n \in Nodes, CsiStep(n) PROVE WipeInv'
    <2>1. job' = job /\ pc' = pc
      BY <1>5 DEF CsiStep, NodeStageVolume, NodeStageReturns, NodePublishVolume, NodeUnpublishVolume,
           NodeUnstageVolume, NodeUnstageReturns, PodWrites, CsiWrites, Kubelet, reconcileVars
    <2>2. /\ lv'.size = lv.size /\ lv'.counter = lv.counter /\ lv'.state = lv.state
          /\ \A e \in Extents : lv.data[e] # "old" => lv'.data[e] # "old"
      <3>1. CASE \E e \in Extents : PodWrites(n, e)
        BY <1>0, <3>1 DEF PodWrites, Lv
      <3>2. CASE ~\E e \in Extents : PodWrites(n, e)
        BY <1>5, <3>2 DEF CsiStep, NodeStageVolume, NodeStageReturns, NodePublishVolume,
           NodeUnpublishVolume, NodeUnstageVolume, NodeUnstageReturns, CsiWrites, Kubelet, lvmVars
      <3>3. QED BY <3>1, <3>2
    <2>3. QED BY <2>1, <2>2, WipeFrame
  <1>6. CASE (\E c \in Controllers : WatchEvent(c)) \/ CreateVolumeReturns \/ DeleteVolumeChecks
               \/ DeleteVolumeDeletes \/ SourceDeleted \/ SourceActivated \/ SourceReleased
    <2>1. lv' = lv /\ job' = job /\ pc' = pc
      BY <1>6 DEF WatchEvent, CreateVolumeReturns, DeleteVolumeChecks, DeleteVolumeDeletes,
           SourceDeleted, SourceActivated, SourceReleased, PoolAnswers, CsiWrites, lvmVars, reconcileVars
    <2>2. QED BY <2>1, WipeFrame
  <1>7. QED BY <1>1, <1>4, <1>5, <1>6 DEF LifecycleNext

\* What the safe-offset counter covers was wiped or copied, but for the extents of zeroes
\* of a clone source, which dd skips.
THEOREM WipeCorrect == LifecycleSpec => []SafeOffsetIsWiped
  <1> DEFINE Relevant == VolumeType = "Block" /\ WipePolicy = "Full"
             Wiped == Relevant => WipeInv
  <1>1. Init => Wiped
    <2> SUFFICES ASSUME Init PROVE WipeInv
      OBVIOUS
    <2>1. QED
      BY DEF Init, WipeInv, WipedBy, NotOld, NoJob, LvPresent, Controllers
  <1>2. LifecycleInv /\ Wiped /\ [LifecycleNext]_vars => Wiped'
    <2> SUFFICES ASSUME LifecycleInv, WipeInv, [LifecycleNext]_vars,
                        VolumeType = "Block", WipePolicy = "Full"
                 PROVE  WipeInv'
      OBVIOUS
    <2>1. CASE LifecycleNext
      <3>1. TypeOK'
        BY <2>1, ClusterTypes, NodeTypes, FaultTypes, CsiTypes, SourceTypes, RestTypes
           DEF LifecycleNext, LifecycleInv
      <3>2. QED BY <2>1, <3>1, WipeNodeStep, WipeRest
    <2>2. CASE UNCHANGED vars
      <3>1. lv' = lv /\ job' = job /\ pc' = pc
        BY <2>2 DEF vars, lvmVars, reconcileVars
      <3>2. QED BY <3>1, WipeFrame
    <2>3. QED BY <2>1, <2>2
  <1>3. LifecycleInv /\ Wiped => SafeOffsetIsWiped
    <2> SUFFICES ASSUME LifecycleInv, Wiped, Relevant, LvPresent, NEW e \in 1..lv.counter,
                        lv.data[e] = "old"
                 PROVE  e \in SrcHoles
      BY DEF SafeOffsetIsWiped
    <2>1. e \in Extents /\ lv.counter \in 0..MaxSize /\ e <= lv.counter
      BY SizeAssumption DEF LifecycleInv, TypeOK, Lv, Extents, SizeAssumption
    <2>2. QED BY <2>1 DEF WipeInv, NotOld
  <1> HIDE DEF Wiped
  <1>4. QED BY <1>1, <1>2, <1>3, LifecycleCorrect, PTL DEF LifecycleSpec

-----------------------------------------------------------------------------
(* Staging. *)

\* The steps of reconcileLinearPopulating and the report of its success.
Populating == {"activate", "dd", "wipe", "counter", "deactivate", "dsc"}

\* No copy is ahead of the server: a volume that became available stays so.
AvailKept == \A c \in Controllers : cache[c].avail \/ local[c].avail => vol.avail

\* How kubelet, the Volume and the node reconciler of n agree about the attachment.
StagingOK(n) ==
    /\ kubelet[n] \in {"idle", "unstaging"} => n \notin vol.attachTo
    /\ kubelet[n] \in {"staging", "staged", "used"} => n \in vol.attachTo
    /\ kubelet[n] = "idle" => n \notin vol.attached
    /\ kubelet[n] \in {"staged", "used"} /\ vol.phase = "live" => n \in vol.attached

\* What node n's reconciler knows: it attached the volume, so its cache is past
\* population, and it has seen the request that it served.
NodeKnows(n) ==
    /\ n \in vol.attached => cache[n].avail /\ pc[n] \notin Populating
    /\ pc[n] \in {"linear", "attach"} => cache[n].avail /\ (n \in fresh => cache[n] = vol)
    /\ pc[n] \in Populating => ~local[n].avail
    /\ pc[n] # "idle" => local[n].phase # "gone"
    /\ vol.phase = "live" /\ n \in vol.attached /\ n \in vol.attachTo
        => /\ active[n] # "no" /\ n \in cache[n].attachTo
           /\ pc[n] = "linear" => n \in local[n].attachTo
    /\ pc[n] = "attach" =>
        IF n \in local[n].attached
          THEN local[n].phase # "live" \/ n \notin local[n].attachTo
          ELSE /\ local[n].phase = "live" /\ n \in local[n].attachTo
               /\ vol.phase = "live" => active[n] # "no"

StagingInv == AvailKept /\ \A n \in Nodes : StagingOK(n) /\ NodeKnows(n)

\* A step that is not about node n.
LEMMA StagingFrame ==
  ASSUME NEW n \in Nodes, StagingOK(n), NodeKnows(n),
         cache'[n] = cache[n], local'[n] = local[n], pc'[n] = pc[n], kubelet'[n] = kubelet[n],
         n \in vol'.attachTo <=> n \in vol.attachTo, n \in vol'.attached <=> n \in vol.attached,
         vol'.phase = "live" => vol.phase = "live" /\ (active[n] # "no" => active'[n] # "no"),
         n \in fresh' => n \in fresh /\ vol' = vol
  PROVE  StagingOK(n)' /\ NodeKnows(n)'
  <1>1. StagingOK(n)'
    BY DEF StagingOK
  <1>2. NodeKnows(n)'
    BY DEF NodeKnows
  <1>3. QED BY <1>1, <1>2

\* The cluster-wide reconciler leaves the attachments alone, and removes the LV only
\* while the Volume is being deleted.
LEMMA StagingCluster ==
  ASSUME LifecycleInv, StagingInv, ClusterStep
  PROVE  StagingInv'
  <1> DEFINE u == local[Cluster]
             OthersFresh == \A d \in Controllers \ {Cluster} : d \in fresh' => d \in fresh /\ vol' = vol
             Others == \A d \in Controllers \ {Cluster} : pc'[d] = pc[d] /\ local'[d] = local[d]
             Holds == vol'.phase = "live" => \A n \in Nodes : active[n] # "no" => active'[n] # "no"
  <1>0. /\ Cluster \in Controllers /\ TypeOK /\ FreshOK /\ PhaseOK /\ ClusterOK
        /\ u \in Volume /\ vol \in Volume /\ lv \in Lv /\ leader \in Nodes
        /\ ~NoCopy.avail
    BY DEF Controllers, LifecycleInv, TypeOK, NoCopy, NewVolume
  <1>n. Nodes \subseteq Controllers \ {Cluster}
    BY NodesAssumption DEF NodesAssumption, Controllers
  <1>1. ASSUME Others, OthersFresh, cache' = cache, kubelet' = kubelet, Holds,
               vol'.attachTo = vol.attachTo, vol'.attached = vol.attached, vol.avail => vol'.avail,
               vol'.phase = "live" => vol.phase = "live",
               local'[Cluster] \in {u, cache[Cluster], NoCopy, vol'}
        PROVE  StagingInv'
    <2>1. ASSUME NEW n \in Nodes PROVE StagingOK(n)' /\ NodeKnows(n)'
      <3>1. StagingOK(n) /\ NodeKnows(n) /\ n \in Controllers \ {Cluster}
        BY <1>n DEF StagingInv
      <3>2. QED BY <1>1, <3>1, StagingFrame
    <2>2. AvailKept'
      BY <1>0, <1>1 DEF StagingInv, AvailKept
    <2>3. QED BY <2>1, <2>2 DEF StagingInv
  <1>2. ASSUME NEW p, NEW r, vol' = vol, kubelet' = kubelet, Holds,
               Return(Cluster) \/ Fail(Cluster) \/ Continue(Cluster, p, r)
        PROVE  StagingInv'
    <2>1. /\ cache' = cache /\ Others /\ OthersFresh
          /\ local'[Cluster] = NoCopy \/ local'[Cluster] = u
      BY <1>0, <1>2, ReconcileStep
    <2>2. QED BY <1>1, <1>2, <2>1
  <1>3. ASSUME NEW w \in Volume, NEW p, Write(Cluster, w, p), UNCHANGED <<kubelet, active>>,
               w.attachTo = u.attachTo, w.attached = u.attached, u.avail => w.avail,
               w.phase = "live" => u.phase = "live"
        PROVE  StagingInv'
    <2>1. /\ cache' = cache /\ Others /\ OthersFresh
          /\ vol' = vol \/ (vol' = w /\ vol = u)
          /\ local'[Cluster] = NoCopy \/ local'[Cluster] = u \/ local'[Cluster] = vol'
      BY <1>0, <1>3, ReconcileStep
    <2>2. QED BY <1>1, <1>3, <2>1
  <1>4. CASE ReconcileVolume
    <2>1. /\ UNCHANGED <<vol, cache, active, kubelet>> /\ Others
          /\ local'[Cluster] \in {cache[Cluster], NoCopy}
          /\ OthersFresh
      BY <1>0, <1>4 DEF ReconcileVolume, TypeOK, lvmVars, outerVars
    <2>2. QED BY <1>1, <2>1
  <1>5. CASE ReconcilePrepareForResize
    BY <1>0, <1>5 DEF ReconcilePrepareForResize, ClusterOK
  <1>6. CASE CreateBlob
    <2>1. \A n \in Nodes : active[n] # "no" => active'[n] # "no"
      BY <1>0, <1>6 DEF CreateBlob, lvmVars, TypeOK
    <2>2. QED BY <1>2, <1>6, <2>1 DEF CreateBlob, outerVars
  <1>7. CASE RecordLvCreated
    <2> DEFINE w == [u EXCEPT !.size = Maximum(@, lv.size), !.lvCreated = TRUE]
    <2>1. w \in Volume
      <3>1. Maximum(u.size, lv.size) \in 0..MaxSize
        BY <1>0 DEF Maximum, Volume, Lv
      <3>2. QED BY <1>0, <3>1 DEF Volume
    <2>2. w.attachTo = u.attachTo /\ w.attached = u.attached /\ w.avail = u.avail /\ w.phase = u.phase
      BY <1>0 DEF Volume
    <2>3. /\ UNCHANGED <<kubelet, active>>
          /\ \/ Write(Cluster, w, AfterCreate(w))
             \/ Continue(Cluster, AfterCreate(w), seen[Cluster]) /\ UNCHANGED vol
             \/ Fail(Cluster) /\ UNCHANGED vol
      BY <1>7 DEF RecordLvCreated, lvmVars, outerVars
    <2> HIDE DEF w
    <2>4. QED BY <1>2, <1>3, <2>1, <2>2, <2>3
  <1>8. CASE ActivateDataSource
    <2> DEFINE w == [u EXCEPT !.label = leader]
    <2>1. /\ w \in Volume
          /\ w.attachTo = u.attachTo /\ w.attached = u.attached /\ w.avail = u.avail /\ w.phase = u.phase
      BY <1>0 DEF Volume
    <2>2. /\ UNCHANGED <<kubelet, active>>
          /\ Write(Cluster, w, "idle") \/ (UNCHANGED vol /\ (Return(Cluster) \/ Fail(Cluster)))
      BY <1>8 DEF ActivateDataSource, lvmVars
    <2> HIDE DEF w
    <2>3. CASE Write(Cluster, w, "idle")
      BY <1>3, <2>1, <2>2, <2>3
    <2>4. QED BY <1>2, <2>2, <2>3
  <1>9. CASE DeactivateDataSource
    <2> DEFINE w == [u EXCEPT !.label = None]
    <2>1. /\ w \in Volume
          /\ w.attachTo = u.attachTo /\ w.attached = u.attached /\ w.avail = u.avail /\ w.phase = u.phase
      BY <1>0 DEF Volume
    <2>2. /\ UNCHANGED <<kubelet, active>>
          /\ \/ Write(Cluster, w, IF pc[Cluster] = "unlabel" THEN "avail" ELSE "remove")
             \/ UNCHANGED vol /\ (Return(Cluster) \/ Fail(Cluster))
      BY <1>9 DEF DeactivateDataSource, lvmVars
    <2> HIDE DEF w
    <2>3. CASE \E p : Write(Cluster, w, p)
      BY <1>3, <2>1, <2>2, <2>3
    <2>4. QED BY <1>2, <2>2, <2>3
  <1>10. CASE SetAvailable
    <2> DEFINE w == [u EXCEPT !.avail = TRUE, !.abnormal = FALSE]
    <2>1. /\ w \in Volume
          /\ w.attachTo = u.attachTo /\ w.attached = u.attached /\ w.avail /\ w.phase = u.phase
      BY <1>0 DEF Volume
    <2>2. Write(Cluster, w, "idle") /\ UNCHANGED <<kubelet, active>>
      BY <1>10 DEF SetAvailable, lvmVars, outerVars
    <2> HIDE DEF w
    <2>3. QED BY <1>3, <2>1, <2>2
  <1>11. CASE RemoveBlob
    <2>1. vol' = vol /\ vol.phase # "live" /\ kubelet' = kubelet
      BY <1>0, <1>11 DEF RemoveBlob, ClusterOK, PhaseOK, outerVars
    <2>2. QED BY <1>2, <1>11, <2>1 DEF RemoveBlob, RetryRemoval
  <1>12. CASE RemoveFinalizer
    <2> DEFINE w == [u EXCEPT !.phase = "gone"]
    <2>1. /\ w \in Volume
          /\ w.attachTo = u.attachTo /\ w.attached = u.attached /\ w.avail = u.avail /\ w.phase = "gone"
      BY <1>0 DEF Volume
    <2>2. Write(Cluster, w, "idle") /\ UNCHANGED <<kubelet, active>>
      BY <1>12 DEF RemoveFinalizer, lvmVars, outerVars
    <2> HIDE DEF w
    <2>3. QED BY <1>3, <2>1, <2>2
  <1>13. QED
    BY <1>4, <1>5, <1>6, <1>7, <1>8, <1>9, <1>10, <1>11, <1>12 DEF ClusterStep

\* A node reconciler takes the device away only after it has seen a request to do so, and
\* populates only before it has attached the volume.
LEMMA StagingNode ==
  ASSUME LifecycleInv, StagingInv, NEW n \in Nodes, NodeStep(n)
  PROVE  StagingInv'
  <1> DEFINE u == local[n]
             OthersFresh == \A d \in Controllers \ {n} : d \in fresh' => d \in fresh /\ vol' = vol
             Others == \A d \in Controllers \ {n} : pc'[d] = pc[d] /\ local'[d] = local[d]
             Elsewhere == \A m \in Nodes \ {n} : active'[m] = active[m]
  <1>0. /\ n \in Controllers /\ TypeOK /\ FreshOK /\ PhaseOK
        /\ u \in Volume /\ vol \in Volume /\ cache[n] \in Volume
        /\ ~NoCopy.avail /\ NoCopy.phase = "gone"
        /\ StagingOK(n) /\ NodeKnows(n) /\ VolumeOK(cache[n])
    BY DEF Controllers, LifecycleInv, StagingInv, TypeOK, NoCopy, NewVolume, CopiesOK
  <1>n. Nodes \subseteq Controllers
    BY DEF Controllers
  <1>1. ASSUME Others, OthersFresh, Elsewhere, cache' = cache, kubelet' = kubelet,
               vol'.attachTo = vol.attachTo, vol.avail => vol'.avail, vol'.phase = vol.phase,
               \A m \in Nodes \ {n} : m \in vol'.attached <=> m \in vol.attached,
               local'[n] \in {u, cache[n], NoCopy, vol'},
               StagingOK(n)', NodeKnows(n)'
        PROVE  StagingInv'
    <2>1. ASSUME NEW m \in Nodes \ {n} PROVE StagingOK(m)' /\ NodeKnows(m)'
      <3>1. StagingOK(m) /\ NodeKnows(m) /\ m \in Controllers \ {n}
        BY <1>n DEF StagingInv
      <3>2. QED BY <1>1, <3>1, StagingFrame
    <2>2. AvailKept'
      BY <1>0, <1>1 DEF StagingInv, AvailKept
    <2>3. QED BY <1>1, <2>1, <2>2 DEF StagingInv
  <1>2. ASSUME NEW p, NEW r, UNCHANGED <<vol, kubelet>>, Elsewhere,
               Return(n) \/ Fail(n) \/ Continue(n, p, r),
               vol.phase = "live" /\ n \in vol.attached /\ n \in vol.attachTo => active'[n] # "no",
               p \in Populating => pc[n] \in Populating,
               p \in {"linear", "attach"} => pc[n] = "linear" /\ p = "attach",
               p = "attach" =>
                   IF n \in u.attached THEN u.phase # "live" \/ n \notin u.attachTo
                   ELSE u.phase = "live" /\ n \in u.attachTo /\ active'[n] # "no",
               p # "idle" => pc[n] # "idle"
        PROVE  StagingInv'
    <2>1. /\ cache' = cache /\ Others /\ OthersFresh
          /\ \/ pc'[n] = "idle" /\ local'[n] = NoCopy
             \/ pc'[n] = p /\ local'[n] = u
      <3>1. UNCHANGED vol /\ (Return(n) \/ Fail(n) \/ Continue(n, p, r))
        BY <1>2
      <3> HIDE DEF u
      <3>2. QED BY <1>0, <3>1, ReconcileStep DEF u
    <2>2. n \in fresh' => n \in fresh
      BY <1>2 DEF Return, Fail, Continue
    <2>3. StagingOK(n)'
      BY <1>0, <1>2 DEF StagingOK
    <2>4. NodeKnows(n)'
      <3>1. CASE pc'[n] = "idle"
        BY <1>0, <1>2, <2>1, <3>1 DEF NodeKnows, Populating
      <3>2. CASE pc'[n] # "idle"
        <4>1. pc'[n] = p /\ local'[n] = u
          BY <2>1, <3>2
        <4>2. n \in vol.attached => cache[n].avail /\ p \notin Populating
          BY <1>0, <1>2 DEF NodeKnows
        <4>3. p \in {"linear", "attach"} => cache[n].avail /\ (n \in fresh' => cache[n] = vol)
          BY <1>0, <1>2, <2>2 DEF NodeKnows
        <4>4. /\ p \in Populating => ~u.avail
              /\ p # "idle" => u.phase # "gone"
              /\ vol.phase = "live" /\ n \in vol.attached /\ n \in vol.attachTo => n \in cache[n].attachTo
              /\ p # "linear"
          BY <1>0, <1>2 DEF NodeKnows
        <4>5. QED BY <1>2, <2>1, <4>1, <4>2, <4>3, <4>4 DEF NodeKnows
      <3>3. QED BY <3>1, <3>2
    <2>5. QED BY <1>1, <1>2, <2>1, <2>3, <2>4
  <1>3. ASSUME NEW p, NEW r, UNCHANGED <<vol, kubelet>>, Elsewhere, pc[n] \in Populating,
               Return(n) \/ Fail(n) \/ Continue(n, p, r), p \in Populating \cup {"idle"}
        PROVE  StagingInv'
    <2>1. n \notin vol.attached
      BY <1>0, <1>3 DEF NodeKnows
    <2>2. p \notin {"linear", "attach"} /\ pc[n] # "idle"
      BY <1>3 DEF Populating
    <2>3. QED BY <1>2, <1>3, <2>1, <2>2
  <1>4. CASE ReconcileNode(n)
    <2> DEFINE v == cache[n]
               p == CASE v.phase = "gone" -> "idle"
                      [] v.phase # "gone" /\ v.lvCreated /\ ~v.dsc /\ v.label = n -> "activate"
                      [] OTHER -> Ready(v)
    <2>1. /\ UNCHANGED <<vol, cache, active, kubelet>> /\ pc[n] = "idle" /\ pc'[n] = p
          /\ Others /\ local'[n] = (IF p = "idle" THEN NoCopy ELSE v)
          /\ fresh' = IF p # "idle" /\ v = vol THEN fresh \cup {n} ELSE fresh
      BY <1>0, <1>4 DEF ReconcileNode, TypeOK, lvmVars, outerVars
    <2>2. /\ p \in {"idle", "activate", "linear"} /\ (v.phase = "gone" => p = "idle")
          /\ p = "activate" => ~v.avail
          /\ p = "linear" => v.avail
      BY <1>0 DEF Ready, VolumeOK
    <2>3. n \notin fresh
      BY <1>0, <2>1 DEF FreshOK
    <2> HIDE DEF p
    <2>4. StagingOK(n)'
      BY <1>0, <2>1 DEF StagingOK
    <2>5. NodeKnows(n)'
      BY <1>0, <2>1, <2>2, <2>3 DEF NodeKnows, Populating
    <2>6. OthersFresh
      BY <2>1
    <2>7. QED BY <1>1, <2>1, <2>4, <2>5, <2>6
  <1>5. CASE PopulateActivate(n)
    <2>1. /\ UNCHANGED <<vol, kubelet>> /\ Elsewhere /\ pc[n] \in Populating
          /\ \/ Fail(n)
             \/ Continue(n, IF SrcSize > 0 /\ GetCounter = 0 THEN "dd" ELSE "wipe",
                         [seen[n] EXCEPT !.offset = GetCounter])
      BY <1>0, <1>5 DEF PopulateActivate, TypeOK, outerVars, Populating
    <2>2. (IF SrcSize > 0 /\ GetCounter = 0 THEN "dd" ELSE "wipe") \in Populating
      BY DEF Populating
    <2>3. QED BY <1>3, <2>1, <2>2
  <1>6. CASE PopulateFromSource(n)
    <2>1. /\ UNCHANGED <<vol, kubelet>> /\ Elsewhere /\ pc[n] \in Populating /\ "wipe" \in Populating
          /\ \/ Return(n) \/ Fail(n) \/ Continue(n, "wipe", seen[n])
             \/ Continue(n, "wipe", [seen[n] EXCEPT !.offset = SrcSize])
      BY <1>6 DEF PopulateFromSource, CancelPends, RunStarts, RunPends, RunFails, outerVars, Populating
    <2>2. QED BY <1>3, <2>1
  <1>7. CASE PopulateWipe(n)
    <2>1. /\ UNCHANGED <<vol, kubelet>> /\ Elsewhere /\ pc[n] \in Populating
          /\ "deactivate" \in Populating /\ "counter" \in Populating
          /\ \/ Return(n) \/ Fail(n) \/ Continue(n, "deactivate", seen[n])
             \/ Continue(n, "counter", [seen[n] EXCEPT !.size = lv.size])
      BY <1>7 DEF PopulateWipe, CancelPends, RunStarts, RunPends, RunFails, lvmVars, outerVars, Populating
    <2>2. QED BY <1>3, <2>1
  <1>8. CASE PopulateCounter(n)
    <2>1. /\ UNCHANGED <<vol, kubelet>> /\ Elsewhere /\ pc[n] \in Populating /\ "deactivate" \in Populating
          /\ Fail(n) \/ Continue(n, "deactivate", seen[n])
      BY <1>8 DEF PopulateCounter, outerVars, Populating
    <2>2. QED BY <1>3, <2>1
  <1>9. CASE PopulateDeactivate(n)
    <2> DEFINE p == IF local[n].phase = "deleting" THEN "idle" ELSE "dsc"
    <2>1. /\ UNCHANGED <<vol, kubelet>> /\ Elsewhere /\ pc[n] \in Populating
          /\ Fail(n) \/ Continue(n, p, seen[n])
      BY <1>0, <1>9 DEF PopulateDeactivate, TypeOK, outerVars, Populating
    <2>2. p \in Populating \cup {"idle"}
      BY DEF Populating
    <2>3. QED BY <1>3, <2>1, <2>2
  <1>10. CASE SetDataSourceCompleted(n)
    <2> DEFINE w == [u EXCEPT !.dsc = TRUE]
    <2>1. ~u.avail /\ n \notin vol.attached
      BY <1>0, <1>10 DEF SetDataSourceCompleted, NodeKnows, Populating
    <2>2. Write(n, w, "idle") /\ UNCHANGED <<active, kubelet>>
      BY <1>10, <2>1 DEF SetDataSourceCompleted, Ready, lvmVars, outerVars
    <2>3. w.attachTo = u.attachTo /\ w.attached = u.attached /\ w.avail = u.avail /\ w.phase = u.phase
      BY <1>0 DEF Volume
    <2> HIDE DEF w
    <2>4. /\ cache' = cache /\ Others /\ OthersFresh
          /\ vol' = vol \/ (vol' = w /\ vol = u)
          /\ pc'[n] = "idle" /\ local'[n] \in {NoCopy, u, vol'}
      BY <1>0, <2>2, ReconcileStep
    <2>5. vol'.attachTo = vol.attachTo /\ vol'.attached = vol.attached /\ vol'.phase = vol.phase /\ vol'.avail = vol.avail
      BY <2>3, <2>4
    <2>6. StagingOK(n)'
      BY <1>0, <2>2, <2>5 DEF StagingOK
    <2>7. NodeKnows(n)'
      BY <2>1, <2>4, <2>5 DEF NodeKnows, Populating
    <2>8. QED BY <1>1, <2>2, <2>4, <2>5, <2>6, <2>7
  <1>11. CASE ReconcileLinear(n)
    <2> DEFINE should == u.phase = "live" /\ n \in u.attachTo
               after(isActive) == IF isActive = (n \in u.attached) THEN "idle" ELSE "attach"
    <2>1. /\ UNCHANGED <<vol, kubelet>> /\ Elsewhere /\ pc[n] = "linear"
          /\ \/ Fail(n) /\ active'[n] = active[n]
             \/ \E b \in BOOLEAN : Continue(n, after(b), seen[n]) /\ (b <=> active'[n] # "no") /\ (b <=> should)
      BY <1>0, <1>11 DEF ReconcileLinear, TypeOK, outerVars
    <2>2. vol.phase = "live" /\ n \in vol.attached /\ n \in vol.attachTo => active[n] # "no" /\ should
      <3>1. u.phase \in {"live", "deleting"}
        BY <1>0, <2>1 DEF NodeKnows, Volume
      <3>2. vol.phase = "live" => u.phase = "live"
        BY <1>0, <3>1 DEF PhaseOK
      <3>3. QED BY <1>0, <2>1, <3>2 DEF NodeKnows
    <2>3. CASE Fail(n) /\ active'[n] = active[n]
      BY <1>2, <2>1, <2>2, <2>3 DEF Populating
    <2>4. ASSUME NEW b \in BOOLEAN, Continue(n, after(b), seen[n]), b <=> active'[n] # "no", b <=> should
          PROVE  StagingInv'
      <3> DEFINE p == after(b)
      <3>1. p \in {"idle", "attach"} /\ p \notin Populating
        BY DEF Populating
      <3>2. p = "attach" => (b <=> n \notin u.attached)
        OBVIOUS
      <3>3. Continue(n, p, seen[n])
        BY <2>4
      <3> HIDE DEF p
      <3>4. QED BY <1>2, <2>1, <2>2, <2>4, <3>1, <3>2, <3>3
    <2>5. QED BY <2>1, <2>3, <2>4
  <1>12. CASE UpdateAttachedToNodes(n)
    <2> DEFINE w == [u EXCEPT !.attached = IF n \in @ THEN @ \ {n} ELSE @ \cup {n}]
    <2>1. pc[n] = "attach" /\ Write(n, w, "idle") /\ UNCHANGED <<active, kubelet>>
      BY <1>12 DEF UpdateAttachedToNodes, lvmVars, outerVars
    <2>2. /\ w.attachTo = u.attachTo /\ w.avail = u.avail /\ w.phase = u.phase
          /\ n \in w.attached <=> n \notin u.attached
          /\ \A m \in Nodes \ {n} : m \in w.attached <=> m \in u.attached
      BY <1>0 DEF Volume
    <2> HIDE DEF w
    <2>3. /\ cache' = cache /\ Others /\ OthersFresh
          /\ vol' = vol \/ (vol' = w /\ vol = u)
          /\ pc'[n] = "idle" /\ local'[n] \in {NoCopy, u, vol'}
      BY <1>0, <2>1, ReconcileStep
    <2>4. CASE vol' = vol
      <3>1. StagingOK(n)'
        BY <1>0, <2>1, <2>4 DEF StagingOK
      <3>2. NodeKnows(n)'
        BY <1>0, <2>1, <2>3, <2>4 DEF NodeKnows, Populating
      <3>3. QED BY <1>1, <2>1, <2>3, <2>4, <3>1, <3>2
    <2>5. CASE vol' # vol
      <3>1. vol' = w /\ vol = u /\ cache[n] = vol /\ cache[n].avail
        BY <1>0, <2>1, <2>3, <2>5 DEF Write, NodeKnows
      <3>2. IF n \in u.attached
              THEN u.phase # "live" \/ n \notin u.attachTo
              ELSE u.phase = "live" /\ n \in u.attachTo /\ active[n] # "no"
        BY <1>0, <2>1, <3>1 DEF NodeKnows
      <3>3. StagingOK(n)'
        BY <1>0, <2>1, <2>2, <3>1, <3>2 DEF StagingOK, TypeOK
      <3>4. NodeKnows(n)'
        BY <1>0, <2>1, <2>2, <2>3, <3>1, <3>2 DEF NodeKnows, Populating
      <3>5. QED BY <1>1, <2>1, <2>2, <2>3, <3>1, <3>3, <3>4
    <2>6. QED BY <2>4, <2>5
  <1>13. QED
    BY <1>4, <1>5, <1>6, <1>7, <1>8, <1>9, <1>10, <1>11, <1>12 DEF NodeStep

\* Watch events, workers, restarts, leader changes and CSI calls. NodeStageVolume follows
\* a finished NodeUnstageVolume, so it never meets an attachment of an earlier one.
LEMMA StagingRest ==
  ASSUME LifecycleInv, StagingInv, LifecycleNext, ~ClusterStep, ~\E n \in Nodes : NodeStep(n),
         \A n \in Nodes : active[n] # "no" => ~RebootNode(n)
  PROVE  StagingInv'
  <1>0. /\ Cluster \in Controllers /\ Cluster \notin Nodes /\ Nodes \subseteq Controllers
        /\ TypeOK /\ FreshOK /\ PhaseOK /\ vol \in Volume /\ VolumeOK(vol) /\ AvailKept
        /\ ~NoCopy.avail
    BY NodesAssumption
       DEF NodesAssumption, Controllers, LifecycleInv, StagingInv, TypeOK, CopiesOK, NoCopy, NewVolume
  <1>i. \A n \in Nodes : StagingOK(n) /\ NodeKnows(n)
    BY DEF StagingInv
  <1>1. ASSUME NEW c \in Controllers, WatchEvent(c) PROVE StagingInv'
    <2>1. /\ UNCHANGED <<vol, local, fresh, pc, active, kubelet>> /\ cache'[c] = vol
          /\ \A d \in Controllers \ {c} : cache'[d] = cache[d]
      BY <1>0, <1>1 DEF WatchEvent, TypeOK, lvmVars, outerVars
    <2>2. AvailKept'
      BY <1>0, <2>1 DEF AvailKept
    <2>3. ASSUME NEW n \in Nodes PROVE StagingOK(n)' /\ NodeKnows(n)'
      <3>1. CASE n # c
        BY <1>0, <1>i, <2>1, <3>1, StagingFrame
      <3>2. CASE n = c
        <4>1. StagingOK(n)'
          BY <1>i, <2>1 DEF StagingOK
        <4>2. NodeKnows(n)'
          BY <1>0, <1>i, <2>1, <3>2 DEF NodeKnows, AvailKept, VolumeOK
        <4>3. QED BY <4>1, <4>2
      <3>3. QED BY <3>1, <3>2
    <2>4. QED BY <2>2, <2>3 DEF StagingInv
  <1>2. ASSUME UNCHANGED <<vol, cache, local, fresh, pc, active>>,
               \A n \in Nodes : kubelet'[n] = kubelet[n] \/ StagingOK(n)'
        PROVE  StagingInv'
    <2>1. AvailKept'
      BY <1>0, <1>2 DEF AvailKept
    <2>2. ASSUME NEW n \in Nodes PROVE StagingOK(n)' /\ NodeKnows(n)'
      <3>1. NodeKnows(n)'
        BY <1>2, <1>i DEF NodeKnows
      <3>2. CASE kubelet'[n] = kubelet[n]
        BY <1>2, <1>i, <3>1, <3>2 DEF StagingOK
      <3>3. QED BY <1>2, <3>1, <3>2
    <2>3. QED BY <2>1, <2>2 DEF StagingInv
  <1>3. ASSUME NEW n \in Nodes, WorkerDone(n) \/ WorkerFails(n) PROVE StagingInv'
    BY <1>2, <1>3 DEF WorkerDone, WorkerFails, lvmVars, outerVars
  <1>4. ASSUME NEW n \in Nodes, RestartNode(n) \/ RebootNode(n) PROVE StagingInv'
    <2>1. /\ UNCHANGED vol /\ fresh' = fresh \ {n}
          /\ cache'[n] = vol /\ pc'[n] = "idle" /\ local'[n] = NoCopy
          /\ \A c \in Controllers \ {n} : cache'[c] = cache[c] /\ pc'[c] = pc[c] /\ local'[c] = local[c]
      BY <1>0, <1>4 DEF RestartNode, RebootNode, Restarted, TypeOK
    <2>2. \A m \in Nodes : active'[m] = active[m]
      BY <1>0, <1>4 DEF RestartNode, RebootNode, TypeOK
    <2>3. /\ \A m \in Nodes \ {n} : kubelet'[m] = kubelet[m]
          /\ \/ kubelet'[n] = kubelet[n]
             \/ active[n] = "no" /\ kubelet'[n] = "staging" /\ kubelet[n] \in {"staged", "used"}
      BY <1>0, <1>4 DEF RestartNode, RebootNode, TypeOK
    <2>4. AvailKept'
      BY <1>0, <2>1 DEF AvailKept
    <2>5. ASSUME NEW m \in Nodes \ {n} PROVE StagingOK(m)' /\ NodeKnows(m)'
      BY <1>0, <1>i, <2>1, <2>2, <2>3, StagingFrame
    <2>6. StagingOK(n)'
      BY <1>i, <2>1, <2>3 DEF StagingOK
    <2>7. NodeKnows(n)'
      BY <1>0, <1>i, <2>1, <2>2 DEF NodeKnows, VolumeOK, Populating
    <2>8. QED BY <2>4, <2>5, <2>6, <2>7 DEF StagingInv
  <1>5. ASSUME NEW n \in Nodes, Election(n) PROVE StagingInv'
    <2>1. /\ UNCHANGED <<vol, active, kubelet>> /\ fresh' = fresh \ {Cluster}
          /\ cache'[Cluster] = vol /\ local'[Cluster] = NoCopy
          /\ \A c \in Controllers \ {Cluster} : cache'[c] = cache[c] /\ pc'[c] = pc[c] /\ local'[c] = local[c]
      BY <1>0, <1>5 DEF Election, TypeOK, lvmVars, outerVars
    <2>2. AvailKept'
      BY <1>0, <2>1 DEF AvailKept
    <2>3. ASSUME NEW m \in Nodes PROVE StagingOK(m)' /\ NodeKnows(m)'
      <3>1. m \in Controllers \ {Cluster}
        BY <1>0
      <3>2. QED BY <1>i, <2>1, <3>1, StagingFrame
    <2>4. QED BY <2>2, <2>3 DEF StagingInv
  <1>6. ASSUME NEW n \in Nodes, NEW w \in Volume, CsiWrites(w), w.phase = "live" => vol.phase = "live",
               w.attached = vol.attached, w.avail = vol.avail,
               \A m \in Nodes \ {n} : kubelet'[m] = kubelet[m] /\ (m \in w.attachTo <=> m \in vol.attachTo),
               StagingOK(n)', n \in w.attachTo /\ n \in vol.attached => n \in vol.attachTo
        PROVE  StagingInv'
    <2>1. UNCHANGED <<cache, local, pc, active>> /\ vol' = w /\ fresh' = {}
      BY <1>6 DEF CsiWrites, lvmVars
    <2>2. AvailKept'
      BY <1>0, <1>6, <2>1 DEF AvailKept
    <2>3. ASSUME NEW m \in Nodes \ {n} PROVE StagingOK(m)' /\ NodeKnows(m)'
      BY <1>6, <1>i, <2>1, StagingFrame
    <2>4. NodeKnows(n)'
      BY <1>6, <1>i, <2>1 DEF NodeKnows
    <2>5. QED BY <1>6, <2>2, <2>3, <2>4 DEF StagingInv
  <1>7. ASSUME NEW n \in Nodes, CsiStep(n) PROVE StagingInv'
    <2>1. CASE NodeStageVolume(n)
      <3> DEFINE w == [vol EXCEPT !.attachTo = @ \cup {n}]
      <3>1. /\ w \in Volume /\ w.phase = vol.phase /\ w.attached = vol.attached /\ w.avail = vol.avail
            /\ w.attachTo = vol.attachTo \cup {n}
        BY <1>0 DEF Volume
      <3>2. /\ CsiWrites(w) /\ vol' = w /\ kubelet[n] = "idle" /\ kubelet'[n] = "staging"
            /\ \A m \in Nodes \ {n} : kubelet'[m] = kubelet[m]
        BY <1>0, <2>1 DEF NodeStageVolume, CsiWrites, TypeOK
      <3> HIDE DEF w
      <3>3. n \notin vol.attached
        BY <1>i, <3>2 DEF StagingOK
      <3>4. StagingOK(n)'
        BY <3>1, <3>2 DEF StagingOK
      <3>5. QED BY <1>6, <3>1, <3>2, <3>3, <3>4
    <2>2. CASE NodeUnstageVolume(n)
      <3> DEFINE w == [vol EXCEPT !.attachTo = @ \ {n}]
      <3>1. /\ w \in Volume /\ w.phase = vol.phase /\ w.attached = vol.attached /\ w.avail = vol.avail
            /\ w.attachTo = vol.attachTo \ {n}
        BY <1>0 DEF Volume
      <3>2. /\ CsiWrites(w) /\ vol' = w /\ kubelet'[n] = "unstaging"
            /\ \A m \in Nodes \ {n} : kubelet'[m] = kubelet[m]
        BY <1>0, <2>2 DEF NodeUnstageVolume, CsiWrites, TypeOK
      <3> HIDE DEF w
      <3>3. StagingOK(n)'
        BY <3>1, <3>2 DEF StagingOK
      <3>4. QED BY <1>6, <3>1, <3>2, <3>3
    <2>3. ASSUME NEW from, NEW to, Kubelet(n, from, to), StagingOK(n)' PROVE StagingInv'
      <3>1. /\ UNCHANGED <<vol, cache, local, fresh, pc, active>>
            /\ \A m \in Nodes \ {n} : kubelet'[m] = kubelet[m]
        BY <1>0, <2>3 DEF Kubelet, reconcileVars, lvmVars, TypeOK
      <3>2. QED BY <1>2, <2>3, <3>1
    <2>4. CASE NodeStageReturns(n)
      <3>1. Kubelet(n, "staging", "staged") /\ n \in vol.attached
        BY <2>4 DEF NodeStageReturns
      <3>2. vol' = vol /\ kubelet[n] = "staging" /\ kubelet'[n] = "staged"
        BY <1>0, <3>1 DEF Kubelet, TypeOK
      <3>3. StagingOK(n)'
        BY <1>i, <3>1, <3>2 DEF StagingOK
      <3>4. QED BY <2>3, <3>1, <3>3
    <2>5. CASE NodeUnstageReturns(n)
      <3>1. Kubelet(n, "unstaging", "idle") /\ n \notin vol.attached
        BY <2>5 DEF NodeUnstageReturns
      <3>2. vol' = vol /\ kubelet[n] = "unstaging" /\ kubelet'[n] = "idle"
        BY <1>0, <3>1 DEF Kubelet, TypeOK
      <3>3. StagingOK(n)'
        BY <1>i, <3>1, <3>2 DEF StagingOK
      <3>4. QED BY <2>3, <3>1, <3>3
    <2>6. CASE NodePublishVolume(n) \/ NodeUnpublishVolume(n)
      <3>1. PICK from \in {"staged", "used"}, to \in {"staged", "used"} : Kubelet(n, from, to)
        BY <2>6 DEF NodePublishVolume, NodeUnpublishVolume
      <3>2. vol' = vol /\ kubelet[n] = from /\ kubelet'[n] = to
        BY <1>0, <3>1 DEF Kubelet, TypeOK
      <3>3. StagingOK(n)'
        BY <1>i, <3>1, <3>2 DEF StagingOK
      <3>4. QED BY <2>3, <3>1, <3>3
    <2>7. CASE \E e \in Extents : PodWrites(n, e)
      BY <1>2, <2>7 DEF PodWrites, reconcileVars, outerVars
    <2>8. QED BY <1>7, <2>1, <2>2, <2>4, <2>5, <2>6, <2>7 DEF CsiStep
  <1>8. CASE CreateVolumeReturns \/ DeleteVolumeChecks
    BY <1>2, <1>8 DEF CreateVolumeReturns, DeleteVolumeChecks, reconcileVars, lvmVars
  <1>9. CASE DeleteVolumeDeletes
    <2> DEFINE w == [vol EXCEPT !.phase = "deleting"]
    <2>1. /\ w \in Volume /\ w.phase = "deleting" /\ w.attached = vol.attached /\ w.avail = vol.avail
          /\ w.attachTo = vol.attachTo
      BY <1>0 DEF Volume
    <2>2. CsiWrites(w) /\ vol' = w /\ kubelet' = kubelet
      BY <1>9 DEF DeleteVolumeDeletes, CsiWrites, outerVars
    <2> HIDE DEF w
    <2>3. PICK n \in Nodes : TRUE
      BY <1>0 DEF TypeOK
    <2>4. StagingOK(n)'
      BY <1>i, <2>1, <2>2 DEF StagingOK
    <2>5. QED BY <1>6, <2>1, <2>2, <2>3, <2>4
  <1>10. CASE SourceDeleted \/ SourceActivated \/ SourceReleased
    BY <1>2, <1>10 DEF SourceDeleted, SourceActivated, SourceReleased, PoolAnswers, reconcileVars, lvmVars
  <1>11. QED
    BY <1>1, <1>3, <1>4, <1>5, <1>7, <1>8, <1>9, <1>10 DEF LifecycleNext, Fault

\* A node's crash that takes its LVM locks with it. kubelet then stages the volume again,
\* but NodeStageVolume finds the node still listed as attached, and returns.
NoLockLost == [][\A n \in Nodes : active[n] # "no" => ~RebootNode(n)]_vars

\* While the Volume lives, a node reconciler working from an old copy never takes the
\* device away from under a staged volume, as long as no node loses its locks.
THEOREM StagedCorrect == LifecycleSpec /\ NoLockLost => []StagedIsBacked
  <1>1. Init => StagingInv
    <2> SUFFICES ASSUME Init PROVE StagingInv
      OBVIOUS
    <2>1. Nodes \subseteq Controllers
      BY DEF Controllers
    <2>2. QED
      BY <2>1 DEF Init, StagingInv, AvailKept, StagingOK, NodeKnows, NoCopy, NewVolume, Populating
  <1>2. /\ LifecycleInv /\ StagingInv /\ [LifecycleNext]_vars
        /\ [\A n \in Nodes : active[n] # "no" => ~RebootNode(n)]_vars
        => StagingInv'
    <2> SUFFICES ASSUME LifecycleInv, StagingInv, [LifecycleNext]_vars,
                        [\A n \in Nodes : active[n] # "no" => ~RebootNode(n)]_vars
                 PROVE  StagingInv'
      OBVIOUS
    <2>1. CASE UNCHANGED vars
      <3>1. UNCHANGED <<vol, cache, local, fresh, pc, active, kubelet>>
        BY <2>1 DEF vars, reconcileVars, lvmVars, outerVars
      <3>2. QED BY <3>1 DEF StagingInv, AvailKept, StagingOK, NodeKnows
    <2>2. CASE ~UNCHANGED vars
      BY <2>2, StagingCluster, StagingNode, StagingRest
    <2>3. QED BY <2>1, <2>2
  <1>3. StagingInv => StagedIsBacked
    BY DEF StagingInv, StagingOK, NodeKnows, StagedIsBacked
  <1>4. QED BY <1>1, <1>2, <1>3, LifecycleCorrect, PTL DEF LifecycleSpec, NoLockLost
=============================================================================
