------------------------- MODULE LinearSafetyProofs -------------------------
(***************************************************************************)
(* A Linear volume that is never expanded is exposed to users only once it *)
(* is populated, and nothing overwrites it afterwards: proved for every    *)
(* number of nodes, leader changes, restarts, reboots and attachments.     *)
(***************************************************************************)
EXTENDS LinearVolumeProofs

-----------------------------------------------------------------------------
(* The inductive invariant. *)

\* How far population has to take the counter before a user may see the image.
Target == IF VolumeType = "Block" THEN lv.size ELSE SrcSize

\* Population is over. Once true it stays true, past the removal of the LV.
Populated == lv.state # "none" /\ (LvPresent => lv.counter >= Target)

\* What every copy of the Volume says, however old it is.
VolumeOK(v) ==
    /\ v.specSize = InitSize /\ v.size \in {0, InitSize}
    /\ v.attached # {} => v.avail
    /\ v.avail => v.dsc
    /\ v.dsc => Populated

CopiesOK == VolumeOK(vol) /\ \A c \in Controllers : VolumeOK(cache[c]) /\ VolumeOK(local[c])

\* A copy that counts as current is; a copy never sees a deletion undone.
FreshOK == \A c \in fresh : local[c] = vol /\ pc[c] # "idle"
PhaseOK ==
    \A c \in Controllers :
        /\ cache[c].phase # "live" => vol.phase # "live"
        /\ local[c].phase = "deleting" => cache[c].phase # "live"

ClusterOK ==
    /\ pc[Cluster] \in {"create", "created", "source", "unlabel", "avail"}
        => local[Cluster].phase = "live"
    /\ pc[Cluster] # "prepare"
    /\ pc[Cluster] \in {"unlabel", "avail"} => local[Cluster].dsc
    /\ pc[Cluster] \in {"dunlabel", "remove", "finalize"} => local[Cluster].phase = "deleting"

\* The LV is made once, for a live Volume, and held as LVM's locks allow.
LvOK ==
    /\ lv.state # "none" => lv.size = InitSize
    /\ lv.counter = 0 \/ lv.counter >= SrcSize
    /\ lv.state = "removed" => /\ vol.phase # "live" /\ cache[Cluster].phase # "live"
                               /\ local[Cluster].phase # "live"
    /\ ~LvPresent => \A n \in Nodes : active[n] = "no"
    /\ \A m, n \in Nodes : m # n /\ active[m] = "ex" => active[n] = "no"

NodeOK(n) ==
    /\ pc[n] \in {"dd", "wipe", "counter", "deactivate"} => lv.state # "none"
    /\ pc[n] \in {"dd", "wipe", "counter"} /\ LvPresent => active[n] = "ex"
    /\ pc[n] = "dd" => SrcSize > 0 /\ (LvPresent => lv.counter = 0)
    /\ pc[n] = "wipe" /\ local[n].phase = "live" /\ LvPresent
        => lv.counter >= SrcSize /\ seen[n].offset = lv.counter
    /\ pc[n] = "counter" => VolumeType = "Block" /\ job[n].state # "running"
    /\ pc[n] = "counter" /\ LvPresent => seen[n].size = lv.size
    /\ pc[n] = "deactivate" /\ local[n].phase # "deleting" => Populated
    /\ pc[n] = "dsc" => Populated
    /\ pc[n] \in {"linear", "attach"} => local[n].avail

\* A worker that can still write holds the LV, and population is not over.
JobOK(n) ==
    /\ job[n].state \in {"running", "canceled"} => LvPresent /\ active[n] = "ex"
    /\ job[n].state = "running" =>
        \/ job[n].kind = "dd" /\ SrcSize > 0 /\ lv.counter = 0
        \/ job[n].kind = "blkdiscard" /\ VolumeType = "Block" /\ WipePolicy = "Full"
           /\ lv.counter < lv.size /\ job[n].from >= lv.counter

ExposureOK ==
    /\ \A n \in Nodes : Exposed(n) => Populated
    /\ \A e \in Extents : lv.data[e] = "user" => Populated

LifecycleInv ==
    /\ TypeOK /\ CopiesOK /\ FreshOK /\ PhaseOK /\ ClusterOK /\ LvOK
    /\ \A n \in Nodes : NodeOK(n) /\ JobOK(n)
    /\ ExposureOK

-----------------------------------------------------------------------------
(* What reconcile ends and writes do to the copies of the Volume. *)

Copies == CopiesOK /\ FreshOK /\ PhaseOK

\* The copy that stands for "none" claims nothing.
LEMMA NoCopyOK == VolumeOK(NoCopy) /\ VolumeOK(NewVolume) /\ NoCopy.phase = "gone"
  BY DEF VolumeOK, NoCopy, NewVolume

\* Return and Fail drop the local copy and keep the rest.
LEMMA EndCopies ==
  ASSUME TypeOK, Copies, NEW c \in Controllers, Return(c) \/ Fail(c), UNCHANGED vol,
         Populated => Populated'
  PROVE  /\ Copies' /\ pc'[c] = "idle"
         /\ \A d \in Controllers \ {c} : pc'[d] = pc[d] /\ local'[d] = local[d] /\ seen'[d] = seen[d]
  <1>1. /\ cache' = cache /\ local'[c] = NoCopy /\ pc'[c] = "idle" /\ fresh' = fresh \ {c}
        /\ \A d \in Controllers \ {c} : pc'[d] = pc[d] /\ local'[d] = local[d] /\ seen'[d] = seen[d]
    BY DEF TypeOK, Return, Fail
  <1>2. CopiesOK'
    BY <1>1, NoCopyOK DEF Copies, CopiesOK, VolumeOK
  <1>3. FreshOK' /\ PhaseOK'
    BY <1>1, NoCopyOK DEF Copies, FreshOK, PhaseOK, TypeOK
  <1>4. QED BY <1>1, <1>2, <1>3 DEF Copies

\* So does Continue, unless the reconcile goes on.
LEMMA ContinueCopies ==
  ASSUME TypeOK, Copies, NEW c \in Controllers, NEW p, NEW r, Continue(c, p, r), UNCHANGED vol,
         Populated => Populated'
  PROVE  /\ Copies' /\ pc'[c] = p /\ (p # "idle" => local'[c] = local[c] /\ seen'[c] = r)
         /\ \A d \in Controllers \ {c} : pc'[d] = pc[d] /\ local'[d] = local[d] /\ seen'[d] = seen[d]
  <1>1. CASE p = "idle"
    BY <1>1, EndCopies DEF Continue
  <1>2. CASE p # "idle"
    <2>1. /\ cache' = cache /\ local' = local /\ fresh' = fresh /\ pc'[c] = p /\ seen'[c] = r
          /\ \A d \in Controllers \ {c} : pc'[d] = pc[d] /\ seen'[d] = seen[d]
      BY <1>2 DEF TypeOK, Continue
    <2>2. CopiesOK'
      BY <2>1 DEF Copies, CopiesOK, VolumeOK
    <2>3. FreshOK'
      BY <1>2, <2>1 DEF Copies, FreshOK, TypeOK
    <2>4. QED BY <2>1, <2>2, <2>3 DEF Copies, PhaseOK
  <1>3. QED BY <1>1, <1>2

\* A write that respects what every copy says, and keeps the phase or ends the
\* object's life, keeps the copies in order.
LEMMA WriteCopies ==
  ASSUME TypeOK, Copies, NEW c \in Controllers, NEW v \in Volume, NEW p, Write(c, v, p),
         Populated => Populated', VolumeOK(v)',
         v.phase = local[c].phase \/ (v.phase = "gone" /\ p = "idle")
  PROVE  /\ Copies'
         /\ \/ vol' = vol /\ pc'[c] = "idle"
            \/ vol' = v /\ vol = local[c] /\ pc'[c] = p
               /\ (p # "idle" => local'[c] = v /\ seen'[c] = seen[c])
         /\ \A d \in Controllers \ {c} : pc'[d] = pc[d] /\ local'[d] = local[d] /\ seen'[d] = seen[d]
  <1>1. CASE c \notin fresh
    BY <1>1, EndCopies DEF Write
  <1>2. CASE c \in fresh
    <2>1. /\ vol' = v /\ cache' = cache /\ vol = local[c] /\ pc'[c] = p
          /\ local'[c] = (IF p = "idle" THEN NoCopy ELSE v)
          /\ (p # "idle" => seen'[c] = seen[c])
          /\ fresh' = (IF p = "idle" THEN {} ELSE {c})
          /\ \A d \in Controllers \ {c} : pc'[d] = pc[d] /\ local'[d] = local[d] /\ seen'[d] = seen[d]
      BY <1>2 DEF TypeOK, Write, Copies, FreshOK
    <2>2. CopiesOK'
      BY <2>1, NoCopyOK DEF Copies, CopiesOK, VolumeOK
    <2>3. FreshOK'
      BY <2>1 DEF FreshOK
    <2>4. PhaseOK'
      BY <2>1, NoCopyOK DEF Copies, PhaseOK
    <2>5. QED BY <2>1, <2>2, <2>3, <2>4 DEF Copies
  <1>3. QED BY <1>1, <1>2

-----------------------------------------------------------------------------
(* Steps that leave the LV and the workers alone. *)

\* Such a step keeps the invariant when it keeps the copies in order, takes the
\* cluster reconciler to an allowed step, brings no phase back to "live", leaves the
\* node reconcilers alone and exposes nothing that was not.
LEMMA QuietStep ==
  ASSUME LifecycleInv, TypeOK', Copies', ClusterOK', UNCHANGED <<lv, active, job>>,
         \A n \in Nodes : pc'[n] = pc[n] /\ local'[n] = local[n] /\ seen'[n] = seen[n],
         vol.phase # "live" => vol'.phase # "live",
         lv.state = "removed" => cache'[Cluster].phase # "live" /\ local'[Cluster].phase # "live",
         \A n \in Nodes : Exposed(n)' => Exposed(n) \/ Populated
  PROVE  LifecycleInv'
  <1>1. Populated' = Populated
    BY DEF Populated, LvPresent, Target
  <1>2. LvOK'
    BY DEF LifecycleInv, LvOK, LvPresent
  <1>3. ASSUME NEW n \in Nodes PROVE NodeOK(n)' /\ JobOK(n)'
    BY <1>1, <1>3 DEF LifecycleInv, NodeOK, JobOK, LvPresent
  <1>4. ExposureOK'
    BY <1>1 DEF LifecycleInv, ExposureOK
  <1>5. QED BY <1>2, <1>3, <1>4 DEF LifecycleInv, Copies

\* The cluster-wide reconciler's steps that only read and write the Volume.
LEMMA ClusterQuiet ==
  ASSUME LifecycleInv, TypeOK',
         \/ ReconcileVolume \/ ReconcilePrepareForResize \/ RecordLvCreated
         \/ ActivateDataSource \/ DeactivateDataSource \/ SetAvailable \/ RemoveFinalizer
  PROVE  LifecycleInv'
  <1> DEFINE v == local[Cluster]
  <1>0. /\ Cluster \in Controllers /\ Cluster \notin Nodes /\ Nodes \subseteq Controllers \ {Cluster}
        /\ v \in Volume /\ cache[Cluster] \in Volume /\ vol \in Volume /\ lv \in Lv
        /\ TypeOK /\ Copies /\ VolumeOK(v) /\ VolumeOK(cache[Cluster]) /\ VolumeOK(vol)
    BY NodesAssumption
       DEF NodesAssumption, LifecycleInv, TypeOK, Controllers, Copies, CopiesOK
  <1>1. CASE ReconcileVolume
    <2> DEFINE c == cache[Cluster]
               p == CASE c.phase = "live" -> NotDeletingPc(c)
                      [] c.phase = "deleting" -> DeletingPc(c)
                      [] OTHER -> "idle"
    <2>1. /\ UNCHANGED <<vol, cache, lv, active, job, kubelet>>
          /\ pc[Cluster] = "idle" /\ pc'[Cluster] = p
          /\ \A d \in Controllers \ {Cluster} : pc'[d] = pc[d] /\ local'[d] = local[d] /\ seen'[d] = seen[d]
          /\ local'[Cluster] = (IF p = "idle" THEN NoCopy ELSE c)
          /\ fresh' = IF p # "idle" /\ c = vol THEN fresh \cup {Cluster} ELSE fresh
      BY <1>0, <1>1 DEF ReconcileVolume, TypeOK, lvmVars, outerVars
    <2>2. ~NeedsResize(c)
      BY <1>0 DEF NeedsResize, VolumeOK, Volume
    <2>3. /\ c.phase = "live" => p \in {"idle", "create", "source", "unlabel", "avail"}
          /\ c.phase = "deleting" => p \in {"idle", "dunlabel", "remove"}
          /\ p \in {"unlabel", "avail"} => c.dsc
          /\ c.phase = "gone" => p = "idle"
      BY <2>2 DEF NotDeletingPc, DeletingPc, AfterCreate
    <2>4. c.phase \in {"live", "deleting", "gone"}
      BY <1>0 DEF Volume
    <2>5. ClusterOK'
      BY <2>1, <2>3, <2>4 DEF ClusterOK
    <2>6. CopiesOK'
      BY <2>1, <1>0, NoCopyOK DEF Copies, CopiesOK, VolumeOK, Populated, LvPresent, Target
    <2>7. FreshOK'
      BY <2>1, <1>0 DEF Copies, FreshOK, TypeOK
    <2>8. PhaseOK'
      BY <2>1, <1>0, NoCopyOK DEF Copies, PhaseOK
    <2>9. QED
      BY <2>1, <2>5, <2>6, <2>7, <2>8, <1>0, NoCopyOK, QuietStep DEF Copies, Exposed, LifecycleInv, LvOK
  <1>2. ASSUME NEW w \in Volume, NEW p, Write(Cluster, w, p), UNCHANGED <<lv, active, job, kubelet>>,
               VolumeOK(w), w.phase = v.phase \/ (w.phase = "gone" /\ p = "idle"),
               /\ p \in {"create", "created", "source", "unlabel", "avail"} => v.phase = "live"
               /\ p # "prepare"
               /\ p \in {"unlabel", "avail"} => w.dsc
               /\ p \in {"dunlabel", "remove", "finalize"} => v.phase = "deleting"
        PROVE  LifecycleInv'
    <2>1. Populated' = Populated
      BY <1>2 DEF Populated, LvPresent, Target
    <2>2. VolumeOK(w)'
      BY <1>2, <2>1 DEF VolumeOK
    <2>3. /\ Copies'
          /\ \/ vol' = vol /\ pc'[Cluster] = "idle"
             \/ vol' = w /\ vol = v /\ pc'[Cluster] = p /\ (p # "idle" => local'[Cluster] = w)
          /\ \A d \in Nodes : pc'[d] = pc[d] /\ local'[d] = local[d] /\ seen'[d] = seen[d]
      BY <1>0, <1>2, <2>1, <2>2, WriteCopies
    <2>4. cache' = cache /\ (local'[Cluster] \in {w, NoCopy})
      BY <1>0, <1>2 DEF Write, Fail, TypeOK
    <2>5. ClusterOK'
      BY <1>2, <2>3 DEF ClusterOK
    <2>6. QED
      BY <1>0, <1>2, <2>3, <2>4, <2>5, NoCopyOK, QuietStep DEF Exposed, LifecycleInv, LvOK
  <1>3. ASSUME NEW p, NEW r, Continue(Cluster, p, r) \/ Fail(Cluster),
               UNCHANGED <<vol, lv, active, job, kubelet>>,
               p \in {"created", "source", "unlabel", "avail"} => v.phase = "live",
               p \in {"idle", "created", "source", "unlabel", "avail"},
               p \in {"unlabel", "avail"} => v.dsc
        PROVE  LifecycleInv'
    <2>1. Populated' = Populated
      BY <1>3 DEF Populated, LvPresent, Target
    <2>2. /\ Copies' /\ (pc'[Cluster] = "idle" \/ (pc'[Cluster] = p /\ local'[Cluster] = v))
          /\ \A d \in Nodes : pc'[d] = pc[d] /\ local'[d] = local[d] /\ seen'[d] = seen[d]
      <3>0. UNCHANGED vol
        BY <1>3
      <3>1. CASE Continue(Cluster, p, r)
        BY <1>0, <2>1, <3>0, <3>1, ContinueCopies
      <3>2. CASE Fail(Cluster)
        BY <1>0, <2>1, <3>0, <3>2, EndCopies
      <3>3. QED BY <1>3, <3>1, <3>2
    <2>3. cache' = cache /\ (local'[Cluster] \in {v, NoCopy})
      BY <1>0, <1>3 DEF Continue, Return, Fail, TypeOK
    <2>4. ClusterOK'
      BY <1>3, <2>2 DEF ClusterOK
    <2>5. QED
      BY <1>0, <1>3, <2>2, <2>3, <2>4, NoCopyOK, QuietStep DEF Exposed, LifecycleInv, LvOK
  <1>4. CASE ReconcilePrepareForResize
    BY <1>4 DEF ReconcilePrepareForResize, LifecycleInv, ClusterOK
  <1>5. CASE RecordLvCreated
    <2> DEFINE w == [v EXCEPT !.size = Maximum(@, lv.size), !.lvCreated = TRUE]
    <2>1. v.phase = "live" /\ (LvPresent => lv.size = InitSize)
      BY <1>5 DEF RecordLvCreated, LifecycleInv, ClusterOK, LvOK, LvPresent
    <2>2. LvPresent => Maximum(v.size, lv.size) = InitSize /\ InitSize \in 0..MaxSize
      BY <1>0, <2>1, SizeAssumption DEF Maximum, VolumeOK, SizeAssumption
    <2>3. LvPresent => w \in Volume
      BY <1>0, <2>2 DEF Volume
    <2>4. LvPresent => VolumeOK(w) /\ w.phase = v.phase /\ w.dsc = v.dsc
      BY <1>0, <2>2 DEF VolumeOK, Volume
    <2>5. /\ AfterCreate(w) \in {"idle", "source", "unlabel", "avail"}
          /\ AfterCreate(w) \in {"unlabel", "avail"} => w.dsc
      BY DEF AfterCreate
    <2>6. UNCHANGED <<lv, active, job, kubelet>>
      BY <1>5 DEF RecordLvCreated, lvmVars, outerVars
    <2>7. \/ LvPresent /\ Write(Cluster, w, AfterCreate(w))
          \/ LvPresent /\ Continue(Cluster, AfterCreate(w), seen[Cluster]) /\ UNCHANGED vol
          \/ Fail(Cluster) /\ UNCHANGED vol
      BY <1>5 DEF RecordLvCreated
    <2> HIDE DEF w
    <2>8. CASE LvPresent /\ Write(Cluster, w, AfterCreate(w))
      BY <1>2, <2>1, <2>3, <2>4, <2>5, <2>6, <2>8
    <2>9. CASE LvPresent /\ Continue(Cluster, AfterCreate(w), seen[Cluster]) /\ UNCHANGED vol
      BY <1>3, <2>1, <2>4, <2>5, <2>6, <2>9
    <2>10. CASE Fail(Cluster) /\ UNCHANGED vol
      BY <1>3, <2>6, <2>10
    <2>11. QED BY <2>7, <2>8, <2>9, <2>10
  <1>6. CASE ActivateDataSource
    <2> DEFINE w == [v EXCEPT !.label = leader]
    <2>1. w \in Volume /\ VolumeOK(w) /\ w.phase = v.phase
      BY <1>0 DEF Volume, VolumeOK, TypeOK
    <2>2. UNCHANGED <<lv, active, job, kubelet>>
      BY <1>6 DEF ActivateDataSource, lvmVars
    <2>3. \/ Fail(Cluster) /\ UNCHANGED vol
          \/ Continue(Cluster, "idle", seen[Cluster]) /\ UNCHANGED vol
          \/ Write(Cluster, w, "idle")
      BY <1>6 DEF ActivateDataSource, Continue
    <2> HIDE DEF w
    <2>4. CASE Write(Cluster, w, "idle")
      BY <1>2, <2>1, <2>2, <2>4
    <2>5. QED BY <1>3, <2>2, <2>3, <2>4
  <1>7. CASE DeactivateDataSource
    <2> DEFINE w == [v EXCEPT !.label = None]
               p == IF pc[Cluster] = "unlabel" THEN "avail" ELSE "remove"
    <2>1. w \in Volume /\ VolumeOK(w) /\ w.phase = v.phase /\ w.dsc = v.dsc
      BY <1>0 DEF Volume, VolumeOK
    <2>2. /\ p = "avail" => v.phase = "live" /\ v.dsc
          /\ p = "remove" => v.phase = "deleting"
      BY <1>7 DEF DeactivateDataSource, LifecycleInv, ClusterOK
    <2>3. p \in {"avail", "remove"} /\ UNCHANGED <<lv, active, job, kubelet>>
      BY <1>7 DEF DeactivateDataSource, lvmVars
    <2>4. \/ Fail(Cluster) /\ UNCHANGED vol
          \/ Continue(Cluster, "idle", seen[Cluster]) /\ UNCHANGED vol
          \/ Write(Cluster, w, p)
      BY <1>7 DEF DeactivateDataSource, Continue
    <2> HIDE DEF w, p
    <2>5. CASE Write(Cluster, w, p)
      BY <1>2, <2>1, <2>2, <2>3, <2>5
    <2>6. QED BY <1>3, <2>3, <2>4, <2>5
  <1>8. CASE SetAvailable
    <2> DEFINE w == [v EXCEPT !.avail = TRUE, !.abnormal = FALSE]
    <2>1. v.dsc
      BY <1>8 DEF SetAvailable, LifecycleInv, ClusterOK
    <2>2. w \in Volume /\ VolumeOK(w) /\ w.phase = v.phase
      BY <1>0, <2>1 DEF Volume, VolumeOK
    <2>3. QED
      BY <1>2, <1>8, <2>2 DEF SetAvailable, lvmVars, outerVars
  <1>9. CASE RemoveFinalizer
    <2> DEFINE w == [v EXCEPT !.phase = "gone"]
    <2>1. w \in Volume /\ VolumeOK(w) /\ w.phase = "gone"
      BY <1>0 DEF Volume, VolumeOK
    <2>2. QED
      BY <1>2, <1>9, <2>1 DEF RemoveFinalizer, lvmVars, outerVars
  <1>10. QED BY <1>1, <1>4, <1>5, <1>6, <1>7, <1>8, <1>9

-----------------------------------------------------------------------------
(* The cluster-wide reconciler's LVM commands. *)

\* lvcreate happens once, before anything is populated; lvextend never has to.
LEMMA CreateBlobStep ==
  ASSUME LifecycleInv, TypeOK', CreateBlob
  PROVE  LifecycleInv'
  <1> DEFINE v == local[Cluster]
  <1>0. /\ Cluster \in Controllers /\ Nodes \subseteq Controllers \ {Cluster}
        /\ TypeOK /\ Copies /\ VolumeOK(v) /\ v.specSize = InitSize /\ InitSize \in Nat \ {0}
        /\ lv.size \in Nat /\ lv.state \in {"none", "present", "removed"} /\ leader \in Nodes
    BY NodesAssumption, SizeAssumption
       DEF NodesAssumption, SizeAssumption, LifecycleInv, TypeOK, Controllers, Copies, CopiesOK, VolumeOK, Lv
  <1>1. v.phase = "live" /\ pc[Cluster] = "create" /\ UNCHANGED <<vol, job, kubelet>>
    BY DEF CreateBlob, LifecycleInv, ClusterOK, outerVars
  <1>2. CASE ~LvPresent
    <2>1. lv.state = "none" /\ ~Populated
      BY <1>0, <1>1, <1>2 DEF LifecycleInv, LvOK, LvPresent, Populated
    <2>2. /\ lv' = [state |-> "present", size |-> InitSize, counter |-> 0,
                     data |-> [e \in Extents |-> "old"]]
          /\ active' = [active EXCEPT ![leader] = "ex"]
          /\ Continue(Cluster, "created", seen[Cluster])
      BY <1>0, <1>2 DEF CreateBlob
    <2>3. /\ Copies' /\ pc'[Cluster] = "created" /\ local'[Cluster] = v
          /\ \A d \in Nodes : pc'[d] = pc[d] /\ local'[d] = local[d] /\ seen'[d] = seen[d]
      <3>1. UNCHANGED vol /\ (Populated => Populated')
        BY <1>1, <2>1
      <3>2. QED BY <1>0, <2>2, <3>1, ContinueCopies
    <2>4. ClusterOK'
      BY <1>1, <2>3 DEF ClusterOK
    <2>5. /\ lv'.state = "present" /\ lv'.size = InitSize /\ lv'.counter = 0
          /\ \A e \in Extents : lv'.data[e] = "old"
      BY <2>2
    <2>6. /\ \A n \in Nodes : active[n] = "no"
          /\ active'[leader] = "ex" /\ \A n \in Nodes \ {leader} : active'[n] = "no"
      BY <1>0, <1>2, <2>2 DEF LifecycleInv, LvOK, TypeOK
    <2>7. LvOK'
      BY <2>5, <2>6, <1>0 DEF LvOK, LvPresent
    <2>8. ASSUME NEW n \in Nodes PROVE NodeOK(n)' /\ JobOK(n)'
      <3>1. NodeOK(n) /\ JobOK(n)
        BY DEF LifecycleInv
      <3>2. /\ pc[n] \notin {"dd", "wipe", "counter", "deactivate", "dsc"}
            /\ job[n].state \notin {"running", "canceled"}
        BY <1>2, <2>1, <3>1 DEF NodeOK, JobOK
      <3>3. QED BY <1>1, <2>3, <3>1, <3>2 DEF NodeOK, JobOK
    <2>9. ExposureOK'
      <3>1. \A n \in Nodes : ~Exposed(n)'
        BY <1>1, <2>1, <2>6 DEF Exposed, LifecycleInv, ExposureOK
      <3>2. QED BY <2>5, <3>1 DEF ExposureOK
    <2>10. QED BY <2>3, <2>4, <2>7, <2>8, <2>9 DEF LifecycleInv, Copies
  <1>3. CASE LvPresent
    <2>1. lv.size = InitSize
      BY <1>3 DEF LifecycleInv, LvOK, LvPresent
    <2>2. Continue(Cluster, "created", seen[Cluster]) /\ UNCHANGED <<lv, active>>
      BY <1>0, <1>3, <2>1 DEF CreateBlob, lvmVars
    <2>3. Populated' = Populated
      BY <2>2 DEF Populated, LvPresent, Target
    <2>4. /\ Copies' /\ pc'[Cluster] = "created" /\ local'[Cluster] = v
          /\ \A d \in Nodes : pc'[d] = pc[d] /\ local'[d] = local[d] /\ seen'[d] = seen[d]
      <3>1. UNCHANGED vol
        BY <1>1
      <3>2. QED BY <1>0, <2>2, <2>3, <3>1, ContinueCopies
    <2>5. ClusterOK' /\ cache' = cache
      BY <1>1, <2>2, <2>4 DEF ClusterOK, Continue
    <2>6. QED BY <1>1, <2>2, <2>4, <2>5, QuietStep DEF Exposed, LifecycleInv, LvOK
  <1>4. QED BY <1>2, <1>3

\* lvremove succeeds only when no node holds the LV, and so no worker writes to it.
LEMMA RemoveBlobStep ==
  ASSUME LifecycleInv, TypeOK', RemoveBlob
  PROVE  LifecycleInv'
  <1> DEFINE v == local[Cluster]
  <1>0. /\ Cluster \in Controllers /\ Nodes \subseteq Controllers \ {Cluster}
        /\ TypeOK /\ Copies /\ leader \in Nodes
    BY NodesAssumption DEF NodesAssumption, LifecycleInv, TypeOK, Controllers, Copies
  <1>1. /\ v.phase = "deleting" /\ UNCHANGED <<vol, job, kubelet>>
        /\ vol.phase # "live" /\ cache[Cluster].phase # "live"
    BY <1>0 DEF RemoveBlob, LifecycleInv, ClusterOK, outerVars, PhaseOK
  <1>2. CASE LvPresent /\ Removable
    <2>1. /\ lv' = [lv EXCEPT !.state = "removed"]
          /\ UNCHANGED active
          /\ Continue(Cluster, "finalize", seen[Cluster])
      BY <1>2 DEF RemoveBlob
    <2>2. /\ lv'.state = "removed" /\ lv'.size = lv.size /\ lv'.counter = lv.counter
          /\ lv'.data = lv.data
          /\ \A n \in Nodes : active'[n] = "no"
      BY <1>0, <1>2, <2>1 DEF TypeOK, Lv, Removable
    <2>3. Populated'
      BY <2>2 DEF Populated, LvPresent
    <2>4. /\ Copies' /\ pc'[Cluster] = "finalize" /\ local'[Cluster] = v
          /\ \A d \in Nodes : pc'[d] = pc[d] /\ local'[d] = local[d] /\ seen'[d] = seen[d]
      <3>1. UNCHANGED vol /\ (Populated => Populated')
        BY <1>1, <2>3
      <3>2. QED BY <1>0, <2>1, <3>1, ContinueCopies
    <2>5. ClusterOK' /\ cache' = cache
      BY <1>1, <2>1, <2>4 DEF ClusterOK, Continue
    <2>6. LvOK'
      BY <1>1, <1>2, <2>2, <2>4, <2>5 DEF LifecycleInv, LvOK, LvPresent
    <2>7. ASSUME NEW n \in Nodes PROVE NodeOK(n)' /\ JobOK(n)'
      <3>1. NodeOK(n) /\ JobOK(n)
        BY DEF LifecycleInv
      <3>2. job[n].state \notin {"running", "canceled"}
        BY <1>0, <1>2, <3>1 DEF JobOK, Removable
      <3>3. QED BY <1>1, <2>2, <2>3, <2>4, <3>1, <3>2 DEF NodeOK, JobOK, LvPresent
    <2>8. ExposureOK'
      BY <2>3 DEF ExposureOK
    <2>9. QED BY <2>4, <2>5, <2>6, <2>7, <2>8 DEF LifecycleInv, Copies
  <1>3. CASE ~(LvPresent /\ Removable)
    <2>1. /\ UNCHANGED <<lv, active>>
          /\ Continue(Cluster, "finalize", seen[Cluster]) \/ Fail(Cluster)
      BY <1>3 DEF RemoveBlob, RetryRemoval
    <2>2. Populated' = Populated
      BY <2>1 DEF Populated, LvPresent, Target
    <2>3. /\ Copies' /\ pc'[Cluster] \in {"idle", "finalize"}
          /\ (pc'[Cluster] = "finalize" => local'[Cluster] = v)
          /\ \A d \in Nodes : pc'[d] = pc[d] /\ local'[d] = local[d] /\ seen'[d] = seen[d]
      <3>0. UNCHANGED vol
        BY <1>1
      <3>1. CASE Continue(Cluster, "finalize", seen[Cluster])
        BY <1>0, <2>2, <3>0, <3>1, ContinueCopies
      <3>2. CASE Fail(Cluster)
        BY <1>0, <2>2, <3>0, <3>2, EndCopies
      <3>3. QED BY <2>1, <3>1, <3>2
    <2>4. ClusterOK' /\ cache' = cache /\ local'[Cluster] \in {v, NoCopy}
      BY <1>0, <1>1, <2>1, <2>3 DEF ClusterOK, Continue, Return, Fail, TypeOK
    <2>5. QED BY <1>1, <2>1, <2>3, <2>4, NoCopyOK, QuietStep DEF Exposed
  <1>4. QED BY <1>2, <1>3

-----------------------------------------------------------------------------
(* The node reconcilers' steps. *)

\* A step of node n that keeps the copies in order and its own part of the invariant
\* keeps the rest: it changes the LV's counter only while it holds the LV exclusively,
\* so that no other node is at a step that depends on it.
LEMMA NodeFrame ==
  ASSUME LifecycleInv, TypeOK', NEW n \in Nodes, Copies',
         vol.phase # "live" => vol'.phase # "live",
         \A d \in Controllers \ {n} : pc'[d] = pc[d] /\ local'[d] = local[d] /\ seen'[d] = seen[d],
         \A m \in Nodes \ {n} : active'[m] = active[m] /\ job'[m] = job[m] /\ kubelet'[m] = kubelet[m],
         lv' = lv \/ (/\ LvPresent /\ active[n] = "ex" /\ lv'.state = lv.state
                      /\ lv'.size = lv.size /\ lv'.data = lv.data),
         Populated => Populated', LvOK', NodeOK(n)', JobOK(n)', Exposed(n)' => Populated'
  PROVE  LifecycleInv'
  <1>0. /\ Cluster \in Controllers \ {n} /\ Nodes \ {n} \subseteq Controllers \ {n}
        /\ lv'.state = lv.state /\ lv'.size = lv.size /\ lv'.data = lv.data
    BY NodesAssumption DEF NodesAssumption, Controllers
  <1>1. ClusterOK'
    BY <1>0 DEF LifecycleInv, ClusterOK
  <1>2. ASSUME NEW m \in Nodes \ {n} PROVE NodeOK(m)' /\ JobOK(m)'
    <2>1. NodeOK(m) /\ JobOK(m)
      BY DEF LifecycleInv
    <2>2. CASE lv' = lv
      BY <1>0, <2>1, <2>2 DEF NodeOK, JobOK, LvPresent
    <2>3. CASE LvPresent /\ active[n] = "ex"
      <3>1. active[m] = "no"
        BY <2>3 DEF LifecycleInv, LvOK
      <3>2. /\ pc[m] \notin {"dd", "wipe", "counter"}
            /\ job[m].state \notin {"running", "canceled"}
        BY <2>1, <2>3, <3>1 DEF NodeOK, JobOK
      <3>3. QED BY <1>0, <2>1, <3>2 DEF NodeOK, JobOK
    <2>4. QED BY <2>2, <2>3
  <1>3. ExposureOK'
    <2>1. \A m \in Nodes \ {n} : Exposed(m)' => Exposed(m)
      BY DEF Exposed
    <2>2. QED BY <1>0, <2>1 DEF LifecycleInv, ExposureOK
  <1>4. QED BY <1>1, <1>2, <1>3 DEF LifecycleInv, Copies

\* A reconcile of node n that ends, with nothing but its worker changed.
LEMMA NodeEnds ==
  ASSUME LifecycleInv, TypeOK', NEW n \in Nodes, Return(n) \/ Fail(n),
         UNCHANGED <<vol, lv, active, kubelet>>,
         \A m \in Nodes \ {n} : job'[m] = job[m], JobOK(n)'
  PROVE  LifecycleInv'
  <1>1. Populated' = Populated
    BY DEF Populated, LvPresent, Target
  <1>2. /\ Copies' /\ pc'[n] = "idle"
        /\ \A d \in Controllers \ {n} : pc'[d] = pc[d] /\ local'[d] = local[d] /\ seen'[d] = seen[d]
    <2>1. TypeOK /\ Copies /\ n \in Controllers /\ UNCHANGED vol
      BY DEF LifecycleInv, Copies, Controllers
    <2>2. QED BY <1>1, <2>1, EndCopies
  <1>3. NodeOK(n)'
    BY <1>2 DEF NodeOK
  <1>4. cache' = cache
    BY DEF Return, Fail
  <1>5. LvOK'
    <2>1. Cluster \in Controllers \ {n}
      BY NodesAssumption DEF NodesAssumption, Controllers
    <2>2. QED BY <1>2, <1>4, <2>1 DEF LifecycleInv, LvOK, LvPresent
  <1>6. Exposed(n)' => Populated'
    BY <1>1 DEF LifecycleInv, ExposureOK, Exposed
  <1>7. QED BY <1>1, <1>2, <1>3, <1>4, <1>5, <1>6, NodeFrame

\* What the steps of node n start from.
LEMMA NodeFacts ==
  ASSUME LifecycleInv, NEW n \in Nodes
  PROVE  /\ TypeOK /\ Copies /\ n \in Controllers /\ Cluster \in Controllers \ {n}
         /\ local[n] \in Volume /\ VolumeOK(local[n]) /\ VolumeOK(cache[n]) /\ VolumeOK(vol)
         /\ NodeOK(n) /\ JobOK(n) /\ LvOK /\ (Exposed(n) => Populated)
         /\ lv.size \in Nat /\ lv.counter \in Nat /\ InitSize \in Nat \ {0} /\ SrcSize \in 0..InitSize
         /\ lv.state \in {"none", "present", "removed"} /\ job[n] \in Job
         /\ seen[n] \in Seen /\ active[n] \in {"no", "sh", "ex"}
  BY NodesAssumption, SizeAssumption
     DEF NodesAssumption, SizeAssumption, LifecycleInv, TypeOK, Controllers, Copies, CopiesOK,
         ExposureOK, Lv, Seen

\* Reconcile reads its cache.
LEMMA ReconcileNodeStep ==
  ASSUME LifecycleInv, TypeOK', NEW n \in Nodes, ReconcileNode(n)
  PROVE  LifecycleInv'
  <1> DEFINE c == cache[n]
             p == CASE c.phase = "gone" -> "idle"
                    [] c.phase # "gone" /\ c.lvCreated /\ ~c.dsc /\ c.label = n -> "activate"
                    [] OTHER -> Ready(c)
  <1>0. TypeOK /\ Copies /\ n \in Controllers /\ Cluster \in Controllers \ {n} /\ NodeOK(n) /\ JobOK(n)
        /\ LvOK /\ VolumeOK(c) /\ (Exposed(n) => Populated)
    BY NodeFacts
  <1>1. /\ UNCHANGED <<vol, cache, lv, active, job, kubelet>>
        /\ pc[n] = "idle" /\ pc'[n] = p
        /\ \A d \in Controllers \ {n} : pc'[d] = pc[d] /\ local'[d] = local[d] /\ seen'[d] = seen[d]
        /\ local'[n] = (IF p = "idle" THEN NoCopy ELSE c)
        /\ fresh' = IF p # "idle" /\ c = vol THEN fresh \cup {n} ELSE fresh
    BY <1>0 DEF ReconcileNode, TypeOK, lvmVars, outerVars
  <1>2. p \in {"idle", "activate", "linear"} /\ (p = "linear" => c.avail)
    BY DEF Ready
  <1>3. Populated' = Populated
    BY <1>1 DEF Populated, LvPresent, Target
  <1>4. Copies'
    <2>1. CopiesOK'
      BY <1>0, <1>1, <1>3, NoCopyOK DEF Copies, CopiesOK, VolumeOK
    <2>2. FreshOK'
      BY <1>0, <1>1 DEF Copies, FreshOK, TypeOK
    <2>3. PhaseOK'
      BY <1>0, <1>1, NoCopyOK DEF Copies, PhaseOK
    <2>4. QED BY <2>1, <2>2, <2>3 DEF Copies
  <1>5. NodeOK(n)' /\ JobOK(n)'
    BY <1>0, <1>1, <1>2 DEF NodeOK, JobOK, LvPresent
  <1>6. LvOK' /\ (Exposed(n)' => Populated')
    BY <1>0, <1>1, <1>3 DEF LvOK, LvPresent, Exposed
  <1>7. QED BY <1>1, <1>3, <1>4, <1>5, <1>6, NodeFrame

\* Population begins with the exclusive lock.
LEMMA PopulateActivateStep ==
  ASSUME LifecycleInv, TypeOK', NEW n \in Nodes, PopulateActivate(n)
  PROVE  LifecycleInv'
  <1>0. TypeOK /\ Copies /\ n \in Controllers /\ Cluster \in Controllers \ {n} /\ JobOK(n)
        /\ LvOK /\ (Exposed(n) => Populated) /\ seen[n] \in Seen
        /\ lv.counter \in Nat /\ SrcSize \in Nat
        /\ UNCHANGED <<vol, lv, job, kubelet>> /\ UNCHANGED vol
    BY NodeFacts, SizeAssumption DEF PopulateActivate, outerVars, SizeAssumption
  <1>1. CASE CanLockExclusive(n)
    <2> DEFINE p == IF SrcSize > 0 /\ lv.counter = 0 THEN "dd" ELSE "wipe"
               r == [seen[n] EXCEPT !.offset = lv.counter]
    <2>1. active' = [active EXCEPT ![n] = "ex"] /\ Continue(n, p, r)
      BY <1>1 DEF PopulateActivate, GetCounter
    <2>2. /\ active'[n] = "ex" /\ \A m \in Nodes \ {n} : active'[m] = active[m] /\ active[m] = "no"
          /\ lv.state = "present" /\ r.offset = lv.counter
      BY <1>0, <1>1, <2>1 DEF TypeOK, CanLockExclusive, LvPresent, Seen
    <2>3. Populated' = Populated
      BY <1>0 DEF Populated, LvPresent, Target
    <2>p. p \in {"dd", "wipe"} /\ p # "idle"
      OBVIOUS
    <2>4. /\ Copies' /\ pc'[n] = p /\ local'[n] = local[n] /\ seen'[n] = r
          /\ \A d \in Controllers \ {n} : pc'[d] = pc[d] /\ local'[d] = local[d] /\ seen'[d] = seen[d]
      <3> HIDE DEF p, r
      <3>1. QED BY <1>0, <2>1, <2>3, <2>p, ContinueCopies
    <2>5. cache' = cache
      BY <2>1, <2>p DEF Continue
    <2>6. JobOK(n)' /\ LvOK'
      BY <1>0, <2>2, <2>4, <2>5 DEF JobOK, LvOK, LvPresent
    <2>7. NodeOK(n)'
      BY <1>0, <2>2, <2>4 DEF NodeOK, LvOK, LvPresent
    <2>8. Exposed(n)' => Populated'
      BY <1>0, <2>2, <2>3 DEF Exposed
    <2>9. QED BY <1>0, <2>2, <2>3, <2>4, <2>5, <2>6, <2>7, <2>8, NodeFrame
  <1>2. CASE ~CanLockExclusive(n)
    <2>1. Fail(n) /\ UNCHANGED active
      BY <1>2 DEF PopulateActivate
    <2>2. JobOK(n)'
      BY <1>0, <2>1 DEF JobOK, LvPresent
    <2>3. QED BY <1>0, <2>1, <2>2, NodeEnds
  <1>3. QED BY <1>1, <1>2

\* A reconcile of node n that goes on to step p.
LEMMA NodeContinues ==
  ASSUME LifecycleInv, TypeOK', NEW n \in Nodes, NEW p, NEW r, Continue(n, p, r),
         UNCHANGED vol, UNCHANGED kubelet,
         \A m \in Nodes \ {n} : active'[m] = active[m] /\ job'[m] = job[m],
         lv' = lv \/ (/\ LvPresent /\ active[n] = "ex" /\ lv'.state = lv.state
                      /\ lv'.size = lv.size /\ lv'.data = lv.data),
         lv'.counter = 0 \/ lv'.counter >= SrcSize,
         active'[n] \in {active[n], "no"} \/ (active'[n] = "sh" /\ CanLockShared(n)),
         Populated => Populated',
         pc'[n] = p /\ (p # "idle" => local'[n] = local[n] /\ seen'[n] = r) => NodeOK(n)',
         JobOK(n)', Exposed(n)' => Populated'
  PROVE  LifecycleInv'
  <1>0. TypeOK /\ Copies /\ n \in Controllers /\ Cluster \in Controllers \ {n} /\ LvOK
    BY NodeFacts
  <1>1. /\ Copies' /\ pc'[n] = p /\ (p # "idle" => local'[n] = local[n] /\ seen'[n] = r)
        /\ \A d \in Controllers \ {n} : pc'[d] = pc[d] /\ local'[d] = local[d] /\ seen'[d] = seen[d]
    BY <1>0, ContinueCopies
  <1>2. cache' = cache
    BY DEF Continue, Return
  <1>3. LvOK'
    <2>1. lv'.state = lv.state /\ lv'.size = lv.size
      OBVIOUS
    <2>2. \A m, k \in Nodes : m # k /\ active'[m] = "ex" => active'[k] = "no"
      BY <1>0 DEF LvOK, CanLockShared, TypeOK
    <2>3. ~LvPresent => \A m \in Nodes : active'[m] = "no"
      BY <1>0 DEF LvOK, CanLockShared
    <2>4. QED BY <1>0, <1>1, <1>2, <2>1, <2>2, <2>3 DEF LvOK, LvPresent
  <1>4. QED BY <1>1, <1>3, NodeFrame

\* Copying from the source: dd starts only on an image nothing was written to, and
\* the counter then covers what it wrote.
LEMMA PopulateFromSourceStep ==
  ASSUME LifecycleInv, TypeOK', NEW n \in Nodes, PopulateFromSource(n)
  PROVE  LifecycleInv'
  <1>0. /\ TypeOK /\ NodeOK(n) /\ JobOK(n) /\ LvOK /\ (Exposed(n) => Populated)
        /\ lv.counter \in Nat /\ lv.size \in Nat /\ SrcSize \in Nat /\ seen[n] \in Seen /\ lv \in Lv
        /\ pc[n] = "dd" /\ UNCHANGED <<vol, active, kubelet>>
        /\ UNCHANGED vol /\ UNCHANGED kubelet /\ active'[n] = active[n]
        /\ (lv.counter = 0 \/ lv.counter >= SrcSize)
    BY NodeFacts, SizeAssumption DEF PopulateFromSource, outerVars, SizeAssumption, LvOK, TypeOK
  <1>j. \A m \in Nodes \ {n} : active'[m] = active[m] /\ job'[m] = job[m]
    BY <1>0 DEF PopulateFromSource, CancelPends, CancelDone, RunStarts, RunPends, RunFails,
                RunSucceeds, TypeOK
  <1>1. CASE local[n].phase = "live" /\ active[n] # "no" /\ RunSucceeds(n, "dd")
             /\ lv' = [lv EXCEPT !.counter = Maximum(@, SrcSize)]
             /\ Continue(n, "wipe", [seen[n] EXCEPT !.offset = SrcSize])
    <2> DEFINE r == [seen[n] EXCEPT !.offset = SrcSize]
    <2>1. LvPresent /\ active[n] = "ex" /\ lv.counter = 0
      BY <1>0, <1>1 DEF NodeOK, LvOK
    <2>2. /\ lv'.state = lv.state /\ lv'.size = lv.size /\ lv'.data = lv.data
          /\ lv'.counter = SrcSize /\ r.offset = SrcSize
      BY <1>0, <1>1, <2>1 DEF Maximum, Lv, Seen
    <2>3. Populated => Populated'
      BY <1>0, <2>1, <2>2 DEF Populated, LvPresent, Target
    <2>4. job'[n].state = "done"
      BY <1>0, <1>1 DEF RunSucceeds, NoJob, TypeOK
    <2>5. JobOK(n)'
      BY <2>4 DEF JobOK
    <2>6. pc'[n] = "wipe" /\ local'[n] = local[n] /\ seen'[n] = r => NodeOK(n)'
      BY <1>0, <2>1, <2>2, <2>3 DEF NodeOK, LvPresent
    <2>7. Exposed(n)' => Populated'
      BY <1>0, <2>3 DEF Exposed
    <2>8. Continue(n, "wipe", r)
      BY <1>1
    <2> HIDE DEF r
    <2>9. QED BY <1>0, <1>j, <2>1, <2>2, <2>3, <2>5, <2>6, <2>7, <2>8, NodeContinues
  <1>2. CASE ~(local[n].phase = "live" /\ active[n] # "no" /\ RunSucceeds(n, "dd")) /\ lv' = lv
    <2>1. Populated' = Populated
      BY <1>2 DEF Populated, LvPresent, Target
    <2>2. Exposed(n)' => Populated'
      BY <1>0, <2>1 DEF Exposed
    <2>3. JobOK(n)'
      <3>1. \/ CancelPends(n, "dd") \/ CancelDone(n, "dd") \/ job' = job
            \/ (active[n] # "no" /\ RunStarts(n, "dd", 0, SrcSize)) \/ RunFails(n, "dd")
        BY <1>2 DEF PopulateFromSource, RunPends
      <3>2. CASE CancelPends(n, "dd")
        <4>1. job[n].state \in {"running", "canceled"} /\ job'[n].state = "canceled"
          BY <1>0, <3>2 DEF CancelPends, TypeOK, Job
        <4>2. QED BY <1>0, <1>2, <4>1 DEF JobOK, LvPresent
      <3>3. CASE CancelDone(n, "dd") \/ RunFails(n, "dd") \/ job' = job
        <4>1. job'[n] = job[n] \/ job'[n].state = "done"
          BY <1>0, <3>3 DEF CancelDone, RunFails, TypeOK, NoJob
        <4>2. QED BY <1>0, <1>2, <4>1 DEF JobOK, LvPresent
      <3>4. CASE active[n] # "no" /\ RunStarts(n, "dd", 0, SrcSize)
        <4>1. job'[n].kind = "dd"
          BY <1>0, <3>4 DEF RunStarts, TypeOK
        <4>2. LvPresent /\ active[n] = "ex" /\ lv.counter = 0 /\ SrcSize > 0
          BY <1>0, <3>4 DEF NodeOK, LvOK
        <4>3. QED BY <1>0, <1>2, <4>1, <4>2 DEF JobOK, LvPresent
      <3>5. QED BY <3>1, <3>2, <3>3, <3>4
    <2>4. CASE Return(n) \/ Fail(n)
      BY <1>0, <1>2, <1>j, <2>3, <2>4, NodeEnds
    <2>5. CASE local[n].phase = "deleting" /\ Continue(n, "wipe", seen[n])
      <3>1. pc'[n] = "wipe" /\ local'[n] = local[n] /\ seen'[n] = seen[n] => NodeOK(n)'
        BY <1>0, <1>2, <2>5 DEF NodeOK, LvPresent
      <3>2. QED BY <1>0, <1>2, <1>j, <2>1, <2>2, <2>3, <2>5, <3>1, NodeContinues
    <2>6. QED
      BY <1>2, <2>4, <2>5 DEF PopulateFromSource, CancelPends, RunStarts, RunPends, RunFails
  <1>3. job' = job => ~RunSucceeds(n, "dd")
    BY <1>0 DEF RunSucceeds, NoJob, TypeOK
  <1>4. QED
    BY <1>1, <1>2, <1>3 DEF PopulateFromSource, RunSucceeds, RunStarts, RunPends, RunFails

\* Wiping: blkdiscard starts at the counter, and the reconcile goes past it only when
\* no worker can write any more.
LEMMA PopulateWipeStep ==
  ASSUME LifecycleInv, TypeOK', NEW n \in Nodes, PopulateWipe(n)
  PROVE  LifecycleInv'
  <1> DEFINE measured == [seen[n] EXCEPT !.size = lv.size]
  <1>0. /\ TypeOK /\ NodeOK(n) /\ JobOK(n) /\ LvOK /\ (Exposed(n) => Populated)
        /\ lv.counter \in Nat /\ lv.size \in Nat /\ SrcSize \in Nat /\ seen[n] \in Seen
        /\ pc[n] = "wipe" /\ UNCHANGED <<vol, lv, active, kubelet>>
        /\ UNCHANGED vol /\ UNCHANGED kubelet /\ lv' = lv /\ active'[n] = active[n]
        /\ (lv.counter = 0 \/ lv.counter >= SrcSize)
        /\ WipePolicy \in {"Full", "UnsafeFast"} /\ VolumeType \in {"Block", "Filesystem"}
    BY NodeFacts, SizeAssumption, KindAssumption
       DEF PopulateWipe, outerVars, lvmVars, SizeAssumption, KindAssumption, LvOK
  <1>j. \A m \in Nodes \ {n} : active'[m] = active[m] /\ job'[m] = job[m]
    BY <1>0 DEF PopulateWipe, CancelPends, CancelDone, RunStarts, RunPends, RunFails,
                RunSucceeds, TypeOK
  <1>p. Populated' = Populated /\ (Exposed(n)' => Populated')
    BY <1>0 DEF Populated, LvPresent, Target, Exposed
  <1>m. measured.size = lv.size /\ measured.offset = seen[n].offset
    BY <1>0 DEF Seen
  <1>1. CASE local[n].phase = "deleting"
    <2>1. CASE CancelPends(n, "blkdiscard")
      <3>1. job[n].state \in {"running", "canceled"} /\ job'[n].state = "canceled"
        BY <1>0, <2>1 DEF CancelPends, TypeOK, Job
      <3>2. JobOK(n)' /\ Return(n)
        BY <1>0, <2>1, <3>1 DEF JobOK, LvPresent, CancelPends
      <3>3. QED BY <1>0, <1>j, <3>2, NodeEnds
    <2>2. CASE CancelDone(n, "blkdiscard") /\ Continue(n, "deactivate", seen[n])
      <3>1. job'[n] = job[n] \/ job'[n].state = "done"
        BY <1>0, <2>2 DEF CancelDone, TypeOK, NoJob
      <3>2. JobOK(n)'
        BY <1>0, <3>1 DEF JobOK, LvPresent
      <3>3. pc'[n] = "deactivate" /\ local'[n] = local[n] /\ seen'[n] = seen[n] => NodeOK(n)'
        BY <1>0, <1>1 DEF NodeOK, LvPresent
      <3>4. QED BY <1>0, <1>j, <1>p, <2>2, <3>2, <3>3, NodeContinues
    <2>3. QED BY <1>1, <2>1, <2>2 DEF PopulateWipe
  <1>2. CASE local[n].phase = "live" /\ VolumeType = "Filesystem"
    <2>1. Continue(n, "deactivate", seen[n]) /\ job' = job
      BY <1>2 DEF PopulateWipe
    <2>2. Populated
      BY <1>0, <1>2 DEF NodeOK, Populated, Target
    <2>3. JobOK(n)'
      BY <1>0, <2>1 DEF JobOK, LvPresent
    <2>4. pc'[n] = "deactivate" /\ local'[n] = local[n] /\ seen'[n] = seen[n] => NodeOK(n)'
      BY <1>0, <1>p, <2>2 DEF NodeOK, LvPresent
    <2>5. QED BY <1>0, <1>j, <1>p, <2>1, <2>3, <2>4, NodeContinues
  <1>3. CASE local[n].phase = "live" /\ VolumeType = "Block" /\ ~LvPresent
    <2>1. Fail(n) /\ job' = job
      BY <1>3 DEF PopulateWipe
    <2>2. JobOK(n)'
      BY <1>0, <2>1 DEF JobOK, LvPresent
    <2>3. QED BY <1>0, <1>j, <2>1, <2>2, NodeEnds
  <1>4. CASE local[n].phase = "live" /\ VolumeType = "Block" /\ LvPresent
    <2> DEFINE wipes == seen[n].offset < lv.size /\ WipePolicy # "UnsafeFast"
    <2>0. active[n] = "ex" /\ lv.counter >= SrcSize /\ seen[n].offset = lv.counter
      BY <1>0, <1>4 DEF NodeOK
    <2>1. CASE wipes /\ RunStarts(n, "blkdiscard", seen[n].offset, lv.size)
      <3>1. /\ job'[n].kind = "blkdiscard" /\ job'[n].from = seen[n].offset /\ Return(n)
        BY <1>0, <2>1 DEF RunStarts, TypeOK
      <3>2. JobOK(n)'
        BY <1>0, <1>4, <2>0, <2>1, <3>1 DEF JobOK, LvPresent
      <3>3. QED BY <1>0, <1>j, <3>1, <3>2, NodeEnds
    <2>2. CASE RunPends(n, "blkdiscard") \/ RunFails(n, "blkdiscard")
      <3>1. (job'[n] = job[n] \/ job'[n].state = "done") /\ (Return(n) \/ Fail(n))
        BY <1>0, <2>2 DEF RunPends, RunFails, TypeOK, NoJob
      <3>2. JobOK(n)'
        BY <1>0, <3>1 DEF JobOK, LvPresent
      <3>3. QED BY <1>0, <1>j, <3>1, <3>2, NodeEnds
    <2>3. CASE /\ Continue(n, "counter", measured)
               /\ \/ RunSucceeds(n, "blkdiscard")
                  \/ ~wipes /\ job' = job
      <3>1. job'[n].state # "running" /\ (job'[n] = job[n] \/ job'[n].state = "done")
        <4>1. CASE RunSucceeds(n, "blkdiscard")
          BY <1>0, <4>1 DEF RunSucceeds, TypeOK, NoJob
        <4>2. CASE ~wipes /\ job' = job
          BY <1>0, <2>0, <4>2 DEF JobOK
        <4>3. QED BY <2>3, <4>1, <4>2
      <3>2. JobOK(n)'
        BY <1>0, <3>1 DEF JobOK, LvPresent
      <3>3. pc'[n] = "counter" /\ local'[n] = local[n] /\ seen'[n] = measured => NodeOK(n)'
        BY <1>0, <1>4, <1>m, <3>1 DEF NodeOK, LvPresent
      <3>4. Continue(n, "counter", measured)
        BY <2>3
      <3> HIDE DEF measured
      <3>5. QED BY <1>0, <1>j, <1>p, <3>2, <3>3, <3>4, NodeContinues
    <2>4. QED BY <1>4, <2>1, <2>2, <2>3 DEF PopulateWipe
  <1>5. QED BY <1>0, <1>1, <1>2, <1>3, <1>4 DEF PopulateWipe

\* The counter reaches the size of the LV: the volume is populated from here on.
LEMMA PopulateCounterStep ==
  ASSUME LifecycleInv, TypeOK', NEW n \in Nodes, PopulateCounter(n)
  PROVE  LifecycleInv'
  <1>0. /\ TypeOK /\ NodeOK(n) /\ JobOK(n) /\ LvOK /\ (Exposed(n) => Populated)
        /\ lv.counter \in Nat /\ lv.size \in Nat /\ SrcSize \in Nat /\ lv \in Lv
        /\ InitSize \in Nat /\ SrcSize <= InitSize
        /\ pc[n] = "counter" /\ UNCHANGED <<vol, active, job, kubelet>>
        /\ UNCHANGED vol /\ UNCHANGED kubelet
        /\ \A m \in Nodes \ {n} : active'[m] = active[m] /\ job'[m] = job[m]
    BY NodeFacts, SizeAssumption DEF PopulateCounter, outerVars, SizeAssumption, TypeOK
  <1>1. CASE LvPresent
    <2>1. /\ seen[n].size = lv.size /\ lv.size = InitSize /\ active[n] = "ex"
          /\ VolumeType = "Block" /\ job[n].state # "running"
      BY <1>0, <1>1 DEF NodeOK, LvOK, LvPresent
    <2>2. /\ lv'.state = lv.state /\ lv'.size = lv.size /\ lv'.data = lv.data
          /\ lv'.counter >= lv.size /\ lv'.counter \in Nat
      BY <1>0, <1>1, <2>1 DEF PopulateCounter, Maximum, Lv
    <2>3. Populated'
      BY <1>0, <1>1, <2>2, <2>1 DEF Populated, LvPresent, Target
    <2>4. JobOK(n)'
      BY <1>0, <2>1, <2>2 DEF JobOK, LvPresent
    <2>5. pc'[n] = "deactivate" /\ local'[n] = local[n] /\ seen'[n] = seen[n] => NodeOK(n)'
      BY <1>0, <2>2, <2>3 DEF NodeOK
    <2>6. Continue(n, "deactivate", seen[n]) /\ (lv'.counter = 0 \/ lv'.counter >= SrcSize)
      BY <1>0, <1>1, <2>1, <2>2 DEF PopulateCounter
    <2>7. QED BY <1>0, <1>1, <2>1, <2>2, <2>3, <2>4, <2>5, <2>6, NodeContinues
  <1>2. CASE ~LvPresent
    <2>1. Fail(n) /\ lv' = lv
      BY <1>2 DEF PopulateCounter
    <2>2. JobOK(n)'
      BY <1>0, <2>1 DEF JobOK, LvPresent
    <2>3. QED BY <1>0, <2>1, <2>2, NodeEnds
  <1>3. QED BY <1>1, <1>2

\* The LV is released only when no worker has it open.
LEMMA PopulateDeactivateStep ==
  ASSUME LifecycleInv, TypeOK', NEW n \in Nodes, PopulateDeactivate(n)
  PROVE  LifecycleInv'
  <1>0. /\ TypeOK /\ NodeOK(n) /\ JobOK(n) /\ LvOK /\ (Exposed(n) => Populated)
        /\ pc[n] = "deactivate" /\ UNCHANGED <<vol, lv, job, kubelet>>
        /\ UNCHANGED vol /\ UNCHANGED kubelet /\ lv' = lv
        /\ (lv'.counter = 0 \/ lv'.counter >= SrcSize)
    BY NodeFacts DEF PopulateDeactivate, outerVars, LvOK
  <1>p. Populated' = Populated
    BY <1>0 DEF Populated, LvPresent, Target
  <1>1. CASE LvPresent /\ ~InUse(n)
    <2> DEFINE p == IF local[n].phase = "deleting" THEN "idle" ELSE "dsc"
    <2>1. active' = [active EXCEPT ![n] = "no"] /\ Continue(n, p, seen[n])
      BY <1>1 DEF PopulateDeactivate
    <2>2. active'[n] = "no" /\ \A m \in Nodes \ {n} : active'[m] = active[m] /\ job'[m] = job[m]
      BY <1>0, <2>1 DEF TypeOK
    <2>3. JobOK(n)' /\ (Exposed(n)' => Populated')
      BY <1>0, <1>1, <1>p, <2>2 DEF JobOK, InUse, Exposed
    <2>4. pc'[n] = p /\ (p # "idle" => local'[n] = local[n] /\ seen'[n] = seen[n]) => NodeOK(n)'
      BY <1>0, <1>p DEF NodeOK
    <2> HIDE DEF p
    <2>5. QED BY <1>0, <1>p, <2>1, <2>2, <2>3, <2>4, NodeContinues
  <1>2. CASE ~(LvPresent /\ ~InUse(n))
    <2>1. Fail(n) /\ active' = active
      BY <1>2 DEF PopulateDeactivate
    <2>2. JobOK(n)'
      BY <1>0, <2>1 DEF JobOK, LvPresent
    <2>3. QED BY <1>0, <2>1, <2>2, NodeEnds
  <1>3. QED BY <1>1, <1>2

\* A write of node n's copy.
LEMMA NodeWrites ==
  ASSUME LifecycleInv, TypeOK', NEW n \in Nodes, NEW w \in Volume, NEW p \in {"idle", "linear"},
         Write(n, w, p), UNCHANGED <<lv, active, job, kubelet>>,
         VolumeOK(w), w.phase = local[n].phase, p = "linear" => w.avail
  PROVE  LifecycleInv'
  <1>0. /\ TypeOK /\ Copies /\ n \in Controllers /\ Cluster \in Controllers \ {n} /\ LvOK
        /\ NodeOK(n) /\ JobOK(n) /\ (Exposed(n) => Populated)
    BY NodeFacts
  <1>1. Populated' = Populated
    BY DEF Populated, LvPresent, Target
  <1>2. VolumeOK(w)'
    BY <1>1 DEF VolumeOK
  <1>3. /\ Copies'
        /\ \/ vol' = vol /\ pc'[n] = "idle"
           \/ (vol' = w /\ vol = local[n] /\ pc'[n] = p /\ (p # "idle" => local'[n] = w))
        /\ \A d \in Controllers \ {n} : pc'[d] = pc[d] /\ local'[d] = local[d] /\ seen'[d] = seen[d]
    BY <1>0, <1>1, <1>2, WriteCopies
  <1>4. cache' = cache
    BY DEF Write, Fail
  <1>5. LvOK'
    BY <1>0, <1>3, <1>4 DEF LvOK, LvPresent
  <1>6. NodeOK(n)'
    BY <1>3 DEF NodeOK
  <1>7. JobOK(n)' /\ (Exposed(n)' => Populated')
    BY <1>0, <1>1 DEF JobOK, LvPresent, Exposed
  <1>8. QED BY <1>1, <1>3, <1>5, <1>6, <1>7, NodeFrame

\* The node reconciler says population is over only when it is.
LEMMA SetDataSourceCompletedStep ==
  ASSUME LifecycleInv, TypeOK', NEW n \in Nodes, SetDataSourceCompleted(n)
  PROVE  LifecycleInv'
  <1> DEFINE w == [local[n] EXCEPT !.dsc = TRUE]
  <1>0. local[n] \in Volume /\ VolumeOK(local[n]) /\ NodeOK(n) /\ pc[n] = "dsc"
        /\ Write(n, w, Ready(local[n])) /\ UNCHANGED <<lv, active, job, kubelet>>
    BY NodeFacts DEF SetDataSourceCompleted, lvmVars, outerVars
  <1>1. w \in Volume /\ VolumeOK(w) /\ w.phase = local[n].phase /\ w.avail = local[n].avail
    BY <1>0 DEF Volume, VolumeOK, NodeOK
  <1>2. Ready(local[n]) \in {"idle", "linear"} /\ (Ready(local[n]) = "linear" => w.avail)
    BY <1>1 DEF Ready
  <1> HIDE DEF w
  <1>3. QED BY <1>0, <1>1, <1>2, NodeWrites

\* The status lists a node only when the volume is available.
LEMMA UpdateAttachedToNodesStep ==
  ASSUME LifecycleInv, TypeOK', NEW n \in Nodes, UpdateAttachedToNodes(n)
  PROVE  LifecycleInv'
  <1> DEFINE w == [local[n] EXCEPT !.attached = IF n \in @ THEN @ \ {n} ELSE @ \cup {n}]
  <1>0. local[n] \in Volume /\ VolumeOK(local[n]) /\ NodeOK(n) /\ pc[n] = "attach"
        /\ Write(n, w, "idle") /\ UNCHANGED <<lv, active, job, kubelet>>
    BY NodeFacts DEF UpdateAttachedToNodes, lvmVars, outerVars
  <1>1. local[n].attached \ {n} \in SUBSET Nodes /\ local[n].attached \cup {n} \in SUBSET Nodes
    BY <1>0 DEF Volume
  <1>2. w \in Volume
    BY <1>0, <1>1 DEF Volume
  <1>3. VolumeOK(w) /\ w.phase = local[n].phase
    BY <1>0 DEF Volume, VolumeOK, NodeOK
  <1> HIDE DEF w
  <1>4. QED BY <1>0, <1>2, <1>3, NodeWrites

\* The image is activated for users only by a copy that says it is available.
LEMMA ReconcileLinearStep ==
  ASSUME LifecycleInv, TypeOK', NEW n \in Nodes, ReconcileLinear(n)
  PROVE  LifecycleInv'
  <1>0. /\ TypeOK /\ NodeOK(n) /\ JobOK(n) /\ LvOK /\ (Exposed(n) => Populated)
        /\ local[n].avail /\ VolumeOK(local[n]) /\ UNCHANGED <<vol, lv, job, kubelet>>
        /\ UNCHANGED vol /\ UNCHANGED kubelet /\ lv' = lv
        /\ (lv'.counter = 0 \/ lv'.counter >= SrcSize)
    BY NodeFacts DEF ReconcileLinear, outerVars, LvOK, NodeOK
  <1>p. Populated' /\ Populated
    BY <1>0 DEF VolumeOK, Populated, LvPresent, Target
  <1>1. ASSUME NEW p \in {"idle", "attach"}, Continue(n, p, seen[n]),
               NEW a \in {"no", "sh", active[n]}, active' = [active EXCEPT ![n] = a],
               a = "sh" => CanLockShared(n) \/ active[n] = "sh",
               a # active[n] => job[n].state \notin {"running", "canceled"}
        PROVE  LifecycleInv'
    <2>1. active'[n] = a /\ \A m \in Nodes \ {n} : active'[m] = active[m] /\ job'[m] = job[m]
      BY <1>0, <1>1 DEF TypeOK
    <2>2. JobOK(n)'
      BY <1>0, <1>1, <2>1 DEF JobOK, LvPresent
    <2>3. pc'[n] = p /\ (p # "idle" => local'[n] = local[n] /\ seen'[n] = seen[n]) => NodeOK(n)'
      BY <1>0 DEF NodeOK
    <2>4. active'[n] \in {active[n], "no"} \/ (active'[n] = "sh" /\ CanLockShared(n))
      BY <1>1, <2>1
    <2>5. QED BY <1>0, <1>1, <1>p, <2>1, <2>2, <2>3, <2>4, NodeContinues
  <1>2. ASSUME Fail(n), active' = active PROVE LifecycleInv'
    <2>1. JobOK(n)'
      BY <1>0, <1>2 DEF JobOK, LvPresent
    <2>2. QED BY <1>0, <1>2, <2>1, NodeEnds
  <1> DEFINE should == local[n].phase = "live" /\ n \in local[n].attachTo
             after(isActive) == IF isActive = (n \in local[n].attached) THEN "idle" ELSE "attach"
  <1>3. CASE active[n] = "no" /\ CanLockShared(n) /\ active' = [active EXCEPT ![n] = "sh"]
             /\ Continue(n, after(TRUE), seen[n])
    <2>1. after(TRUE) \in {"idle", "attach"} /\ job[n].state \notin {"running", "canceled"}
      BY <1>0, <1>3 DEF JobOK
    <2> HIDE DEF after
    <2>2. QED BY <1>1, <1>3, <2>1
  <1>4. CASE ~InUse(n) /\ active' = [active EXCEPT ![n] = "no"] /\ Continue(n, after(FALSE), seen[n])
    <2>1. after(FALSE) \in {"idle", "attach"} /\ job[n].state \notin {"running", "canceled"}
      BY <1>4 DEF InUse
    <2> HIDE DEF after
    <2>2. QED BY <1>1, <1>4, <2>1
  <1>5. CASE active' = active /\ Continue(n, after(active[n] # "no"), seen[n])
    <2>1. after(active[n] # "no") \in {"idle", "attach"} /\ active' = [active EXCEPT ![n] = active[n]]
      BY <1>0, <1>5 DEF TypeOK
    <2> DEFINE q == after(active[n] # "no")
    <2>2. Continue(n, q, seen[n]) /\ q \in {"idle", "attach"}
      BY <1>5, <2>1
    <2> HIDE DEF q
    <2>3. QED BY <1>1, <2>1, <2>2
  <1>6. QED BY <1>2, <1>3, <1>4, <1>5 DEF ReconcileLinear

-----------------------------------------------------------------------------
(* Workers, pods, faults, watches and CSI calls. *)

\* A step outside the reconcilers that may stop workers and write to the image.
LEMMA BackgroundStep ==
  ASSUME LifecycleInv, TypeOK', UNCHANGED <<vol, cache, local, fresh, seen, pc, active, kubelet>>,
         lv'.state = lv.state /\ lv'.size = lv.size /\ lv'.counter = lv.counter,
         \A e \in Extents : lv'.data[e] = "user" => lv.data[e] = "user" \/ Populated,
         \A n \in Nodes : job'[n] = job[n] \/ job'[n].state \notin {"running", "canceled"}
  PROVE  LifecycleInv'
  <1>1. Populated' = Populated
    BY DEF Populated, LvPresent, Target
  <1>2. CopiesOK' /\ FreshOK' /\ PhaseOK' /\ ClusterOK' /\ LvOK'
    BY <1>1 DEF LifecycleInv, CopiesOK, VolumeOK, FreshOK, PhaseOK, ClusterOK, LvOK, LvPresent
  <1>3. ASSUME NEW n \in Nodes PROVE NodeOK(n)' /\ JobOK(n)'
    BY <1>1, <1>3 DEF LifecycleInv, NodeOK, JobOK, LvPresent
  <1>4. ExposureOK'
    BY <1>1 DEF LifecycleInv, ExposureOK, Exposed
  <1>5. QED BY <1>2, <1>3, <1>4 DEF LifecycleInv

\* A worker ends, by itself or not.
LEMMA WorkerStep ==
  ASSUME LifecycleInv, TypeOK', NEW n \in Nodes, WorkerDone(n) \/ WorkerFails(n)
  PROVE  LifecycleInv'
  <1>0. lv \in Lv /\ job \in [Nodes -> Job]
        /\ UNCHANGED <<vol, cache, local, fresh, seen, pc, active, kubelet>>
    BY DEF LifecycleInv, TypeOK, WorkerDone, WorkerFails, outerVars, lvmVars
  <1>1. \A m \in Nodes : job'[m] = job[m] \/ job'[m].state \notin {"running", "canceled"}
    BY <1>0 DEF WorkerDone, WorkerFails, Job
  <1>2. /\ lv'.state = lv.state /\ lv'.size = lv.size /\ lv'.counter = lv.counter
        /\ \A e \in Extents : lv'.data[e] = "user" => lv.data[e] = "user"
    <2>1. CASE lv' = lv
      BY <2>1
    <2>2. CASE lv' = [lv EXCEPT !.data = Written(job[n], @)]
      <3>1. lv'.state = lv.state /\ lv'.size = lv.size /\ lv'.counter = lv.counter
            /\ lv'.data = Written(job[n], lv.data)
        BY <1>0, <2>2 DEF Lv
      <3>2. \A e \in Extents : Written(job[n], lv.data)[e] \in {"zero", "source", lv.data[e]}
        BY DEF Written
      <3>3. QED BY <3>1, <3>2
    <2>3. QED BY <2>1, <2>2 DEF WorkerDone, WorkerFails, lvmVars
  <1>3. QED BY <1>0, <1>1, <1>2, BackgroundStep

\* A restart forgets the reconcile and the worker; a reboot also releases the LV.
LEMMA RestartStep ==
  ASSUME LifecycleInv, TypeOK', NEW n \in Nodes, RestartNode(n) \/ RebootNode(n)
  PROVE  LifecycleInv'
  <1>0. /\ TypeOK /\ Copies /\ n \in Controllers /\ Cluster \in Controllers \ {n} /\ LvOK
        /\ (Exposed(n) => Populated) /\ VolumeOK(vol)
    BY NodeFacts
  <1>1. /\ vol' = vol /\ lv' = lv /\ pc'[n] = "idle" /\ local'[n] = NoCopy /\ cache'[n] = vol
        /\ fresh' = fresh \ {n} /\ job'[n].state = "done"
        /\ \A d \in Controllers \ {n} : /\ pc'[d] = pc[d] /\ local'[d] = local[d]
                                        /\ seen'[d] = seen[d] /\ cache'[d] = cache[d]
        /\ \A m \in Nodes \ {n} : job'[m] = job[m]
    BY <1>0 DEF RestartNode, RebootNode, Restarted, TypeOK, NoJob
  <1>2. /\ \A m \in Nodes \ {n} : active'[m] = active[m] /\ kubelet'[m] = kubelet[m]
        /\ active'[n] \in {"no", active[n]}
        /\ (kubelet'[n] \in {"staged", "used"} => kubelet[n] \in {"staged", "used"})
    BY <1>0 DEF RestartNode, RebootNode, TypeOK
  <1>3. Populated' = Populated
    BY <1>1 DEF Populated, LvPresent, Target
  <1>4. Copies'
    <2>1. CopiesOK'
      BY <1>0, <1>1, <1>3, NoCopyOK DEF Copies, CopiesOK, VolumeOK
    <2>2. FreshOK'
      BY <1>0, <1>1 DEF Copies, FreshOK, TypeOK
    <2>3. PhaseOK'
      BY <1>0, <1>1, NoCopyOK DEF Copies, PhaseOK
    <2>4. QED BY <2>1, <2>2, <2>3 DEF Copies
  <1>5. NodeOK(n)' /\ JobOK(n)'
    BY <1>1 DEF NodeOK, JobOK
  <1>6. LvOK'
    BY <1>0, <1>1, <1>2 DEF LvOK, LvPresent
  <1>7. Exposed(n)' => Populated'
    BY <1>0, <1>2, <1>3 DEF Exposed
  <1>8. QED BY <1>1, <1>2, <1>3, <1>4, <1>5, <1>6, <1>7, NodeFrame

\* A new leader starts from the server's object; a watch event brings it to a cache.
LEMMA RefreshStep ==
  ASSUME LifecycleInv, TypeOK',
         (\E n \in Nodes : Election(n)) \/ (\E c \in Controllers : WatchEvent(c))
  PROVE  LifecycleInv'
  <1>0. /\ Cluster \in Controllers /\ Nodes \subseteq Controllers \ {Cluster}
        /\ TypeOK /\ Copies /\ VolumeOK(vol) /\ ClusterOK /\ LvOK
    BY NodesAssumption
       DEF NodesAssumption, LifecycleInv, TypeOK, Controllers, Copies, CopiesOK
  <1>1. /\ UNCHANGED <<vol, lv, active, job, kubelet>> /\ fresh' \subseteq fresh
        /\ \A c \in Controllers : cache'[c] \in {cache[c], vol}
        /\ \A n \in Nodes : pc'[n] = pc[n] /\ local'[n] = local[n] /\ seen'[n] = seen[n]
    BY <1>0 DEF Election, WatchEvent, TypeOK, lvmVars, outerVars
  <1>2. \/ pc' = pc /\ local' = local
        \/ pc'[Cluster] = "idle" /\ local'[Cluster] = NoCopy /\ Cluster \notin fresh'
    BY <1>0 DEF Election, WatchEvent, TypeOK
  <1>3. Populated' = Populated
    BY <1>1 DEF Populated, LvPresent, Target
  <1>4. \A c \in Controllers : local'[c] \in {local[c], NoCopy}
    BY <1>1, <1>2 DEF Controllers
  <1>5. CopiesOK'
    BY <1>0, <1>1, <1>3, <1>4, NoCopyOK DEF Copies, CopiesOK, VolumeOK
  <1>6. FreshOK'
    <2>1. \A c \in fresh' : pc'[c] = pc[c] /\ local'[c] = local[c] /\ c \in fresh
      BY <1>0, <1>1, <1>2 DEF TypeOK, Controllers
    <2>2. QED BY <1>0, <1>1, <2>1 DEF Copies, FreshOK
  <1>7. PhaseOK'
    BY <1>0, <1>1, <1>4, NoCopyOK DEF Copies, PhaseOK
  <1>8. ClusterOK'
    BY <1>0, <1>2 DEF ClusterOK
  <1>9. lv.state = "removed" => cache'[Cluster].phase # "live" /\ local'[Cluster].phase # "live"
    BY <1>0, <1>1, <1>2, NoCopyOK DEF LvOK
  <1>10. QED
    BY <1>1, <1>5, <1>6, <1>7, <1>8, <1>9, QuietStep DEF Copies, Exposed

\* A CSI call writes the Volume without touching what the reconcilers rely on.
LEMMA CsiWriteStep ==
  ASSUME LifecycleInv, TypeOK', NEW w \in Volume, CsiWrites(w), VolumeOK(w),
         vol.phase # "live" => w.phase # "live",
         \A n \in Nodes : Exposed(n)' => Exposed(n)
  PROVE  LifecycleInv'
  <1>1. /\ vol' = w /\ fresh' = {} /\ UNCHANGED <<cache, local, seen, pc, lv, active, job>>
    BY DEF CsiWrites, lvmVars
  <1>2. Populated' = Populated
    BY <1>1 DEF Populated, LvPresent, Target
  <1>3. Copies' /\ ClusterOK'
    BY <1>1, <1>2 DEF LifecycleInv, Copies, CopiesOK, VolumeOK, FreshOK, PhaseOK, ClusterOK
  <1>4. QED BY <1>1, <1>3, QuietStep DEF LifecycleInv, LvOK

\* Staging, publishing, using and unstaging the volume on a node.
LEMMA CsiNodeStep ==
  ASSUME LifecycleInv, TypeOK', NEW n \in Nodes, CsiStep(n)
  PROVE  LifecycleInv'
  <1>0. /\ TypeOK /\ vol \in Volume /\ VolumeOK(vol) /\ lv \in Lv /\ n \in Controllers
        /\ (Exposed(n) => Populated) /\ kubelet \in [Nodes -> {"idle", "staging", "staged", "used", "unstaging"}]
    BY NodeFacts DEF TypeOK
  <1>1. ASSUME NEW w \in Volume, CsiWrites(w), VolumeOK(w), w.phase = vol.phase,
               NEW to \in {"staging", "unstaging"}, kubelet' = [kubelet EXCEPT ![n] = to]
        PROVE  LifecycleInv'
    <2>1. \A m \in Nodes : Exposed(m)' => Exposed(m)
      BY <1>0, <1>1 DEF Exposed, CsiWrites, lvmVars
    <2>2. QED BY <1>1, <2>1, CsiWriteStep
  <1>2. CASE NodeStageVolume(n)
    <2> DEFINE w == [vol EXCEPT !.attachTo = @ \cup {n}]
    <2>1. w \in Volume /\ VolumeOK(w) /\ w.phase = vol.phase
      BY <1>0 DEF Volume, VolumeOK
    <2>2. CsiWrites(w) /\ kubelet' = [kubelet EXCEPT ![n] = "staging"]
      BY <1>2 DEF NodeStageVolume
    <2> HIDE DEF w
    <2>3. QED BY <1>1, <2>1, <2>2
  <1>3. CASE NodeUnstageVolume(n)
    <2> DEFINE w == [vol EXCEPT !.attachTo = @ \ {n}]
    <2>1. w \in Volume /\ VolumeOK(w) /\ w.phase = vol.phase
      BY <1>0 DEF Volume, VolumeOK
    <2>2. CsiWrites(w) /\ kubelet' = [kubelet EXCEPT ![n] = "unstaging"]
      BY <1>3 DEF NodeUnstageVolume
    <2> HIDE DEF w
    <2>3. QED BY <1>1, <2>1, <2>2
  <1>4. ASSUME NEW from, NEW to \in {"idle", "staged", "used"}, Kubelet(n, from, to),
               to \in {"staged", "used"} => Populated
        PROVE  LifecycleInv'
    <2>1. /\ UNCHANGED <<vol, cache, local, fresh, seen, pc, lv, active, job>>
          /\ \A m \in Nodes \ {n} : kubelet'[m] = kubelet[m]
          /\ kubelet'[n] = to
      BY <1>0, <1>4 DEF Kubelet, reconcileVars, lvmVars
    <2>2. \A m \in Nodes : Exposed(m)' => Exposed(m) \/ Populated
      BY <1>4, <2>1 DEF Exposed
    <2>3. Populated' = Populated
      BY <2>1 DEF Populated, LvPresent, Target
    <2>4. Copies' /\ ClusterOK'
      BY <2>1, <2>3 DEF LifecycleInv, Copies, CopiesOK, VolumeOK, FreshOK, PhaseOK, ClusterOK
    <2>5. QED BY <2>1, <2>2, <2>4, QuietStep DEF LifecycleInv, LvOK
  <1>5. CASE NodeStageReturns(n)
    BY <1>0, <1>4, <1>5 DEF NodeStageReturns, VolumeOK
  <1>6. CASE NodePublishVolume(n)
    <2>1. Populated
      BY <1>0, <1>6 DEF NodePublishVolume, Kubelet, Exposed
    <2>2. QED BY <1>4, <1>6, <2>1 DEF NodePublishVolume
  <1>7. CASE NodeUnpublishVolume(n)
    <2>1. Populated
      BY <1>0, <1>7 DEF NodeUnpublishVolume, Kubelet, Exposed
    <2>2. QED BY <1>4, <1>7, <2>1 DEF NodeUnpublishVolume
  <1>8. CASE NodeUnstageReturns(n)
    BY <1>4, <1>8 DEF NodeUnstageReturns
  <1>9. ASSUME NEW e \in Extents, PodWrites(n, e) PROVE LifecycleInv'
    <2>1. Populated
      BY <1>0, <1>9 DEF PodWrites, Exposed
    <2>2. lv'.state = lv.state /\ lv'.size = lv.size /\ lv'.counter = lv.counter
      BY <1>0, <1>9 DEF PodWrites, Lv
    <2>3. UNCHANGED <<vol, cache, local, fresh, seen, pc, active, kubelet>> /\ job' = job
      BY <1>9 DEF PodWrites, reconcileVars, outerVars
    <2>4. QED BY <2>1, <2>2, <2>3, BackgroundStep
  <1>10. QED BY <1>2, <1>3, <1>5, <1>6, <1>7, <1>8, <1>9 DEF CsiStep

\* CreateVolume's return and DeleteVolume's two steps.
LEMMA CsiControllerStep ==
  ASSUME LifecycleInv, TypeOK', CreateVolumeReturns \/ DeleteVolumeChecks \/ DeleteVolumeDeletes
  PROVE  LifecycleInv'
  <1>1. CASE CreateVolumeReturns \/ DeleteVolumeChecks
    <2>1. UNCHANGED <<vol, cache, local, fresh, seen, pc, active, kubelet>> /\ job' = job /\ lv' = lv
      BY <1>1 DEF CreateVolumeReturns, DeleteVolumeChecks, reconcileVars, lvmVars
    <2>2. QED BY <2>1, BackgroundStep
  <1>2. CASE DeleteVolumeDeletes
    <2> DEFINE w == [vol EXCEPT !.phase = "deleting"]
    <2>1. w \in Volume /\ VolumeOK(w) /\ w.phase = "deleting"
      BY DEF LifecycleInv, TypeOK, CopiesOK, Volume, VolumeOK
    <2>2. CsiWrites(w) /\ kubelet' = kubelet /\ active' = active
      BY <1>2 DEF DeleteVolumeDeletes, CsiWrites, outerVars, lvmVars
    <2>3. \A n \in Nodes : Exposed(n)' => Exposed(n)
      BY <2>2 DEF Exposed
    <2> HIDE DEF w
    <2>4. QED BY <2>1, <2>2, <2>3, CsiWriteStep
  <1>3. QED BY <1>1, <1>2

-----------------------------------------------------------------------------
(* The theorems. *)

\* The invariant holds at first.
LEMMA LifecycleInit == Init => LifecycleInv
  <1> SUFFICES ASSUME Init PROVE LifecycleInv
    OBVIOUS
  <1>1. TypeOK
    BY TypeInit
  <1>2. CopiesOK /\ FreshOK /\ PhaseOK /\ ClusterOK
    BY NoCopyOK, NodesAssumption
       DEF Init, CopiesOK, FreshOK, PhaseOK, ClusterOK, NodesAssumption, Controllers, NewVolume
  <1>3. LvOK
    BY NoCopyOK, SizeAssumption DEF Init, LvOK, LvPresent, SizeAssumption
  <1>4. \A n \in Nodes : NodeOK(n) /\ JobOK(n)
    BY DEF Init, NodeOK, JobOK, NoJob, Controllers
  <1>5. ExposureOK
    BY DEF Init, ExposureOK, Exposed
  <1>6. QED BY <1>1, <1>2, <1>3, <1>4, <1>5 DEF LifecycleInv

\* Every step of the lifecycle keeps it.
LEMMA LifecycleStep == LifecycleInv /\ [LifecycleNext]_vars => LifecycleInv'
  <1> SUFFICES ASSUME LifecycleInv, [LifecycleNext]_vars PROVE LifecycleInv'
    OBVIOUS
  <1>1. CASE LifecycleNext
    <2>1. TypeOK'
      BY <1>1, ClusterTypes, NodeTypes, FaultTypes, CsiTypes, SourceTypes, RestTypes
         DEF LifecycleNext, LifecycleInv
    <2>2. CASE ClusterStep
      BY <2>1, <2>2, ClusterQuiet, CreateBlobStep, RemoveBlobStep DEF ClusterStep
    <2>3. CASE \E c \in Controllers : WatchEvent(c)
      BY <2>1, <2>3, RefreshStep
    <2>4. ASSUME NEW n \in Nodes, NodeStep(n) PROVE LifecycleInv'
      BY <2>1, <2>4, ReconcileNodeStep, PopulateActivateStep, PopulateFromSourceStep,
         PopulateWipeStep, PopulateCounterStep, PopulateDeactivateStep,
         SetDataSourceCompletedStep, ReconcileLinearStep, UpdateAttachedToNodesStep DEF NodeStep
    <2>5. ASSUME NEW n \in Nodes, WorkerDone(n) \/ Fault(n) PROVE LifecycleInv'
      BY <2>1, <2>5, WorkerStep, RestartStep, RefreshStep DEF Fault
    <2>6. ASSUME NEW n \in Nodes, CsiStep(n) PROVE LifecycleInv'
      BY <2>1, <2>6, CsiNodeStep
    <2>7. CASE CreateVolumeReturns \/ DeleteVolumeChecks \/ DeleteVolumeDeletes
      BY <2>1, <2>7, CsiControllerStep
    <2>8. CASE SourceDeleted \/ SourceActivated \/ SourceReleased
      <3>1. UNCHANGED <<vol, cache, local, fresh, seen, pc, active, kubelet>> /\ job' = job /\ lv' = lv
        BY <2>8 DEF SourceDeleted, SourceActivated, SourceReleased, PoolAnswers, reconcileVars, lvmVars
      <3>2. QED BY <2>1, <3>1, BackgroundStep
    <2>9. QED BY <1>1, <2>2, <2>3, <2>4, <2>5, <2>6, <2>7, <2>8 DEF LifecycleNext
  <1>2. CASE UNCHANGED vars
    <2>1. UNCHANGED <<vol, cache, local, fresh, seen, pc, active, kubelet>> /\ job' = job /\ lv' = lv
      BY <1>2 DEF vars, reconcileVars, lvmVars, outerVars
    <2>2. TypeOK'
      BY <1>2 DEF LifecycleInv, TypeOK, vars, reconcileVars, lvmVars, outerVars, boundVars
    <2>3. QED BY <2>1, <2>2, BackgroundStep
  <1>3. QED BY <1>1, <1>2

\* LifecycleInv is an invariant of every lifecycle without expansion.
THEOREM LifecycleCorrect == LifecycleSpec => []LifecycleInv
  BY LifecycleInit, LifecycleStep, PTL DEF LifecycleSpec

\* What the reconcilers, the workers and LVM's locks together guarantee about the
\* image: no node has it within a user's reach before the safe-offset counter has
\* reached the size of the LV.
THEOREM ExposureCorrect == LifecycleSpec => []ExposedIsSafe
  <1>1. LifecycleInv => ExposedIsSafe
    BY DEF LifecycleInv, ExposureOK, Populated, Target, ExposedIsSafe
  <1>2. QED BY <1>1, LifecycleCorrect, PTL

\* A dd or blkdiscard that can still write starts at the counter or beyond it.
THEOREM SafeOffsetCorrect == LifecycleSpec => []SafeOffsetKept
  <1>1. LifecycleInv => SafeOffsetKept
    <2> SUFFICES ASSUME LifecycleInv, NEW n \in Nodes, job[n].state = "running", LvPresent
                 PROVE  job[n].from >= lv.counter
      BY DEF SafeOffsetKept
    <2>1. JobOK(n) /\ job[n].from \in Nat
      BY DEF LifecycleInv, TypeOK, Job
    <2>2. QED BY <2>1 DEF JobOK
  <1>2. QED BY <1>1, LifecycleCorrect, PTL

\* Population is over before a user can write and never starts again: nothing but
\* a user's own write replaces what a user wrote.
THEOREM UserDataCorrect == LifecycleSpec => UserDataKept
  <1> DEFINE Kept == \A e \in Extents : lv.data[e] = "user" => lv'.data[e] = "user"
  <1>1. LifecycleInv /\ [LifecycleNext]_vars => [Kept]_vars
    <2> SUFFICES ASSUME LifecycleInv, LifecycleNext PROVE Kept
      OBVIOUS
    <2>0. /\ lv \in Lv /\ InitSize \in Nat \ {0} /\ lv.size \in Nat /\ lv.counter \in Nat /\ SrcSize \in Nat
          /\ \A e \in Extents : lv.data[e] = "user" => Populated
      BY SizeAssumption DEF LifecycleInv, TypeOK, ExposureOK, Lv, SizeAssumption
    <2>1. CASE lv'.data = lv.data
      BY <2>1
    <2>2. CASE CreateBlob /\ ~LvPresent
      <3>1. lv.state = "none"
        BY <2>0, <2>2 DEF CreateBlob, LifecycleInv, ClusterOK, LvOK, LvPresent, Lv
      <3>2. QED BY <2>0, <3>1 DEF Populated
    <2>3. ASSUME NEW n \in Nodes, job[n].state = "running" PROVE Kept
      <3>1. JobOK(n) /\ LvOK
        BY DEF LifecycleInv
      <3>2. ~Populated
        BY <2>0, <2>3, <3>1 DEF JobOK, LvOK, Populated, Target, LvPresent
      <3>3. QED BY <2>0, <3>2
    <2>4. ASSUME NEW n \in Nodes, NEW e \in Extents, PodWrites(n, e) PROVE Kept
      BY <2>0, <2>4 DEF PodWrites, Lv
    <2>5. QED
      <3>1. ClusterStep => (CreateBlob /\ ~LvPresent) \/ lv'.data = lv.data
        BY <2>0 DEF ClusterStep, ReconcileVolume, ReconcilePrepareForResize, CreateBlob,
             RecordLvCreated, ActivateDataSource, DeactivateDataSource, SetAvailable,
             RemoveBlob, RemoveFinalizer, lvmVars, Lv
      <3>2. ASSUME NEW n \in Nodes, NodeStep(n) PROVE lv'.data = lv.data
        BY <2>0, <3>2 DEF NodeStep, ReconcileNode, PopulateActivate, PopulateFromSource,
             PopulateWipe, PopulateCounter, PopulateDeactivate, SetDataSourceCompleted,
             ReconcileLinear, UpdateAttachedToNodes, lvmVars, Lv
      <3>3. ASSUME NEW n \in Nodes, WorkerDone(n) \/ Fault(n)
            PROVE  lv' = lv \/ job[n].state = "running"
        BY <3>3 DEF WorkerDone, Fault, WorkerFails, RestartNode, RebootNode, Restarted, Election, lvmVars
      <3>4. ASSUME NEW n \in Nodes, CsiStep(n)
            PROVE  lv' = lv \/ \E e \in Extents : PodWrites(n, e)
        BY <3>4 DEF CsiStep, NodeStageVolume, NodeStageReturns, NodePublishVolume,
             NodeUnpublishVolume, NodeUnstageVolume, NodeUnstageReturns, CsiWrites, Kubelet, lvmVars
      <3>5. (\E c \in Controllers : WatchEvent(c)) \/ CreateVolumeReturns \/ DeleteVolumeChecks
              \/ DeleteVolumeDeletes \/ SourceDeleted \/ SourceActivated \/ SourceReleased => lv' = lv
        BY DEF WatchEvent, CreateVolumeReturns, DeleteVolumeChecks, DeleteVolumeDeletes,
             SourceDeleted, SourceActivated, SourceReleased, PoolAnswers, CsiWrites, lvmVars
      <3> HIDE DEF Kept
      <3>6. QED
        BY <2>1, <2>2, <2>3, <2>4, <3>1, <3>2, <3>3, <3>4, <3>5 DEF LifecycleNext
  <1>2. [Kept]_vars => [\A e \in Extents : lv.data[e] = "user" => lv'.data[e] = "user"]_vars
    OBVIOUS
  <1> HIDE DEF Kept
  <1>3. QED BY <1>1, <1>2, LifecycleCorrect, PTL DEF LifecycleSpec, UserDataKept

=============================================================================
