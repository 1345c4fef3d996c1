--------------------------- MODULE ThinPoolProofs ---------------------------
(***************************************************************************)
(* Proofs about ThinPool, for every set of nodes, every bound and every    *)
(* kind of snapshot: its types, and that Spec covers Status, both under    *)
(* the whole of Next, so with owners deleted at any time, restarts,        *)
(* reboots and elections.                                                  *)
(***************************************************************************)
EXTENDS ThinPool, TLAPS

-----------------------------------------------------------------------------
(* Types. *)

Pcs == {"idle"} \cup NodePc \cup PoolPc \cup OwnerPc

\* The types of the variables that a reconcile uses.
RecTypes ==
    /\ pool \in Pool
    /\ cache \in [Caches -> Pool] /\ local \in [Procs -> Pool]
    /\ fresh \subseteq Procs
    /\ pc \in [Procs -> Pcs]
    /\ queued \in [Procs -> BOOLEAN]

\* The types of the others.
RestTypes ==
    /\ leader \in Nodes
    /\ lvm \in Lvm
    /\ kind \in Kinds
    /\ own \in [LVs -> {"absent", "wanted", "labelled", "copied", "ready", "gone"}]
    /\ deleting \subseteq LVs
    /\ size \in [spec: 1..MaxSize, status: 0..MaxSize]
    /\ label \in Nodes \cup {None} /\ dd \in {"no", "running", "canceled"}
    /\ faults \in 0..MaxFaults /\ elections \in 0..MaxElections

\* The two halves make up the type invariant.
LEMMA TypeParts ==
    /\ TypeOK <=> RecTypes /\ RestTypes
    /\ RecTypes' /\ RestTypes' => TypeOK'
BY DEF TypeOK, RecTypes, RestTypes, Pcs

\* Who the processes are.
LEMMA ProcsFacts ==
    /\ \A n \in Nodes : n \in Procs /\ n \in Caches /\ n \notin LVs /\ n # PoolCtl
    /\ Vol \in LVs /\ Snap \in LVs /\ Vol # Snap
    /\ \A l \in LVs : l \in Procs /\ l \notin Nodes /\ l # PoolCtl
    /\ PoolCtl \in Procs /\ PoolCtl \in Caches /\ PoolCtl \notin Nodes /\ PoolCtl \notin LVs
    /\ \A c \in Caches : c \in Procs
BY NamesAssumption DEF Procs, Caches, LVs

\* The fields of a copy of the ThinPoolLv have their types.
LEMMA PoolFields ==
    ASSUME NEW v \in Pool
    PROVE  /\ v.phase \in {"none", "live", "deleting", "gone"}
           /\ v.spec \in [LVs -> {"none", "Inactive", "Active", "Removed"}]
           /\ v.status \in [LVs -> {"none", "Inactive", "Active"}]
           /\ v.want \in 0..MaxSize /\ v.have \in 0..MaxSize
           /\ v.node \in Nodes \cup {None} /\ v.statusNode \in Nodes \cup {None}
           /\ v.avail \in BOOLEAN /\ v.active \in BOOLEAN /\ v.refs \subseteq LVs
BY DEF Pool

\* The null copy and the new object are ThinPoolLvs.
LEMMA NullTypes == NoPool \in Pool /\ NewPool \in Pool
<1>1. 0 \in 0..MaxSize
  BY BoundsAssumption
<1>2. [l \in LVs |-> "none"] \in [LVs -> {"none", "Inactive", "Active", "Removed"}]
  OBVIOUS
<1>3. [l \in LVs |-> "none"] \in [LVs -> {"none", "Inactive", "Active"}]
  OBVIOUS
<1>4. NoPool \in Pool
  BY <1>1, <1>2, <1>3 DEF NoPool, Pool
<1>5. {Vol} \subseteq LVs
  BY DEF LVs
<1>6. NewPool \in Pool
  BY <1>4, <1>5 DEF NewPool, Pool
<1> QED BY <1>4, <1>6

\* recalcActiveOnNode changes Spec.ActiveOnNode and nothing else.
LEMMA RecalcFacts ==
    ASSUME leader \in Nodes, NEW v \in Pool
    PROVE  /\ Recalc(v) \in Pool
           /\ Recalc(v).spec = v.spec /\ Recalc(v).status = v.status
           /\ Recalc(v).phase = v.phase /\ Recalc(v).refs = v.refs
           /\ Recalc(v).want = v.want /\ Recalc(v).have = v.have
           /\ Recalc(v).statusNode = v.statusNode /\ Recalc(v).active = v.active
<1> DEFINE k == IF ~NeedsActivation(v) THEN None ELSE IF v.node = None THEN leader ELSE v.node
<1>1. Recalc(v) = [v EXCEPT !.node = k]
  BY DEF Recalc
<1>2. k \in Nodes \cup {None}
  BY PoolFields
<1> HIDE DEF k
<1> QED BY <1>1, <1>2 DEF Pool

\* The next step of the node reconciler.
LEMMA NextSteps ==
    ASSUME NEW n, NEW v, NEW m
    PROVE  /\ ToUnlock(n, v, m) \in {"unlock", "idle"}
           /\ ToDelete(n, v, m) \in {"delete", "unlock", "idle"}
           /\ ToActivate(n, v, m) \in {"activate", "delete", "unlock", "idle"}
           /\ ToCreate(n, v, m) \in {"create", "activate", "delete", "unlock", "idle"}
           /\ AfterPool(n, v, m) \in {"create", "activate", "delete", "unlock", "idle"}
<1>1. ToUnlock(n, v, m) \in {"unlock", "idle"}
  BY DEF ToUnlock
<1>2. ToDelete(n, v, m) \in {"delete", "unlock", "idle"}
  BY <1>1 DEF ToDelete
<1>3. ToActivate(n, v, m) \in {"activate", "delete", "unlock", "idle"}
  BY <1>2 DEF ToActivate
<1>4. ToCreate(n, v, m) \in {"create", "activate", "delete", "unlock", "idle"}
  BY <1>3 DEF ToCreate
<1> QED BY <1>1, <1>2, <1>3, <1>4 DEF AfterPool

\* The steps that a reconcile may go on with.
LEMMA PcNames ==
    /\ {"create", "activate", "delete", "unlock", "idle"} \subseteq Pcs
    /\ {"up", "down", "record", "deleted", "mkstatus", "rmfinal"} \subseteq Pcs
    /\ {"add", "ready", "label", "remove", "forget", "drop", "forgot", "finish"} \subseteq Pcs
BY DEF Pcs, NodePc, PoolPc, OwnerPc

\* A reconcile that ends keeps the types.
LEMMA EndsTypes ==
    ASSUME RecTypes, NEW c \in Procs, Return(c) \/ Fail(c), pool' = pool
    PROVE  RecTypes'
<1>1. NoPool \in Pool /\ "idle" \in Pcs
  BY NullTypes DEF Pcs
<1>2. queued' \in [Procs -> BOOLEAN]
  BY DEF RecTypes, Return, Fail, Queue
<1>3. pc' \in [Procs -> Pcs] /\ local' \in [Procs -> Pool]
  BY <1>1 DEF RecTypes, Return, Fail, Ends
<1> QED BY <1>2, <1>3 DEF RecTypes, Return, Fail, Ends

\* So does one that goes on,
LEMMA ContinueTypes ==
    ASSUME RecTypes, NEW c \in Procs, NEW v \in Pool, NEW isFresh, NEW p \in Pcs \cup {"retry"},
           Continue(c, v, isFresh, p), pool' = pool
    PROVE  RecTypes'
<1>1. CASE Return(c) \/ Fail(c)
  BY <1>1, EndsTypes
<1>2. CASE /\ p \notin {"idle", "retry"}
           /\ pc' = [pc EXCEPT ![c] = p]
           /\ local' = [local EXCEPT ![c] = v]
           /\ fresh' = IF isFresh THEN fresh \cup {c} ELSE fresh \ {c}
           /\ queued' = Queue(c)
           /\ UNCHANGED cache
  <2>1. queued' \in [Procs -> BOOLEAN]
    BY <1>2 DEF RecTypes, Queue
  <2>2. pc' \in [Procs -> Pcs] /\ local' \in [Procs -> Pool]
    BY <1>2 DEF RecTypes
  <2> QED BY <1>2, <2>1, <2>2 DEF RecTypes
<1> QED BY <1>1, <1>2 DEF Continue

\* one that writes,
LEMMA WriteTypes ==
    ASSUME RecTypes, NEW c \in Procs, NEW v \in Pool, NEW isFresh, NEW p \in Pcs \cup {"retry"},
           Write(c, v, isFresh, p)
    PROVE  RecTypes'
<1>1. CASE Fail(c) /\ UNCHANGED pool
  BY <1>1, EndsTypes
<1>2. CASE ~(Fail(c) /\ UNCHANGED pool)
  <2> DEFINE ends == p \in {"idle", "retry"}
  <2>1. /\ pool' = v
        /\ pc' = [pc EXCEPT ![c] = IF ends THEN "idle" ELSE p]
        /\ local' = [local EXCEPT ![c] = IF ends THEN NoPool ELSE v]
        /\ fresh' = {q \in fresh \cup {c} : IF q = c THEN ~ends ELSE v = pool}
        /\ queued' = IF p = "retry" THEN [queued EXCEPT ![c] = TRUE] ELSE Queue(c)
        /\ UNCHANGED cache
    BY <1>2 DEF Write
  <2>2. queued' \in [Procs -> BOOLEAN]
    BY <2>1 DEF RecTypes, Queue
  <2>3. (IF ends THEN "idle" ELSE p) \in Pcs
    BY DEF Pcs
  <2> HIDE DEF ends
  <2>4. pc' \in [Procs -> Pcs]
    BY <2>1, <2>3 DEF RecTypes
  <2>5. local' \in [Procs -> Pool]
    BY <2>1, NullTypes DEF RecTypes
  <2> QED BY <2>1, <2>2, <2>4, <2>5 DEF RecTypes
<1> QED BY <1>1, <1>2

\* and one that calls UpdateThinPoolLv.
LEMMA UpdateTypes ==
    ASSUME RecTypes, leader \in Nodes, NEW c \in Procs, NEW old \in Pool, NEW v \in Pool,
           NEW isFresh, NEW p \in Pcs \cup {"retry"},
           UpdateThinPoolLv(c, old, v, isFresh, p)
    PROVE  RecTypes'
<1>1. Recalc(v) \in Pool
  BY RecalcFacts
<1>2. CASE Write(c, Recalc(v), isFresh, p)
  BY <1>1, <1>2, WriteTypes
<1>3. CASE Continue(c, old, isFresh, p) /\ UNCHANGED pool
  BY <1>3, ContinueTypes
<1> QED BY <1>2, <1>3 DEF UpdateThinPoolLv

-----------------------------------------------------------------------------
(* The node reconciler keeps the types. *)

\* The fields of LVM's state.
LEMMA LvmFields ==
    ASSUME NEW m \in Lvm
    PROVE  /\ m.pool \in BOOLEAN /\ m.up \in BOOLEAN /\ m.lock \in Nodes \cup {None}
           /\ m.lvs \in [LVs -> {"none", "inactive", "active"}] /\ m.size \in 0..MaxSize
BY DEF Lvm

\* Releasing an unused lock leaves LVM in a state of its type.
LEMMA SettledType ==
    ASSUME NEW m \in Lvm, NEW n \in Nodes
    PROVE  Settled(m, n) \in Lvm
<1> DEFINE k == IF m.up \/ \E l \in LVs : m.lvs[l] = "active" THEN n ELSE None
<1>1. Settled(m, n) = [m EXCEPT !.lock = k]
  BY DEF Settled
<1>2. k \in Nodes \cup {None}
  OBVIOUS
<1> HIDE DEF k
<1> QED BY <1>1, <1>2 DEF Lvm

\* A change of the thin LVs' states does, too.
LEMMA LvsType ==
    ASSUME NEW m \in Lvm, NEW f \in [LVs -> {"none", "inactive", "active"}]
    PROVE  [m EXCEPT !.lvs = f] \in Lvm
BY DEF Lvm

\* The steps of the node reconciler that activate or deactivate the pool.
LEMMA PoolActivationTypes ==
    ASSUME TypeOK, NEW n \in Nodes, 
           ActivatePool(n) \/ RecordActive(n) \/ DeactivatePool(n) \/ RecordInactive(n)
    PROVE  TypeOK'
<1>0. RecTypes /\ RestTypes /\ n \in Procs /\ n \in Caches
  BY TypeParts, ProcsFacts
<1>1. cache[n] \in Pool /\ local[n] \in Pool
  BY <1>0 DEF RecTypes
<1>2. lvm \in Lvm
  BY <1>0 DEF RestTypes
<1>3. CASE ActivatePool(n)
  <2>1. pool' = pool
    BY <1>3 DEF ActivatePool
  <2>2. Return(n) \/ Fail(n) \/ Continue(n, cache[n], cache[n] = pool, "up")
    BY <1>3 DEF ActivatePool
  <2>3. RecTypes'
    BY <1>0, <1>1, <2>1, <2>2, EndsTypes, ContinueTypes, PcNames
  <2>4. lvm' \in Lvm
    BY <1>2, <1>3 DEF ActivatePool, Lvm
  <2>5. RestTypes'
    BY <1>0, <1>3, <2>4 DEF ActivatePool, RestTypes, ownerVars, boundVars
  <2> QED BY <2>3, <2>5, TypeParts
<1>4. CASE RecordActive(n)
  <2> DEFINE v == [local[n] EXCEPT !.active = TRUE, !.statusNode = n]
             p == AfterPool(n, v, lvm)
  <2>1. v \in Pool
    BY <1>1 DEF Pool
  <2>2. p \in Pcs \cup {"retry"}
    BY NextSteps, PcNames
  <2>3. Write(n, v, n \in fresh, p) \/ (Continue(n, v, n \in fresh, p) /\ UNCHANGED pool)
    BY <1>4 DEF RecordActive
  <2> HIDE DEF v, p
  <2>4. RecTypes'
    BY <1>0, <2>1, <2>2, <2>3, ContinueTypes, WriteTypes
  <2>5. RestTypes'
    BY <1>0, <1>4 DEF RecordActive, RestTypes, ownerVars, boundVars
  <2> QED BY <2>4, <2>5, TypeParts
<1>5. CASE DeactivatePool(n)
  <2> DEFINE v == cache[n]
             f == [l \in LVs |-> IF l \in Listed(v) /\ lvm.lvs[l] = "active"
                                 THEN "inactive" ELSE lvm.lvs[l]]
             off == [lvm EXCEPT !.up = FALSE, !.lvs = f]
             g == [l \in LVs |-> IF l \in Listed(v) THEN "Inactive" ELSE "none"]
             w == [v EXCEPT !.status = g]
             p == AfterPool(n, v, lvm)
  <2>1. f \in [LVs -> {"none", "inactive", "active"}]
    BY <1>2, LvmFields
  <2>2. g \in [LVs -> {"none", "Inactive", "Active"}]
    OBVIOUS
  <2>3. p \in Pcs \cup {"retry"}
    BY NextSteps, PcNames
  <2>4. /\ pool' = pool
        /\ UNCHANGED <<leader, kind, ownerVars, dd, boundVars>>
        /\ \/ Continue(n, v, v = pool, p) /\ UNCHANGED lvm
           \/ /\ lvm' = IF lvm.lock = n THEN Settled(off, n) ELSE lvm
              /\ Continue(n, w, v = pool, "down")
           \/ Fail(n) /\ UNCHANGED lvm
    BY <1>5 DEF DeactivatePool
  <2>5. v \in Pool
    BY <1>1
  <2> HIDE DEF f, g, p, v
  <2>6. off \in Lvm /\ w \in Pool
    BY <1>2, <2>1, <2>2, <2>5 DEF Lvm, Pool
  <2> HIDE DEF off, w
  <2>7. RecTypes'
    BY <1>0, <2>3, <2>4, <2>5, <2>6, EndsTypes, ContinueTypes, PcNames
  <2>8. lvm' \in Lvm
    BY <1>2, <2>4, <2>6, SettledType
  <2>9. RestTypes'
    BY <1>0, <2>4, <2>8 DEF RestTypes, ownerVars, boundVars
  <2> QED BY <2>7, <2>9, TypeParts
<1>6. CASE RecordInactive(n)
  <2> DEFINE v == [local[n] EXCEPT !.active = FALSE, !.statusNode = None]
             p == AfterPool(n, v, lvm)
  <2>1. v \in Pool
    BY <1>1 DEF Pool
  <2>2. p \in Pcs \cup {"retry"}
    BY NextSteps, PcNames
  <2>3. Write(n, v, n \in fresh, p) \/ (Continue(n, v, n \in fresh, p) /\ UNCHANGED pool)
    BY <1>6 DEF RecordInactive
  <2> HIDE DEF v, p
  <2>4. RecTypes'
    BY <1>0, <2>1, <2>2, <2>3, ContinueTypes, WriteTypes
  <2>5. RestTypes'
    BY <1>0, <1>6 DEF RecordInactive, RestTypes, ownerVars, boundVars
  <2> QED BY <2>4, <2>5, TypeParts
<1> QED BY <1>3, <1>4, <1>5, <1>6

\* The steps that make, activate and remove thin LVs.
LEMMA ThinLvTypes ==
    ASSUME TypeOK, NEW n \in Nodes,
           \/ CreateThinLv(n) \/ RecordThinLv(n) \/ ActivateThinLvs(n)
           \/ DeleteThinLvs(n) \/ RecordDeleted(n) \/ UnlockPool(n)
    PROVE  TypeOK'
<1>0. RecTypes /\ RestTypes /\ n \in Procs /\ Vol \in LVs /\ Snap \in LVs
  BY TypeParts, ProcsFacts
<1>1. local[n] \in Pool
  BY <1>0 DEF RecTypes
<1>2. lvm \in Lvm
  BY <1>0 DEF RestTypes
<1>3. CASE CreateThinLv(n)
  <2> DEFINE v == local[n]
             made == lvm.lvs[Vol] # "none"
             a == [lvm EXCEPT !.lvs[Vol] = "inactive", !.size = IF made THEN @ ELSE v.want]
             b == [lvm EXCEPT !.size = IF @ < v.want THEN v.want ELSE @]
             d == [lvm EXCEPT !.lvs[Snap] = IF @ = "none" THEN "active" ELSE @]
  <2>1. /\ UNCHANGED <<pool, leader, kind, ownerVars, dd, boundVars>>
        /\ lvm' \in {Settled(a, n), Settled(b, n), Settled(d, n), lvm}
        /\ Continue(n, v, n \in fresh, "record") \/ Fail(n)
    BY <1>3 DEF CreateThinLv
  <2>2. v.want \in 0..MaxSize
    BY <1>1, PoolFields
  <2>3. a \in Lvm /\ b \in Lvm /\ d \in Lvm
    BY <1>0, <1>2, <2>2 DEF Lvm
  <2> HIDE DEF a, b, d
  <2>4. lvm' \in Lvm
    BY <1>2, <2>1, <2>3, SettledType
  <2>5. RecTypes'
    BY <1>0, <1>1, <2>1, EndsTypes, ContinueTypes, PcNames
  <2>6. RestTypes'
    BY <1>0, <2>1, <2>4 DEF RestTypes, ownerVars, boundVars
  <2> QED BY <2>5, <2>6, TypeParts
<1>4. CASE RecordThinLv(n)
  <2> DEFINE v == local[n]
             l == IF MustSnapshot(v) THEN Snap ELSE Vol
             w == [v EXCEPT !.status[l] = IF @ = "none" THEN "Inactive" ELSE @,
                            !.have = IF l = Vol THEN lvm.size ELSE @]
             p == ToCreate(n, w, lvm)
  <2>1. Write(n, w, n \in fresh, p)
    BY <1>4 DEF RecordThinLv
  <2>2. l \in LVs
    BY <1>0
  <2>3. p \in Pcs \cup {"retry"}
    BY NextSteps, PcNames
  <2> HIDE DEF l, p
  <2>4. w \in Pool
    BY <1>1, <1>2, <2>2, LvmFields DEF Pool
  <2> HIDE DEF w
  <2>5. RecTypes'
    BY <1>0, <2>1, <2>3, <2>4, WriteTypes
  <2>6. RestTypes'
    BY <1>0, <1>4 DEF RecordThinLv, RestTypes, ownerVars, boundVars
  <2> QED BY <2>5, <2>6, TypeParts
<1>5. CASE ActivateThinLvs(n)
  <2> DEFINE v == local[n]
             on(l) == [lvm EXCEPT !.lvs[l] = "active", !.lock = n]
             off(l) == [lvm EXCEPT !.lvs[l] = "inactive"]
             right(l) == [v EXCEPT !.status[l] = IF v.spec[l] = "Active" THEN "Active" ELSE "Inactive"]
  <2>1. PICK l \in LVs :
           \/ /\ lvm' = IF v.spec[l] = "Active" THEN on(l) ELSE Settled(off(l), n)
              /\ Continue(n, v, n \in fresh, ToActivate(n, v, lvm')) /\ UNCHANGED pool
           \/ Fail(n) /\ UNCHANGED <<pool, lvm>>
           \/ Write(n, right(l), n \in fresh, ToActivate(n, right(l), lvm)) /\ UNCHANGED lvm
    BY <1>5 DEF ActivateThinLvs, Listed
  <2>2. on(l) \in Lvm /\ off(l) \in Lvm
    BY <1>2 DEF Lvm
  <2>3. right(l) \in Pool
    BY <1>1 DEF Pool
  <2>4. ToActivate(n, v, lvm') \in Pcs \cup {"retry"} /\ ToActivate(n, right(l), lvm) \in Pcs \cup {"retry"}
    BY NextSteps, PcNames
  <2> HIDE DEF on, off, right
  <2>5. lvm' \in Lvm
    BY <1>2, <2>1, <2>2, SettledType
  <2>6. RecTypes'
    <3>1. PICK p \in Pcs \cup {"retry"} : p = ToActivate(n, v, lvm')
      BY <2>4
    <3>2. CASE Continue(n, v, n \in fresh, p) /\ UNCHANGED pool
      BY <1>0, <1>1, <3>2, ContinueTypes
    <3>3. CASE Fail(n) /\ UNCHANGED pool
      BY <1>0, <3>3, EndsTypes
    <3>4. CASE Write(n, right(l), n \in fresh, ToActivate(n, right(l), lvm))
      BY <1>0, <2>3, <2>4, <3>4, WriteTypes
    <3> QED BY <2>1, <3>1, <3>2, <3>3, <3>4
  <2>7. UNCHANGED <<leader, kind, ownerVars, dd, boundVars>>
    BY <1>5, Zenon DEF ActivateThinLvs
  <2>8. RestTypes'
    BY <1>0, <2>5, <2>7 DEF RestTypes, ownerVars, boundVars
  <2> QED BY <2>6, <2>8, TypeParts
<1>6. CASE DeleteThinLvs(n)
  <2> DEFINE v == local[n]
             gone == {l \in Removed(v) : lvm.lvs[l] # "active"}
             f == [l \in LVs |-> IF l \in gone THEN "none" ELSE lvm.lvs[l]]
             after == [lvm EXCEPT !.lvs = f]
  <2>1. /\ lvm' \in {lvm, Settled(after, n), [after EXCEPT !.lock = n], after}
        /\ Continue(n, v, n \in fresh, "deleted") \/ Fail(n)
        /\ UNCHANGED <<pool, leader, kind, ownerVars, dd, boundVars>>
    BY <1>6 DEF DeleteThinLvs
  <2>2. f \in [LVs -> {"none", "inactive", "active"}]
    BY <1>2, LvmFields
  <2> HIDE DEF f
  <2>3. after \in Lvm /\ [after EXCEPT !.lock = n] \in Lvm
    BY <1>2, <2>2 DEF Lvm
  <2> HIDE DEF after
  <2>4. lvm' \in Lvm
    BY <1>2, <2>1, <2>3, SettledType
  <2>5. RecTypes'
    BY <1>0, <1>1, <2>1, EndsTypes, ContinueTypes, PcNames
  <2>6. RestTypes'
    BY <1>0, <2>1, <2>4 DEF RestTypes, ownerVars, boundVars
  <2> QED BY <2>5, <2>6, TypeParts
<1>7. CASE RecordDeleted(n)
  <2> DEFINE v == DropRemoved(local[n])
             p == ToUnlock(n, v, lvm)
             f == [l \in LVs |-> IF l \in Removed(local[n]) THEN "none" ELSE local[n].status[l]]
  <2>1. Write(n, v, n \in fresh, p)
    BY <1>7 DEF RecordDeleted
  <2>2. f \in [LVs -> {"none", "Inactive", "Active"}]
    BY <1>1, PoolFields
  <2>3. v = [local[n] EXCEPT !.status = f]
    BY DEF DropRemoved
  <2>4. p \in Pcs \cup {"retry"}
    BY NextSteps, PcNames
  <2> HIDE DEF f, v, p
  <2>5. v \in Pool
    BY <1>1, <2>2, <2>3 DEF Pool
  <2>6. RecTypes'
    BY <1>0, <2>1, <2>4, <2>5, WriteTypes
  <2>7. RestTypes'
    BY <1>0, <1>7 DEF RecordDeleted, RestTypes, ownerVars, boundVars
  <2> QED BY <2>6, <2>7, TypeParts
<1>8. CASE UnlockPool(n)
  <2>1. [lvm EXCEPT !.up = FALSE] \in Lvm
    BY <1>2 DEF Lvm
  <2>2. lvm' \in Lvm
    BY <1>8, <2>1, SettledType DEF UnlockPool
  <2>3. RecTypes'
    BY <1>0, <1>8, EndsTypes DEF UnlockPool
  <2>4. RestTypes'
    BY <1>0, <1>8, <2>2 DEF UnlockPool, RestTypes, ownerVars, boundVars
  <2> QED BY <2>3, <2>4, TypeParts
<1> QED BY <1>3, <1>4, <1>5, <1>6, <1>7, <1>8

-----------------------------------------------------------------------------
(* The reconcilers of the cluster manager keep the types. *)

\* The reconciler of the LVM pool, and the garbage collector.
LEMMA PoolStepTypes ==
    ASSUME TypeOK,
           \/ CreatePoolLv \/ SetPoolAvailable \/ RemovePoolLv \/ RemovePoolFinalizer
           \/ GarbageCollect
    PROVE  TypeOK'
<1>0. RecTypes /\ RestTypes /\ PoolCtl \in Procs /\ PoolCtl \in Caches
  BY TypeParts, ProcsFacts
<1>1. cache[PoolCtl] \in Pool /\ local[PoolCtl] \in Pool /\ pool \in Pool
  BY <1>0 DEF RecTypes
<1>2. lvm \in Lvm
  BY <1>0 DEF RestTypes
<1>3. CASE CreatePoolLv
  <2>1. Continue(PoolCtl, cache[PoolCtl], cache[PoolCtl] = pool, "mkstatus") /\ pool' = pool
    BY <1>3 DEF CreatePoolLv
  <2>2. RecTypes'
    BY <1>0, <1>1, <2>1, ContinueTypes, PcNames
  <2>3. lvm' \in Lvm
    BY <1>2, <1>3 DEF CreatePoolLv, Lvm
  <2>4. RestTypes'
    BY <1>0, <1>3, <2>3 DEF CreatePoolLv, RestTypes, ownerVars, boundVars
  <2> QED BY <2>2, <2>4, TypeParts
<1>4. CASE SetPoolAvailable
  <2>1. [local[PoolCtl] EXCEPT !.avail = TRUE] \in Pool
    BY <1>1 DEF Pool
  <2>2. RecTypes'
    BY <1>0, <1>4, <2>1, WriteTypes, PcNames DEF SetPoolAvailable
  <2>3. RestTypes'
    BY <1>0, <1>4 DEF SetPoolAvailable, RestTypes, ownerVars, boundVars
  <2> QED BY <2>2, <2>3, TypeParts
<1>5. CASE RemovePoolLv
  <2>1. /\ Continue(PoolCtl, cache[PoolCtl], cache[PoolCtl] = pool, "rmfinal") \/ Fail(PoolCtl)
        /\ pool' = pool
    BY <1>5 DEF RemovePoolLv
  <2>2. RecTypes'
    BY <1>0, <1>1, <2>1, EndsTypes, ContinueTypes, PcNames
  <2>3. lvm' \in Lvm
    BY <1>2, <1>5 DEF RemovePoolLv, Lvm
  <2>4. RestTypes'
    BY <1>0, <1>5, <2>3 DEF RemovePoolLv, RestTypes, ownerVars, boundVars
  <2> QED BY <2>2, <2>4, TypeParts
<1>6. CASE RemovePoolFinalizer
  <2>1. [local[PoolCtl] EXCEPT !.phase = "gone"] \in Pool
    BY <1>1 DEF Pool
  <2>2. RecTypes'
    BY <1>0, <1>6, <2>1, WriteTypes, PcNames DEF RemovePoolFinalizer
  <2>3. RestTypes'
    BY <1>0, <1>6 DEF RemovePoolFinalizer, RestTypes, ownerVars, boundVars
  <2> QED BY <2>2, <2>3, TypeParts
<1>7. CASE GarbageCollect
  <2> DEFINE left == {l \in pool.refs : own[l] # "gone"}
  <2>1. left \subseteq LVs
    BY <1>1, PoolFields
  <2>2. [pool EXCEPT !.refs = left] \in Pool /\ [pool EXCEPT !.phase = "deleting"] \in Pool
    BY <1>1, <2>1 DEF Pool
  <2>3. pool' \in Pool /\ fresh' = {} /\ UNCHANGED <<cache, local, pc, queued>>
    BY <1>7, <2>2 DEF GarbageCollect
  <2>4. RecTypes' /\ RestTypes'
    BY <1>0, <1>7, <2>3 DEF GarbageCollect, RecTypes, RestTypes, ownerVars, boundVars
  <2> QED BY <2>4, TypeParts
<1> QED BY <1>3, <1>4, <1>5, <1>6, <1>7

\* What an owner asks for is a ThinPoolLv again.
LEMMA RequestTypes ==
    ASSUME NEW v \in Pool, NEW l \in LVs, size \in [spec: 1..MaxSize, status: 0..MaxSize]
    PROVE  /\ AddVol(v) \in Pool
           /\ [v EXCEPT !.refs = @ \cup {l}, !.spec[l] = IF @ = "none" THEN "Inactive" ELSE @] \in Pool
           /\ [v EXCEPT !.refs = @ \cup {l}, !.spec[l] = "Active"] \in Pool
           /\ [v EXCEPT !.spec[l] = IF @ = "Active" THEN "Inactive" ELSE @] \in Pool
           /\ [v EXCEPT !.spec[l] = "Removed"] \in Pool
           /\ [v EXCEPT !.spec[l] = "none"] \in Pool
           /\ [v EXCEPT !.refs = @ \ {l}] \in Pool
           /\ [v EXCEPT !.phase = "deleting"] \in Pool
<1>1. size.spec \in 0..MaxSize /\ Vol \in LVs
  BY BoundsAssumption DEF LVs
<1>2. AddVol(v) \in Pool
  BY <1>1 DEF AddVol, Pool
<1>3. /\ [v EXCEPT !.refs = @ \cup {l}, !.spec[l] = IF @ = "none" THEN "Inactive" ELSE @] \in Pool
      /\ [v EXCEPT !.refs = @ \cup {l}, !.spec[l] = "Active"] \in Pool
  BY DEF Pool
<1>4. /\ [v EXCEPT !.spec[l] = IF @ = "Active" THEN "Inactive" ELSE @] \in Pool
      /\ [v EXCEPT !.spec[l] = "Removed"] \in Pool
      /\ [v EXCEPT !.spec[l] = "none"] \in Pool
  BY DEF Pool
<1>5. /\ [v EXCEPT !.refs = @ \ {l}] \in Pool
      /\ [v EXCEPT !.phase = "deleting"] \in Pool
  BY DEF Pool
<1> QED BY <1>2, <1>3, <1>4, <1>5

\* The owners' calls that only touch the ThinPoolLv.
OwnerCall(l) ==
    \/ l = Vol /\ (CreateBlob \/ CreateBlobInNewPool)
    \/ l = Snap /\ (SnapshotBlob \/ ActivateBlobForCloneSource)
    \/ DeactivateBlob(l) \/ RemoveBlob(l) \/ ForgetRemovedThinLv(l) \/ DropReference(l)

\* They keep the types.
LEMMA OwnerCallTypes ==
    ASSUME TypeOK, NEW l \in LVs, OwnerCall(l)
    PROVE  TypeOK'
<1>0. RecTypes /\ RestTypes /\ l \in Procs /\ PoolCtl \in Caches /\ leader \in Nodes
  BY TypeParts, ProcsFacts DEF RestTypes
<1>1. Cached \in Pool /\ local[l] \in Pool /\ pool \in Pool
  BY <1>0 DEF RecTypes, Cached
<1>2. size \in [spec: 1..MaxSize, status: 0..MaxSize]
  BY <1>0 DEF RestTypes
<1>3. RestTypes'
  BY <1>0 DEF OwnerCall, CreateBlob, CreateBlobInNewPool, SnapshotBlob,
     ActivateBlobForCloneSource, DeactivateBlob, RemoveBlob, ForgetRemovedThinLv, DropReference,
     RestTypes, ownerVars, boundVars
<1>p. Pending(l) \in Pcs \cup {"retry"} /\ \A v : AfterRequest(l, v) \in Pcs \cup {"retry"}
  BY PcNames DEF Pending, AfterRequest
<1>4. CASE l = Vol /\ CreateBlob
  <2>1. RecTypes'
    <3>1. CASE Write(l, NewPool, TRUE, "add")
      BY <1>0, <3>1, NullTypes, WriteTypes, PcNames
    <3>2. CASE Fail(l) /\ UNCHANGED pool
      BY <1>0, <3>2, EndsTypes
    <3>3. CASE UpdateThinPoolLv(l, Cached, AddVol(Cached), CachedIsFresh,
                                IF VolExists(Cached) THEN "ready" ELSE "idle")
      BY <1>0, <1>1, <1>2, <3>3, RequestTypes, UpdateTypes, PcNames
    <3> QED BY <1>4, <3>1, <3>2, <3>3 DEF CreateBlob
  <2> QED BY <1>3, <2>1, TypeParts
<1>5. CASE l = Vol /\ CreateBlobInNewPool
  <2>1. UpdateThinPoolLv(l, local[l], AddVol(local[l]), l \in fresh, "idle")
    BY <1>5 DEF CreateBlobInNewPool
  <2>2. RecTypes'
    BY <1>0, <1>1, <1>2, <2>1, RequestTypes, UpdateTypes, PcNames
  <2> QED BY <1>3, <2>2, TypeParts
<1>6. CASE l = Snap /\ SnapshotBlob
  <2> DEFINE v == [Cached EXCEPT !.refs = @ \cup {l}, !.spec[l] = IF @ = "none" THEN "Inactive" ELSE @]
             p == IF Cached.status[l] # "none"
                  THEN IF kind = "Snapshot" THEN "ready" ELSE "activate" ELSE "idle"
  <2>1. v \in Pool
    BY <1>1, <1>2, RequestTypes
  <2>2. p \in Pcs \cup {"retry"}
    BY PcNames
  <2>3. UpdateThinPoolLv(l, Cached, v, CachedIsFresh, p) \/ (Fail(l) /\ UNCHANGED pool)
    BY <1>6 DEF SnapshotBlob
  <2> HIDE DEF v, p
  <2>4. RecTypes'
    BY <1>0, <1>1, <2>1, <2>2, <2>3, EndsTypes, UpdateTypes
  <2> QED BY <1>3, <2>4, TypeParts
<1>7. CASE l = Snap /\ ActivateBlobForCloneSource
  <2> DEFINE v == [Cached EXCEPT !.refs = @ \cup {l}, !.spec[l] = "Active"]
             p == IF Cached.status[l] = "Active" THEN "label" ELSE "idle"
  <2>1. v \in Pool
    BY <1>1, <1>2, RequestTypes
  <2>2. p \in Pcs \cup {"retry"}
    BY PcNames
  <2>3. UpdateThinPoolLv(l, Cached, v, CachedIsFresh, p)
    BY <1>7 DEF ActivateBlobForCloneSource
  <2> HIDE DEF v, p
  <2>4. RecTypes'
    BY <1>0, <1>1, <2>1, <2>2, <2>3, UpdateTypes
  <2> QED BY <1>3, <2>4, TypeParts
<1>8. CASE DeactivateBlob(l)
  <2> DEFINE v == [Cached EXCEPT !.spec[l] = IF @ = "Active" THEN "Inactive" ELSE @]
             p == IF Cached.status[l] = "Active" THEN Pending(l) ELSE "remove"
  <2>1. v \in Pool
    BY <1>1, <1>2, RequestTypes
  <2>2. p \in Pcs \cup {"retry"}
    BY <1>p, PcNames
  <2>3. \/ Continue(l, NoPool, FALSE, "remove") /\ UNCHANGED pool
        \/ UpdateThinPoolLv(l, Cached, v, CachedIsFresh, p)
    BY <1>8 DEF DeactivateBlob
  <2> HIDE DEF v, p
  <2>4. RecTypes'
    BY <1>0, <1>1, <2>1, <2>2, <2>3, NullTypes, PcNames, ContinueTypes, UpdateTypes
  <2> QED BY <1>3, <2>4, TypeParts
<1>9. CASE RemoveBlob(l)
  <2> DEFINE v == [Cached EXCEPT !.spec[l] = "Removed"]
  <2>1. v \in Pool
    BY <1>1, <1>2, RequestTypes
  <2>2. \/ Continue(l, NoPool, FALSE, "finish") /\ UNCHANGED pool
        \/ Continue(l, Cached, CachedIsFresh, "drop") /\ UNCHANGED pool
        \/ UpdateThinPoolLv(l, Cached, v, CachedIsFresh, AfterRequest(l, Cached))
    BY <1>9 DEF RemoveBlob
  <2> HIDE DEF v
  <2>3. RecTypes'
    BY <1>0, <1>1, <1>p, <2>1, <2>2, NullTypes, PcNames, ContinueTypes, UpdateTypes
  <2> QED BY <1>3, <2>3, TypeParts
<1>10. CASE ForgetRemovedThinLv(l)
  <2> DEFINE v == [local[l] EXCEPT !.spec[l] = "none"]
  <2>1. v \in Pool
    BY <1>1, <1>2, RequestTypes
  <2>2. Write(l, Recalc(v), l \in fresh, "forgot")
    BY <1>10 DEF ForgetRemovedThinLv
  <2> HIDE DEF v
  <2>3. RecTypes'
    BY <1>0, <2>1, <2>2, RecalcFacts, PcNames, WriteTypes
  <2> QED BY <1>3, <2>3, TypeParts
<1>11. CASE DropReference(l)
  <2> DEFINE v == [local[l] EXCEPT !.refs = @ \ {l}]
             same == pc[l] = "drop" /\ Recalc(v) = local[l]
  <2>1. v \in Pool /\ [pool EXCEPT !.phase = "deleting"] \in Pool
    BY <1>1, <1>2, RequestTypes
  <2>2. \/ /\ pool' = [pool EXCEPT !.phase = "deleting"]
           /\ pc' = [pc EXCEPT ![l] = IF same THEN "finish" ELSE "idle"]
           /\ local' = [local EXCEPT ![l] = NoPool]
           /\ queued' = [queued EXCEPT ![l] = @ \/ ~same]
           /\ fresh' = IF pool.phase = "live" THEN {} ELSE fresh \ {l}
           /\ UNCHANGED cache
        \/ Continue(l, local[l], FALSE, "finish") /\ UNCHANGED pool
        \/ Write(l, Recalc(v), l \in fresh, "finish")
        \/ UpdateThinPoolLv(l, local[l], v, l \in fresh, "finish")
    BY <1>11 DEF DropReference
  <2> HIDE DEF v
  <2>3. RecTypes'
    <3>3. CASE /\ pool' = [pool EXCEPT !.phase = "deleting"]
               /\ pc' = [pc EXCEPT ![l] = IF same THEN "finish" ELSE "idle"]
               /\ local' = [local EXCEPT ![l] = NoPool]
               /\ queued' = [queued EXCEPT ![l] = @ \/ ~same]
               /\ fresh' = IF pool.phase = "live" THEN {} ELSE fresh \ {l}
               /\ UNCHANGED cache
      <4>1. (IF same THEN "finish" ELSE "idle") \in Pcs
        BY PcNames
      <4> HIDE DEF same
      <4>2. pc' \in [Procs -> Pcs]
        BY <1>0, <3>3, <4>1 DEF RecTypes
      <4>3. local' \in [Procs -> Pool]
        BY <1>0, <3>3, NullTypes DEF RecTypes
      <4>4. queued' \in [Procs -> BOOLEAN]
        BY <1>0, <3>3 DEF RecTypes
      <4> QED BY <1>0, <2>1, <3>3, <4>2, <4>3, <4>4 DEF RecTypes
    <3>4. CASE Continue(l, local[l], FALSE, "finish") /\ UNCHANGED pool
      BY <1>0, <1>1, <3>4, PcNames, ContinueTypes
    <3>5. CASE Write(l, Recalc(v), l \in fresh, "finish")
      BY <1>0, <2>1, <3>5, RecalcFacts, PcNames, WriteTypes
    <3>6. CASE UpdateThinPoolLv(l, local[l], v, l \in fresh, "finish")
      BY <1>0, <1>1, <2>1, <3>6, PcNames, UpdateTypes
    <3> QED BY <2>2, <3>3, <3>4, <3>5, <3>6
  <2> QED BY <1>3, <2>3, TypeParts
<1> QED BY <1>4, <1>5, <1>6, <1>7, <1>8, <1>9, <1>10, <1>11 DEF OwnerCall

\* The owners' steps that end a reconcile, of any process.
LEMMA OwnerEndTypes ==
    ASSUME TypeOK,
           \/ \E c \in Procs : NothingToDo(c)
           \/ \E l \in LVs : BlobReady(l) \/ FinishOwner(l)
           \/ LabelTarget
    PROVE  TypeOK'
<1>0. RecTypes /\ RestTypes /\ Snap \in LVs /\ PoolCtl \in Caches /\ \A l \in LVs : l \in Procs
  BY TypeParts, ProcsFacts
<1>1. CASE \E c \in Procs : NothingToDo(c)
  <2>1. PICK c \in Procs : NothingToDo(c)
    BY <1>1
  <2>2. RecTypes'
    BY <1>0, <2>1, EndsTypes DEF NothingToDo
  <2>3. RestTypes'
    BY <1>0, <2>1 DEF NothingToDo, RestTypes, ownerVars, boundVars
  <2> QED BY <2>2, <2>3, TypeParts
<1>2. CASE \E l \in LVs : BlobReady(l)
  <2>1. PICK l \in LVs : BlobReady(l)
    BY <1>2
  <2>2. RecTypes'
    BY <1>0, <2>1, EndsTypes DEF BlobReady
  <2>3. local[l].have \in 0..MaxSize
    BY <1>0, PoolFields DEF RecTypes
  <2>4. size' \in [spec: 1..MaxSize, status: 0..MaxSize]
    BY <1>0, <2>1, <2>3 DEF BlobReady, RestTypes
  <2>5. own' \in [LVs -> {"absent", "wanted", "labelled", "copied", "ready", "gone"}]
    BY <1>0, <2>1 DEF BlobReady, RestTypes
  <2>6. RestTypes'
    BY <1>0, <2>1, <2>4, <2>5 DEF BlobReady, RestTypes, boundVars
  <2> QED BY <2>2, <2>6, TypeParts
<1>3. CASE \E l \in LVs : FinishOwner(l)
  <2>1. PICK l \in LVs : FinishOwner(l)
    BY <1>3
  <2>2. RecTypes'
    BY <1>0, <2>1, EndsTypes DEF FinishOwner
  <2>3. own' \in [LVs -> {"absent", "wanted", "labelled", "copied", "ready", "gone"}]
    BY <1>0, <2>1 DEF FinishOwner, RestTypes
  <2>4. RestTypes'
    BY <1>0, <2>1, <2>3 DEF FinishOwner, RestTypes, boundVars
  <2> QED BY <2>2, <2>4, TypeParts
<1>4. CASE LabelTarget
  <2>1. RecTypes'
    BY <1>0, <1>4, EndsTypes DEF LabelTarget
  <2>2. PopulationNode(Cached) \in Nodes \cup {None}
    BY <1>0, PoolFields DEF PopulationNode, Cached, RecTypes, RestTypes
  <2>3. label' \in Nodes \cup {None}
    BY <1>0, <1>4, <2>2 DEF LabelTarget, RestTypes
  <2>4. own' \in [LVs -> {"absent", "wanted", "labelled", "copied", "ready", "gone"}]
    BY <1>0, <1>4 DEF LabelTarget, RestTypes
  <2>5. RestTypes'
    BY <1>0, <1>4, <2>3, <2>4 DEF LabelTarget, RestTypes, boundVars
  <2> QED BY <2>1, <2>5, TypeParts
<1> QED BY <1>1, <1>2, <1>3, <1>4

\* Watches, dd, users and faults keep the types.
LEMMA WorldTypes ==
    ASSUME TypeOK,
           \/ \E c \in Caches : WatchEvent(c)
           \/ StartDd \/ FinishDd \/ CancelDd \/ RequestSnap
           \/ \E s \in 2..MaxSize : Expand(s)
           \/ \E l \in LVs : Delete(l)
           \/ \E n \in Nodes : Fault(n)
    PROVE  TypeOK'
<1>0. /\ RecTypes /\ RestTypes /\ NoPool \in Pool /\ "idle" \in Pcs
      /\ PoolCtl \in Caches /\ Snap \in LVs /\ Vol \in LVs
      /\ \A l \in LVs : l \in Procs
      /\ \A n \in Nodes : n \in Procs /\ n \in Caches
  BY TypeParts, ProcsFacts, NullTypes, PcNames
<1>1. CASE \E c \in Caches : WatchEvent(c)
  <2>1. PICK c \in Caches : WatchEvent(c)
    BY <1>1
  <2>2. cache' \in [Caches -> Pool]
    BY <1>0, <2>1 DEF WatchEvent, RecTypes
  <2>3. queued' \in [Procs -> BOOLEAN]
    BY <1>0, <2>1 DEF WatchEvent, RecTypes
  <2>4. RecTypes' /\ RestTypes'
    BY <1>0, <2>1, <2>2, <2>3 DEF WatchEvent, RecTypes, RestTypes, ownerVars, boundVars
  <2> QED BY <2>4, TypeParts
<1>2. CASE StartDd \/ CancelDd
  <2>1. RecTypes' /\ RestTypes'
    BY <1>0, <1>2 DEF StartDd, CancelDd, RecTypes, RestTypes, reconcileVars, ownerVars, boundVars
  <2> QED BY <2>1, TypeParts
<1>3. CASE FinishDd \/ RequestSnap
  <2>1. queued' \in [Procs -> BOOLEAN]
    BY <1>0, <1>3 DEF FinishDd, RequestSnap, RecTypes
  <2>2. own' \in [LVs -> {"absent", "wanted", "labelled", "copied", "ready", "gone"}]
    BY <1>0, <1>3 DEF FinishDd, RequestSnap, RestTypes
  <2>3. RecTypes' /\ RestTypes'
    BY <1>0, <1>3, <2>1, <2>2 DEF FinishDd, RequestSnap, RecTypes, RestTypes, boundVars
  <2> QED BY <2>3, TypeParts
<1>4. CASE \E s \in 2..MaxSize : Expand(s)
  <2>1. PICK s \in 2..MaxSize : Expand(s)
    BY <1>4
  <2>2. queued' \in [Procs -> BOOLEAN]
    BY <1>0, <2>1 DEF Expand, RecTypes
  <2>3. size' \in [spec: 1..MaxSize, status: 0..MaxSize]
    BY <1>0, <2>1, BoundsAssumption DEF Expand, RestTypes
  <2>4. RecTypes' /\ RestTypes'
    BY <1>0, <2>1, <2>2, <2>3 DEF Expand, RecTypes, RestTypes, boundVars
  <2> QED BY <2>4, TypeParts
<1>5. CASE \E l \in LVs : Delete(l)
  <2>1. PICK l \in LVs : Delete(l)
    BY <1>5
  <2>2. queued' \in [Procs -> BOOLEAN]
    BY <1>0, <2>1 DEF Delete, RecTypes
  <2>3. RecTypes' /\ RestTypes'
    BY <1>0, <2>1, <2>2 DEF Delete, RecTypes, RestTypes, boundVars
  <2> QED BY <2>3, TypeParts
<1>6. CASE \E n \in Nodes : RestartNode(n) \/ RebootNode(n)
  <2>1. PICK n \in Nodes : RestartNode(n) \/ RebootNode(n)
    BY <1>6
  <2>2. Restarted(n)
    BY <2>1 DEF RestartNode, RebootNode
  <2>3. RecTypes'
    BY <1>0, <2>2 DEF Restarted, RecTypes
  <2>4. lvm' \in Lvm
    <3> DEFINE f == [l \in LVs |-> IF lvm.lvs[l] = "active" THEN "inactive" ELSE lvm.lvs[l]]
    <3>1. lvm' = lvm \/ lvm' = [lvm EXCEPT !.lock = None, !.up = FALSE, !.lvs = f]
      BY <2>1 DEF RestartNode, RebootNode
    <3>2. lvm \in Lvm /\ f \in [LVs -> {"none", "inactive", "active"}]
      BY <1>0, LvmFields DEF RestTypes
    <3> HIDE DEF f
    <3> QED BY <3>1, <3>2 DEF Lvm
  <2>5. faults' \in 0..MaxFaults
    BY <1>0, <2>2, BoundsAssumption DEF Restarted, RestTypes
  <2>6. RestTypes'
    BY <1>0, <2>2, <2>4, <2>5 DEF Restarted, RestTypes, ownerVars
  <2> QED BY <2>3, <2>6, TypeParts
<1>7. CASE \E n \in Nodes : Election(n)
  <2>1. PICK n \in Nodes : Election(n)
    BY <1>7
  <2>2. RecTypes'
    BY <1>0, <2>1 DEF Election, RecTypes
  <2>3. elections' \in 0..MaxElections
    BY <1>0, <2>1, BoundsAssumption DEF Election, RestTypes
  <2>4. RestTypes'
    BY <1>0, <2>1, <2>3 DEF Election, RestTypes, ownerVars
  <2> QED BY <2>2, <2>4, TypeParts
<1> QED BY <1>1, <1>2, <1>3, <1>4, <1>5, <1>6, <1>7 DEF Fault

\* A step is one of the kinds that the lemmas are about.
LEMMA StepKinds ==
    ASSUME Next
    PROVE  \/ \E n \in Nodes :
                ActivatePool(n) \/ RecordActive(n) \/ DeactivatePool(n) \/ RecordInactive(n)
           \/ \E n \in Nodes :
                \/ CreateThinLv(n) \/ RecordThinLv(n) \/ ActivateThinLvs(n)
                \/ DeleteThinLvs(n) \/ RecordDeleted(n) \/ UnlockPool(n)
           \/ CreatePoolLv \/ SetPoolAvailable \/ RemovePoolLv \/ RemovePoolFinalizer
           \/ GarbageCollect
           \/ \E l \in LVs : OwnerCall(l)
           \/ \E c \in Procs : NothingToDo(c)
           \/ \E l \in LVs : BlobReady(l) \/ FinishOwner(l)
           \/ LabelTarget
           \/ \E c \in Caches : WatchEvent(c)
           \/ StartDd \/ FinishDd \/ CancelDd \/ RequestSnap
           \/ \E s \in 2..MaxSize : Expand(s)
           \/ \E l \in LVs : Delete(l)
           \/ \E n \in Nodes : Fault(n)
<1>1. /\ Vol \in LVs /\ Snap \in LVs
      /\ Vol \in Procs /\ Snap \in Procs /\ PoolCtl \in Procs /\ \A n \in Nodes : n \in Procs
  BY ProcsFacts
<1>2. CASE PoolStep
  BY <1>1, <1>2 DEF PoolStep
<1>3. CASE VolStep
  BY <1>1, <1>3 DEF VolStep, OwnerCall
<1>4. CASE SnapStep
  BY <1>1, <1>4 DEF SnapStep, OwnerCall
<1>5. CASE \E n \in Nodes : NodeStep(n)
  BY <1>1, <1>5 DEF NodeStep
<1> QED BY <1>2, <1>3, <1>4, <1>5 DEF Next, PatientNext

\* Every step keeps the types.
LEMMA TypesKept == TypeOK /\ [Next]_vars => TypeOK'
<1> SUFFICES ASSUME TypeOK, [Next]_vars PROVE TypeOK'
  OBVIOUS
<1>1. CASE UNCHANGED vars
  BY <1>1 DEF vars, reconcileVars, ownerVars, boundVars, TypeOK
<1>2. CASE Next
  BY <1>2, StepKinds, PoolActivationTypes, ThinLvTypes, PoolStepTypes, OwnerCallTypes,
     OwnerEndTypes, WorldTypes
<1> QED BY <1>1, <1>2

\* The initial state has the types.
LEMMA InitTypes == Init => TypeOK
<1> SUFFICES ASSUME Init PROVE TypeOK
  OBVIOUS
<1>1. RecTypes
  BY NullTypes, PcNames DEF Init, RecTypes
<1>2. 0 \in 0..MaxSize /\ 1 \in 1..MaxSize /\ 0 \in 0..MaxFaults /\ 0 \in 0..MaxElections
  BY BoundsAssumption
<1>3. RestTypes
  BY <1>2 DEF Init, RestTypes, Lvm
<1> QED BY <1>1, <1>3, TypeParts

\* Every variable keeps its type, whoever is deleted when and whatever restarts.
THEOREM TypeCorrect == Spec => []TypeOK
BY InitTypes, TypesKept, PTL DEF Spec

-----------------------------------------------------------------------------
(* Spec covers Status. A write is made from a copy that is the object on the  *)
(* server, so it is enough to know what each step does to such a copy.        *)
(* DeactivatePool has by then changed its copy, but not which thin LVs it     *)
(* lists.                                                                     *)

\* Two copies have the same thin LVs in Spec and in Status.
SameLists(v, w) ==
    /\ v.spec = w.spec
    /\ \A l \in LVs : v.status[l] = "none" <=> w.status[l] = "none"

\* Every thin LV in Status is in Spec.
Covers(v) == \A l \in LVs : v.status[l] # "none" => v.spec[l] # "none"

\* There is something for reconcileThinLvCreation to do.
ToMake(v) == MustCreate(v) \/ MustExpand(v) \/ MustSnapshot(v)

\* A fresh copy lists the thin LVs of the object.
FreshCopies == \A c \in fresh : SameLists(local[c], pool)

\* What a process at step p knows of its copy v.
Knows(c, v, p) ==
    /\ c \in Nodes /\ p \in {"create", "record"} => ToMake(v)
    /\ c \in LVs /\ p = "forget" => v.status[c] = "none"

AllKnow == \A c \in Procs : Knows(c, local[c], pc[c])

CoverInv == FreshCopies /\ AllKnow /\ SpecCoversStatus

\* A step goes to a creation only if there is something to make.
LEMMA NextKnows ==
    ASSUME NEW n \in Nodes, NEW v, NEW m
    PROVE  /\ Knows(n, v, ToCreate(n, v, m)) /\ Knows(n, v, AfterPool(n, v, m))
           /\ Knows(n, v, ToActivate(n, v, m)) /\ Knows(n, v, ToUnlock(n, v, m))
<1>1. n \notin LVs
  BY ProcsFacts
<1>2. ToCreate(n, v, m) \in {"create", "record"} => ToMake(v)
  BY NextSteps DEF ToCreate, ToMake
<1>3. AfterPool(n, v, m) \in {"create", "record"} => ToMake(v)
  BY <1>2 DEF AfterPool
<1>4. ToActivate(n, v, m) \notin {"create", "record"} /\ ToUnlock(n, v, m) \notin {"create", "record"}
  BY NextSteps
<1> QED BY <1>1, <1>2, <1>3, <1>4 DEF Knows

\* A reconcile that ends keeps the invariant,
LEMMA EndsCover ==
    ASSUME TypeOK, CoverInv, NEW c \in Procs, Return(c) \/ Fail(c), pool' = pool
    PROVE  CoverInv'
<1>1. /\ pc' = [pc EXCEPT ![c] = "idle"]
      /\ local' = [local EXCEPT ![c] = NoPool]
      /\ fresh' = fresh \ {c}
  BY DEF Return, Fail, Ends
<1>2. FreshCopies'
  BY <1>1 DEF TypeOK, CoverInv, FreshCopies, SameLists
<1>3. AllKnow'
  BY <1>1 DEF TypeOK, CoverInv, AllKnow, Knows, ToMake, MustCreate, MustExpand, MustSnapshot, Wanted
<1> QED BY <1>2, <1>3 DEF CoverInv, SpecCoversStatus

\* one that goes on, if a fresh copy is the object and the step knows what it needs,
LEMMA ContinueCover ==
    ASSUME TypeOK, CoverInv, NEW c \in Procs, NEW v \in Pool, NEW isFresh, NEW p,
           Continue(c, v, isFresh, p), pool' = pool,
           isFresh => SameLists(v, pool),
           Knows(c, v, p)
    PROVE  CoverInv'
<1>1. CASE Return(c) \/ Fail(c)
  BY <1>1, EndsCover
<1>2. CASE /\ pc' = [pc EXCEPT ![c] = p]
           /\ local' = [local EXCEPT ![c] = v]
           /\ fresh' = IF isFresh THEN fresh \cup {c} ELSE fresh \ {c}
  <2>1. FreshCopies'
    BY <1>2 DEF TypeOK, CoverInv, FreshCopies, SameLists
  <2>2. \A q \in Procs : Knows(q, local'[q], pc'[q])
    BY <1>2 DEF TypeOK, CoverInv, AllKnow
  <2>3. AllKnow'
    BY <2>2 DEF AllKnow, Knows, ToMake, MustCreate, MustExpand, MustSnapshot, Wanted
  <2> QED BY <2>1, <2>3 DEF CoverInv, SpecCoversStatus
<1> QED BY <1>1, <1>2 DEF Continue

\* one that writes a copy that covers its Status,
LEMMA WriteCover ==
    ASSUME TypeOK, CoverInv, NEW c \in Procs, NEW v \in Pool, NEW isFresh, NEW p,
           Write(c, v, isFresh, p), isFresh => Covers(v), Knows(c, v, p)
    PROVE  CoverInv'
<1>1. CASE Fail(c) /\ UNCHANGED pool
  BY <1>1, EndsCover
<1>2. CASE ~(Fail(c) /\ UNCHANGED pool)
  <2> DEFINE ends == p \in {"idle", "retry"}
  <2>1. /\ pool' = v /\ isFresh
        /\ pc' = [pc EXCEPT ![c] = IF ends THEN "idle" ELSE p]
        /\ local' = [local EXCEPT ![c] = IF ends THEN NoPool ELSE v]
        /\ fresh' = {q \in fresh \cup {c} : IF q = c THEN ~ends ELSE v = pool}
    BY <1>2 DEF Write
  <2>2. Knows(c, IF ends THEN NoPool ELSE v, IF ends THEN "idle" ELSE p)
    BY DEF Knows
  <2> HIDE DEF ends
  <2>3. FreshCopies'
    BY <2>1 DEF TypeOK, CoverInv, FreshCopies, SameLists
  <2>4. \A q \in Procs : Knows(q, local'[q], pc'[q])
    BY <2>1, <2>2 DEF TypeOK, CoverInv, AllKnow
  <2>5. AllKnow'
    BY <2>4 DEF AllKnow, Knows, ToMake, MustCreate, MustExpand, MustSnapshot, Wanted
  <2>6. SpecCoversStatus'
    BY <2>1 DEF Covers, SpecCoversStatus
  <2> QED BY <2>3, <2>5, <2>6 DEF CoverInv
<1> QED BY <1>1, <1>2

\* and one that calls UpdateThinPoolLv with such a copy.
LEMMA UpdateCover ==
    ASSUME TypeOK, CoverInv, NEW c \in Procs, NEW old \in Pool, NEW v \in Pool,
           NEW isFresh, NEW p,
           UpdateThinPoolLv(c, old, v, isFresh, p),
           isFresh => SameLists(old, pool) /\ Covers(v), p # "forget" \/ v.status[c] = "none", c \in LVs
    PROVE  CoverInv'
<1>0. leader \in Nodes /\ c \notin Nodes
  BY ProcsFacts DEF TypeOK
<1>1. /\ Recalc(v) \in Pool /\ Recalc(v).spec = v.spec /\ Recalc(v).status = v.status
  BY <1>0, RecalcFacts
<1>2. Knows(c, Recalc(v), p) /\ (isFresh => Covers(Recalc(v)))
  BY <1>0, <1>1 DEF Knows, Covers
<1>3. CASE Write(c, Recalc(v), isFresh, p)
  BY <1>1, <1>2, <1>3, WriteCover
<1>4. CASE Recalc(v) = old /\ Continue(c, old, isFresh, p) /\ UNCHANGED pool
  <2>1. Knows(c, old, p)
    BY <1>2, <1>4
  <2> QED BY <1>4, <2>1, ContinueCover
<1> QED BY <1>3, <1>4 DEF UpdateThinPoolLv

\* A fresh copy covers its Status.
LEMMA FreshCovers ==
    ASSUME CoverInv, NEW c \in fresh
    PROVE  Covers(local[c]) /\ SameLists(local[c], pool)
BY DEF CoverInv, FreshCopies, SameLists, Covers, SpecCoversStatus

\* The node reconciler reports only thin LVs that Spec asks for.
LEMMA NodeCover ==
    ASSUME TypeOK, CoverInv, NEW n \in Nodes,
           \/ ActivatePool(n) \/ RecordActive(n) \/ DeactivatePool(n) \/ RecordInactive(n)
           \/ CreateThinLv(n) \/ RecordThinLv(n) \/ ActivateThinLvs(n)
           \/ DeleteThinLvs(n) \/ RecordDeleted(n) \/ UnlockPool(n)
    PROVE  CoverInv'
<1>0. n \in Procs /\ n \in Caches /\ n \notin LVs /\ Vol \in LVs /\ Snap \in LVs /\ Vol # Snap
  BY ProcsFacts
<1>1. cache[n] \in Pool /\ local[n] \in Pool /\ pool \in Pool
  BY <1>0 DEF TypeOK
<1>2. Knows(n, local[n], pc[n])
  BY <1>0 DEF CoverInv, AllKnow
<1>3. \A v : SameLists(v, v)
  BY DEF SameLists
<1>4. CASE ActivatePool(n)
  <2>1. /\ Return(n) \/ Fail(n) \/ Continue(n, cache[n], cache[n] = pool, "up")
        /\ pool' = pool
    BY <1>4 DEF ActivatePool
  <2>2. Knows(n, cache[n], "up") /\ (cache[n] = pool => SameLists(cache[n], pool))
    BY <1>3 DEF Knows
  <2> QED BY <1>0, <1>1, <2>1, <2>2, EndsCover, ContinueCover
<1>5. CASE RecordActive(n) \/ RecordInactive(n)
  <2> DEFINE v == [local[n] EXCEPT !.active = TRUE, !.statusNode = n]
             w == [local[n] EXCEPT !.active = FALSE, !.statusNode = None]
             p == AfterPool(n, v, lvm)
             q == AfterPool(n, w, lvm)
  <2>1. \/ Write(n, v, n \in fresh, p)
        \/ Continue(n, v, n \in fresh, p) /\ UNCHANGED pool
        \/ Write(n, w, n \in fresh, q)
        \/ Continue(n, w, n \in fresh, q) /\ UNCHANGED pool
    BY <1>5 DEF RecordActive, RecordInactive
  <2>2. /\ v \in Pool /\ v.spec = local[n].spec /\ v.status = local[n].status
        /\ w \in Pool /\ w.spec = local[n].spec /\ w.status = local[n].status
    BY <1>1 DEF Pool
  <2>3. Knows(n, v, p) /\ Knows(n, w, q)
    BY NextKnows
  <2> HIDE DEF v, w, p, q
  <2>4. v \in Pool /\ w \in Pool
    BY <2>2
  <2>5. (n \in fresh => Covers(v)) /\ (n \in fresh => Covers(w))
    BY <2>2, FreshCovers DEF Covers
  <2>6. (n \in fresh => SameLists(v, pool)) /\ (n \in fresh => SameLists(w, pool))
    BY <2>2, FreshCovers DEF SameLists
  <2>7. CASE Write(n, v, n \in fresh, p)
    BY <1>0, <2>3, <2>4, <2>5, <2>7, WriteCover
  <2>8. CASE Continue(n, v, n \in fresh, p) /\ UNCHANGED pool
    BY <1>0, <2>3, <2>4, <2>6, <2>8, ContinueCover
  <2>9. CASE Write(n, w, n \in fresh, q)
    BY <1>0, <2>3, <2>4, <2>5, <2>9, WriteCover
  <2>10. CASE Continue(n, w, n \in fresh, q) /\ UNCHANGED pool
    BY <1>0, <2>3, <2>4, <2>6, <2>10, ContinueCover
  <2> QED BY <2>1, <2>7, <2>8, <2>9, <2>10
<1>6. CASE DeactivatePool(n)
  <2> DEFINE v == cache[n]
             g == [l \in LVs |-> IF l \in Listed(v) THEN "Inactive" ELSE "none"]
             w == [v EXCEPT !.status = g]
             p == AfterPool(n, v, lvm)
  <2>1. /\ pool' = pool
        /\ \/ Continue(n, v, v = pool, p)
           \/ Continue(n, w, v = pool, "down")
           \/ Fail(n)
    BY <1>6 DEF DeactivatePool
  <2>2. w \in Pool /\ w.spec = v.spec /\ w.status = g
    BY <1>1 DEF Pool
  <2>3. SameLists(w, v)
    BY <1>1, <2>2, PoolFields DEF SameLists, Listed
  <2>4. Knows(n, v, p) /\ Knows(n, w, "down")
    BY <1>0, NextKnows DEF Knows
  <2> HIDE DEF w, p
  <2>5. CASE Continue(n, v, v = pool, p)
    BY <1>0, <1>1, <1>3, <2>1, <2>4, <2>5, ContinueCover
  <2>6. CASE Continue(n, w, v = pool, "down")
    BY <1>0, <2>1, <2>2, <2>3, <2>4, <2>6, ContinueCover
  <2>7. CASE Fail(n)
    BY <1>0, <2>1, <2>7, EndsCover
  <2> QED BY <2>1, <2>5, <2>6, <2>7
<1>7. CASE CreateThinLv(n)
  <2>1. /\ pc[n] = "create" /\ pool' = pool
        /\ Continue(n, local[n], n \in fresh, "record") \/ Fail(n)
    BY <1>7 DEF CreateThinLv
  <2>2. Knows(n, local[n], "record")
    BY <1>0, <1>2, <2>1 DEF Knows
  <2>3. n \in fresh => SameLists(local[n], pool)
    BY FreshCovers
  <2> QED BY <1>0, <1>1, <2>1, <2>2, <2>3, EndsCover, ContinueCover
<1>8. CASE RecordThinLv(n)
  <2> DEFINE v == local[n]
             l == IF MustSnapshot(v) THEN Snap ELSE Vol
             w == [v EXCEPT !.status[l] = IF @ = "none" THEN "Inactive" ELSE @,
                            !.have = IF l = Vol THEN lvm.size ELSE @]
             p == ToCreate(n, w, lvm)
  <2>1. pc[n] = "record" /\ Write(n, w, n \in fresh, p)
    BY <1>8 DEF RecordThinLv
  <2>2. ToMake(v)
    BY <1>2, <2>1 DEF Knows
  <2>3. l \in LVs /\ v.spec[l] # "none"
    BY <1>0, <2>2 DEF ToMake, MustCreate, MustExpand, MustSnapshot, Wanted
  <2>4. Knows(n, w, p)
    BY NextKnows
  <2>5. lvm.size \in 0..MaxSize
    BY LvmFields DEF TypeOK
  <2> HIDE DEF l, p
  <2>6. /\ w \in Pool
        /\ w.spec = v.spec /\ \A k \in LVs : k # l => w.status[k] = v.status[k]
    <3>1. w \in Pool
      BY <1>1, <2>3, <2>5 DEF Pool
    <3>2. w.spec = v.spec /\ \A k \in LVs : k # l => w.status[k] = v.status[k]
      BY <1>1, <2>3 DEF Pool
    <3> QED BY <3>1, <3>2
  <2> HIDE DEF w
  <2>7. n \in fresh => Covers(w)
    BY <2>3, <2>6, FreshCovers DEF Covers
  <2> QED BY <1>0, <2>1, <2>4, <2>6, <2>7, WriteCover
<1>9. CASE ActivateThinLvs(n)
  <2> DEFINE v == local[n]
             right(l) == [v EXCEPT !.status[l] = IF v.spec[l] = "Active" THEN "Active" ELSE "Inactive"]
  <2>2. PICK l \in Listed(v) :
           \/ Continue(n, v, n \in fresh, ToActivate(n, v, lvm')) /\ UNCHANGED pool
           \/ Fail(n) /\ UNCHANGED pool
           \/ Write(n, right(l), n \in fresh, ToActivate(n, right(l), lvm))
    BY <1>9 DEF ActivateThinLvs
  <2>3. l \in LVs /\ v.status[l] # "none"
    BY DEF Listed
  <2>4. right(l) \in Pool /\ right(l).spec = v.spec
        /\ \A k \in LVs : k # l => right(l).status[k] = v.status[k]
    BY <1>1, <2>3 DEF Pool
  <2>5. Knows(n, right(l), ToActivate(n, right(l), lvm))
    BY NextKnows
  <2> HIDE DEF right
  <2>6. n \in fresh => Covers(right(l))
    BY <2>3, <2>4, FreshCovers DEF Covers
  <2>7. n \in fresh => SameLists(v, pool)
    BY FreshCovers
  <2>8. PICK p : p = ToActivate(n, v, lvm') /\ Knows(n, v, p)
    BY NextKnows
  <2>9. CASE Continue(n, v, n \in fresh, p) /\ UNCHANGED pool
    BY <1>0, <1>1, <2>7, <2>8, <2>9, ContinueCover
  <2>10. CASE Fail(n) /\ UNCHANGED pool
    BY <1>0, <2>10, EndsCover
  <2>11. CASE Write(n, right(l), n \in fresh, ToActivate(n, right(l), lvm))
    BY <1>0, <2>4, <2>5, <2>6, <2>11, WriteCover
  <2> QED BY <2>2, <2>8, <2>9, <2>10, <2>11
<1>10. CASE DeleteThinLvs(n)
  <2>1. /\ pc[n] = "delete" /\ pool' = pool
        /\ Continue(n, local[n], n \in fresh, "deleted") \/ Fail(n)
    BY <1>10 DEF DeleteThinLvs
  <2>2. Knows(n, local[n], "deleted")
    BY <1>0 DEF Knows
  <2>3. n \in fresh => SameLists(local[n], pool)
    BY FreshCovers
  <2> QED BY <1>0, <1>1, <2>1, <2>2, <2>3, EndsCover, ContinueCover
<1>11. CASE RecordDeleted(n)
  <2> DEFINE v == DropRemoved(local[n])
             p == ToUnlock(n, v, lvm)
             f == [l \in LVs |-> IF l \in Removed(local[n]) THEN "none" ELSE local[n].status[l]]
  <2>1. Write(n, v, n \in fresh, p)
    BY <1>11 DEF RecordDeleted
  <2>2. f \in [LVs -> {"none", "Inactive", "Active"}]
    BY <1>1, PoolFields
  <2>3. v = [local[n] EXCEPT !.status = f]
    BY DEF DropRemoved
  <2>4. Knows(n, v, p)
    BY NextKnows
  <2>5. \A l \in LVs : f[l] # "none" => local[n].status[l] # "none"
    OBVIOUS
  <2> HIDE DEF f, v, p
  <2>6. v \in Pool /\ v.spec = local[n].spec /\ v.status = f
    BY <1>1, <2>2, <2>3 DEF Pool
  <2>7. n \in fresh => Covers(v)
    BY <2>5, <2>6, FreshCovers DEF Covers
  <2> QED BY <1>0, <2>1, <2>4, <2>6, <2>7, WriteCover
<1>12. CASE UnlockPool(n)
  BY <1>0, <1>12, EndsCover DEF UnlockPool
<1> QED BY <1>4, <1>5, <1>6, <1>7, <1>8, <1>9, <1>10, <1>11, <1>12

\* The owners ask for more, or forget what the node reported as removed.
LEMMA OwnerCover ==
    ASSUME TypeOK, CoverInv, NEW l \in LVs, OwnerCall(l)
    PROVE  CoverInv'
<1>0. l \in Procs /\ l \notin Nodes /\ PoolCtl \in Caches /\ leader \in Nodes /\ Vol \in LVs
  BY ProcsFacts DEF TypeOK
<1>1. Cached \in Pool /\ local[l] \in Pool /\ pool \in Pool /\ NoPool \in Pool
  BY <1>0, NullTypes DEF TypeOK, Cached
<1>2. size \in [spec: 1..MaxSize, status: 0..MaxSize]
  BY DEF TypeOK
<1>3. /\ CachedIsFresh => SameLists(Cached, pool) /\ Covers(Cached)
      /\ CachedIsFresh \in BOOLEAN
  BY DEF CachedIsFresh, CoverInv, SpecCoversStatus, Covers, SameLists
<1>4. \A v, p : p # "forget" => Knows(l, v, p)
  BY <1>0 DEF Knows
<1>5. \A v \in Pool : /\ AddVol(v) \in Pool /\ AddVol(v).status = v.status
                      /\ (Covers(v) => Covers(AddVol(v)))
  <2> SUFFICES ASSUME NEW v \in Pool
               PROVE  /\ AddVol(v) \in Pool /\ AddVol(v).status = v.status
                      /\ (Covers(v) => Covers(AddVol(v)))
    OBVIOUS
  <2>1. AddVol(v) \in Pool
    BY <1>0, <1>2, RequestTypes
  <2>2. AddVol(v).status = v.status /\ \A k \in LVs : v.spec[k] # "none" => AddVol(v).spec[k] # "none"
    BY <1>0 DEF AddVol, Pool
  <2> QED BY <2>1, <2>2 DEF Covers
<1>6. CASE l = Vol /\ CreateBlob
  <2>1. CASE Write(l, NewPool, TRUE, "add")
    <3>1. Covers(NewPool)
      BY DEF Covers, NewPool, NoPool
    <3> QED BY <1>0, <1>4, <2>1, <3>1, NullTypes, WriteCover
  <2>2. CASE Fail(l) /\ UNCHANGED pool
    BY <1>0, <2>2, EndsCover
  <2>3. CASE UpdateThinPoolLv(l, Cached, AddVol(Cached), CachedIsFresh,
                              IF VolExists(Cached) THEN "ready" ELSE "idle")
    <3>1. (IF VolExists(Cached) THEN "ready" ELSE "idle") # "forget"
      OBVIOUS
    <3> QED BY <1>0, <1>1, <1>3, <1>5, <2>3, <3>1, UpdateCover
  <2> QED BY <1>6, <2>1, <2>2, <2>3 DEF CreateBlob
<1>7. CASE l = Vol /\ CreateBlobInNewPool
  <2>1. pc[l] = "add" /\ UpdateThinPoolLv(l, local[l], AddVol(local[l]), l \in fresh, "idle")
    BY <1>7 DEF CreateBlobInNewPool
  <2>2. l \in fresh => SameLists(local[l], pool) /\ Covers(AddVol(local[l]))
    BY <1>1, <1>5, FreshCovers
  <2> QED BY <1>0, <1>1, <1>5, <2>1, <2>2, UpdateCover
<1>8. CASE l = Snap /\ SnapshotBlob
  <2> DEFINE v == [Cached EXCEPT !.refs = @ \cup {l}, !.spec[l] = IF @ = "none" THEN "Inactive" ELSE @]
             p == IF Cached.status[l] # "none"
                  THEN IF kind = "Snapshot" THEN "ready" ELSE "activate" ELSE "idle"
  <2>1. v \in Pool
    BY <1>1, <1>2, RequestTypes
  <2>2. p # "forget"
    OBVIOUS
  <2>3. UpdateThinPoolLv(l, Cached, v, CachedIsFresh, p) \/ (Fail(l) /\ UNCHANGED pool)
    BY <1>8 DEF SnapshotBlob
  <2>4. v.status = Cached.status /\ \A k \in LVs : Cached.spec[k] # "none" => v.spec[k] # "none"
    BY <1>1 DEF Pool
  <2> HIDE DEF v, p
  <2>5. CachedIsFresh => SameLists(Cached, pool) /\ Covers(v)
    BY <1>3, <2>4 DEF Covers
  <2> QED BY <1>0, <1>1, <1>3, <2>1, <2>2, <2>3, <2>5, EndsCover, UpdateCover
<1>9. CASE l = Snap /\ ActivateBlobForCloneSource
  <2> DEFINE v == [Cached EXCEPT !.refs = @ \cup {l}, !.spec[l] = "Active"]
             p == IF Cached.status[l] = "Active" THEN "label" ELSE "idle"
  <2>1. v \in Pool
    BY <1>1, <1>2, RequestTypes
  <2>2. p # "forget"
    OBVIOUS
  <2>3. UpdateThinPoolLv(l, Cached, v, CachedIsFresh, p)
    BY <1>9 DEF ActivateBlobForCloneSource
  <2>4. v.status = Cached.status /\ \A k \in LVs : Cached.spec[k] # "none" => v.spec[k] # "none"
    BY <1>1 DEF Pool
  <2> HIDE DEF v, p
  <2>5. CachedIsFresh => SameLists(Cached, pool) /\ Covers(v)
    BY <1>3, <2>4 DEF Covers
  <2> QED BY <1>0, <1>1, <1>3, <2>1, <2>2, <2>3, <2>5, UpdateCover
<1>10. CASE DeactivateBlob(l)
  <2> DEFINE v == [Cached EXCEPT !.spec[l] = IF @ = "Active" THEN "Inactive" ELSE @]
             p == IF Cached.status[l] = "Active" THEN Pending(l) ELSE "remove"
  <2>1. v \in Pool
    BY <1>1, <1>2, RequestTypes
  <2>2. p # "forget"
    BY DEF Pending
  <2>3. \/ Continue(l, NoPool, FALSE, "remove") /\ UNCHANGED pool
        \/ UpdateThinPoolLv(l, Cached, v, CachedIsFresh, p)
    BY <1>10 DEF DeactivateBlob
  <2>4. v.status = Cached.status /\ \A k \in LVs : Cached.spec[k] # "none" => v.spec[k] # "none"
    BY <1>1 DEF Pool
  <2> HIDE DEF v, p
  <2>5. CachedIsFresh => SameLists(Cached, pool) /\ Covers(v)
    BY <1>3, <2>4 DEF Covers
  <2>6. CASE Continue(l, NoPool, FALSE, "remove") /\ UNCHANGED pool
    BY <1>0, <1>1, <1>4, <2>6, ContinueCover
  <2>7. CASE UpdateThinPoolLv(l, Cached, v, CachedIsFresh, p)
    BY <1>0, <1>1, <1>3, <2>1, <2>2, <2>5, <2>7, UpdateCover
  <2> QED BY <2>3, <2>6, <2>7
<1>11. CASE RemoveBlob(l)
  <2> DEFINE v == [Cached EXCEPT !.spec[l] = "Removed"]
             p == AfterRequest(l, Cached)
  <2>1. v \in Pool
    BY <1>1, <1>2, RequestTypes
  <2>2. \/ Continue(l, NoPool, FALSE, "finish") /\ UNCHANGED pool
        \/ Continue(l, Cached, CachedIsFresh, "drop") /\ UNCHANGED pool
        \/ UpdateThinPoolLv(l, Cached, v, CachedIsFresh, p)
    BY <1>11 DEF RemoveBlob
  <2>3. v.status = Cached.status /\ \A k \in LVs : Cached.spec[k] # "none" => v.spec[k] # "none"
    BY <1>1 DEF Pool
  <2>4. p # "forget" \/ Cached.status[l] = "none"
    BY DEF AfterRequest, Pending
  <2> HIDE DEF v, p
  <2>5. CachedIsFresh => SameLists(Cached, pool) /\ Covers(v)
    BY <1>3, <2>3 DEF Covers
  <2>6. CASE Continue(l, NoPool, FALSE, "finish") /\ UNCHANGED pool
    BY <1>0, <1>1, <1>4, <2>6, ContinueCover
  <2>7. CASE Continue(l, Cached, CachedIsFresh, "drop") /\ UNCHANGED pool
    <3>1. CachedIsFresh => SameLists(Cached, pool)
      BY <1>3
    <3> QED BY <1>0, <1>1, <1>3, <1>4, <2>7, <3>1, ContinueCover
  <2>8. CASE UpdateThinPoolLv(l, Cached, v, CachedIsFresh, p)
    <3>1. p # "forget" \/ v.status[l] = "none"
      BY <2>3, <2>4
    <3> QED BY <1>0, <1>1, <1>3, <2>1, <2>5, <2>8, <3>1, UpdateCover
  <2> QED BY <2>2, <2>6, <2>7, <2>8
<1>12. CASE ForgetRemovedThinLv(l)
  <2> DEFINE v == [local[l] EXCEPT !.spec[l] = "none"]
  <2>1. v \in Pool
    BY <1>1, <1>2, RequestTypes
  <2>2. pc[l] = "forget" /\ Write(l, Recalc(v), l \in fresh, "forgot")
    BY <1>12 DEF ForgetRemovedThinLv
  <2>3. local[l].status[l] = "none"
    BY <1>0, <2>2 DEF CoverInv, AllKnow, Knows
  <2>4. v.status = local[l].status /\ \A k \in LVs : k # l => v.spec[k] = local[l].spec[k]
    BY <1>1 DEF Pool
  <2> HIDE DEF v
  <2>5. l \in fresh => Covers(v)
    BY <2>3, <2>4, FreshCovers DEF Covers
  <2>6. Recalc(v) \in Pool /\ (l \in fresh => Covers(Recalc(v)))
    BY <1>0, <2>1, <2>5, RecalcFacts DEF Covers
  <2> QED BY <1>0, <1>4, <2>2, <2>6, WriteCover
<1>13. CASE DropReference(l)
  <2> DEFINE v == [local[l] EXCEPT !.refs = @ \ {l}]
             same == pc[l] = "drop" /\ Recalc(v) = local[l]
  <2>1. v \in Pool
    BY <1>1, <1>2, RequestTypes
  <2>2. v.status = local[l].status /\ v.spec = local[l].spec
    BY <1>1 DEF Pool
  <2>3. /\ pc[l] \in {"drop", "forgot"}
        /\ \/ /\ pool' = [pool EXCEPT !.phase = "deleting"] /\ Exists(pool)
              /\ pc' = [pc EXCEPT ![l] = IF same THEN "finish" ELSE "idle"]
              /\ local' = [local EXCEPT ![l] = NoPool]
              /\ fresh' = IF pool.phase = "live" THEN {} ELSE fresh \ {l}
           \/ Continue(l, local[l], FALSE, "finish") /\ UNCHANGED pool
           \/ Write(l, Recalc(v), l \in fresh, "finish")
           \/ UpdateThinPoolLv(l, local[l], v, l \in fresh, "finish")
    BY <1>13 DEF DropReference
  <2> HIDE DEF v
  <2>4. l \in fresh => SameLists(local[l], pool) /\ Covers(v)
    BY <2>2, FreshCovers DEF Covers
  <2>5. CASE /\ pool' = [pool EXCEPT !.phase = "deleting"] /\ Exists(pool)
             /\ pc' = [pc EXCEPT ![l] = IF same THEN "finish" ELSE "idle"]
             /\ local' = [local EXCEPT ![l] = NoPool]
             /\ fresh' = IF pool.phase = "live" THEN {} ELSE fresh \ {l}
    <3>1. (IF same THEN "finish" ELSE "idle") # "forget"
      OBVIOUS
    <3> HIDE DEF same
    <3>2. pool'.spec = pool.spec /\ pool'.status = pool.status
      BY <1>1, <2>5 DEF Pool
    <3>3. pool.phase # "live" => pool' = pool
      BY <1>1, <2>5 DEF Exists, Pool
    <3>4. FreshCopies'
      BY <2>5, <3>3 DEF TypeOK, CoverInv, FreshCopies, SameLists
    <3>5. \A q \in Procs : Knows(q, local'[q], pc'[q])
      BY <1>0, <1>4, <2>5, <3>1 DEF TypeOK, CoverInv, AllKnow
    <3>6. AllKnow'
      BY <3>5 DEF AllKnow, Knows, ToMake, MustCreate, MustExpand, MustSnapshot, Wanted
    <3> QED BY <3>2, <3>4, <3>6 DEF CoverInv, SpecCoversStatus
  <2>6. CASE Continue(l, local[l], FALSE, "finish") /\ UNCHANGED pool
    BY <1>0, <1>1, <1>4, <2>6, ContinueCover
  <2>7. CASE Write(l, Recalc(v), l \in fresh, "finish")
    <3>1. Recalc(v) \in Pool /\ (l \in fresh => Covers(Recalc(v)))
      BY <1>0, <2>1, <2>4, RecalcFacts DEF Covers
    <3> QED BY <1>0, <1>4, <2>7, <3>1, WriteCover
  <2>8. CASE UpdateThinPoolLv(l, local[l], v, l \in fresh, "finish")
    BY <1>0, <1>1, <2>1, <2>4, <2>8, UpdateCover
  <2> QED BY <2>3, <2>5, <2>6, <2>7, <2>8
<1> QED BY <1>6, <1>7, <1>8, <1>9, <1>10, <1>11, <1>12, <1>13 DEF OwnerCall

\* The other steps leave Spec and Status alone.
LEMMA RestCover ==
    ASSUME TypeOK, CoverInv,
           \/ CreatePoolLv \/ SetPoolAvailable \/ RemovePoolLv \/ RemovePoolFinalizer
           \/ GarbageCollect
           \/ \E c \in Procs : NothingToDo(c)
           \/ \E l \in LVs : BlobReady(l) \/ FinishOwner(l)
           \/ LabelTarget
           \/ \E c \in Caches : WatchEvent(c)
           \/ StartDd \/ FinishDd \/ CancelDd \/ RequestSnap
           \/ \E s \in 2..MaxSize : Expand(s)
           \/ \E l \in LVs : Delete(l)
           \/ \E n \in Nodes : Fault(n)
    PROVE  CoverInv'
<1>0. /\ PoolCtl \in Procs /\ PoolCtl \in Caches /\ PoolCtl \notin Nodes /\ PoolCtl \notin LVs
      /\ Snap \in Procs /\ \A l \in LVs : l \in Procs
  BY ProcsFacts
<1>1. /\ cache[PoolCtl] \in Pool /\ local[PoolCtl] \in Pool /\ pool \in Pool
      /\ local \in [Procs -> Pool] /\ pc \in [Procs -> Pcs] /\ fresh \subseteq Procs
  BY <1>0, TypeParts DEF RecTypes
<1>2. \A v, p : Knows(PoolCtl, v, p)
  BY <1>0 DEF Knows
<1>3. \A c, v : Knows(c, v, "idle")
  BY DEF Knows
<1>4. CASE CreatePoolLv \/ RemovePoolLv
  <2>1. PICK p : \/ Continue(PoolCtl, cache[PoolCtl], cache[PoolCtl] = pool, p)
                 \/ Fail(PoolCtl)
    BY <1>4 DEF CreatePoolLv, RemovePoolLv
  <2>2. pool' = pool
    BY <1>4 DEF CreatePoolLv, RemovePoolLv
  <2>3. cache[PoolCtl] = pool => SameLists(cache[PoolCtl], pool)
    BY DEF SameLists
  <2> QED BY <1>0, <1>1, <1>2, <2>1, <2>2, <2>3, EndsCover, ContinueCover
<1>5. CASE SetPoolAvailable \/ RemovePoolFinalizer
  <2> DEFINE v == [local[PoolCtl] EXCEPT !.avail = TRUE]
             w == [local[PoolCtl] EXCEPT !.phase = "gone"]
  <2>1. \/ Write(PoolCtl, v, PoolCtl \in fresh, "idle")
        \/ Write(PoolCtl, w, PoolCtl \in fresh, "idle")
    BY <1>5 DEF SetPoolAvailable, RemovePoolFinalizer
  <2>2. /\ v \in Pool /\ v.spec = local[PoolCtl].spec /\ v.status = local[PoolCtl].status
        /\ w \in Pool /\ w.spec = local[PoolCtl].spec /\ w.status = local[PoolCtl].status
    BY <1>1 DEF Pool
  <2> HIDE DEF v, w
  <2>3. v \in Pool /\ w \in Pool
    BY <2>2
  <2>4. (PoolCtl \in fresh => Covers(v)) /\ (PoolCtl \in fresh => Covers(w))
    BY <2>2, FreshCovers DEF Covers
  <2> QED BY <1>0, <1>2, <2>1, <2>3, <2>4, WriteCover
<1>6. CASE GarbageCollect
  <2>1. /\ pool'.spec = pool.spec /\ pool'.status = pool.status
        /\ fresh' = {} /\ UNCHANGED <<local, pc>>
    BY <1>1, <1>6 DEF GarbageCollect, Pool
  <2> QED BY <2>1 DEF CoverInv, FreshCopies, AllKnow, SpecCoversStatus, Knows, ToMake,
             MustCreate, MustExpand, MustSnapshot, Wanted
<1>7. CASE \E c \in Procs : NothingToDo(c)
  BY <1>7, EndsCover DEF NothingToDo
<1>8. CASE (\E l \in LVs : BlobReady(l) \/ FinishOwner(l)) \/ LabelTarget
  <2>1. PICK l \in Procs : Return(l) /\ pool' = pool
    BY <1>0, <1>8 DEF BlobReady, FinishOwner, LabelTarget
  <2> QED BY <2>1, EndsCover
<1>9. CASE \/ \E c \in Caches : WatchEvent(c)
           \/ StartDd \/ FinishDd \/ CancelDd \/ RequestSnap
           \/ \E s \in 2..MaxSize : Expand(s)
           \/ \E l \in LVs : Delete(l)
  <2>1. UNCHANGED <<pool, local, fresh, pc>>
    BY <1>9 DEF WatchEvent, StartDd, FinishDd, CancelDd, RequestSnap, Expand, Delete, reconcileVars
  <2> QED BY <2>1 DEF CoverInv, FreshCopies, AllKnow, SpecCoversStatus, SameLists, Knows, ToMake,
             MustCreate, MustExpand, MustSnapshot, Wanted
<1>10. CASE \E n \in Nodes : Fault(n)
  <2>1. /\ pool' = pool /\ fresh' \subseteq fresh
        /\ \A c \in Procs : \/ pc'[c] = "idle" /\ c \notin fresh'
                            \/ pc'[c] = pc[c] /\ local'[c] = local[c]
    <3>1. PICK n \in Nodes : Restarted(n) \/ Election(n)
      BY <1>10 DEF Fault, RestartNode, RebootNode
    <3>2. CASE Restarted(n)
      BY <1>1, <3>2 DEF Restarted
    <3>3. CASE Election(n)
      BY <1>1, <3>3 DEF Election
    <3> QED BY <3>1, <3>2, <3>3
  <2>2. FreshCopies'
    BY <1>1, <2>1 DEF CoverInv, FreshCopies, SameLists
  <2>3. \A c \in Procs : Knows(c, local'[c], pc'[c])
    BY <1>3, <2>1 DEF CoverInv, AllKnow
  <2>4. AllKnow'
    BY <2>3 DEF AllKnow, Knows, ToMake, MustCreate, MustExpand, MustSnapshot, Wanted
  <2> QED BY <2>1, <2>2, <2>4 DEF CoverInv, SpecCoversStatus
<1> QED BY <1>4, <1>5, <1>6, <1>7, <1>8, <1>9, <1>10

\* Every step keeps Spec covering Status.
LEMMA CoverKept == TypeOK /\ CoverInv /\ [Next]_vars => CoverInv'
<1> SUFFICES ASSUME TypeOK, CoverInv, [Next]_vars PROVE CoverInv'
  OBVIOUS
<1>1. CASE UNCHANGED vars
  BY <1>1 DEF vars, reconcileVars, CoverInv, FreshCopies, AllKnow, SpecCoversStatus, SameLists,
     Knows, ToMake, MustCreate, MustExpand, MustSnapshot, Wanted
<1>2. CASE Next
  BY <1>2, StepKinds, NodeCover, OwnerCover, RestCover
<1> QED BY <1>1, <1>2

\* No owner ever forgets a thin LV that Status still lists, so that the node
\* reconciler finds the Spec of every thin LV it knows of. Nothing is assumed about
\* when owners are deleted, and nodes and the leader may fail at any time.
THEOREM CoverCorrect == Spec => []SpecCoversStatus
<1>1. Init => CoverInv
  BY ProcsFacts DEF Init, CoverInv, FreshCopies, AllKnow, SpecCoversStatus, Knows, NoPool
<1>2. TypeOK /\ CoverInv /\ [Next]_vars => CoverInv'
  BY CoverKept
<1>3. CoverInv => SpecCoversStatus
  BY DEF CoverInv
<1> QED BY <1>1, <1>2, <1>3, TypeCorrect, PTL DEF Spec
=============================================================================
