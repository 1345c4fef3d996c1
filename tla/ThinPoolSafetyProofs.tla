------------------------ MODULE ThinPoolSafetyProofs ------------------------
(***************************************************************************)
(* Proofs about ThinPool: that a thin LV which Status reports active is    *)
(* active where Status says, that the node which populates a clone has its *)
(* source, and that a snapshot's source is kept until the snapshot is      *)
(* made, for every set of nodes, every age of every cache, with restarts,  *)
(* elections and owners deleted at any time.                               *)
(***************************************************************************)
EXTENDS ThinPoolProofs

-----------------------------------------------------------------------------
(* What a step of process c does to the reconciles, however it ends. *)

\* The other processes go on as they were; the copy of one that is fresh was fresh.
Elsewhere(c) ==
    /\ UNCHANGED cache /\ fresh' \subseteq fresh \cup {c}
    /\ \A q \in Procs \ {c} : pc'[q] = pc[q] /\ local'[q] = local[q]

Stopped(c) == pc'[c] = "idle" /\ local'[c] = NoPool /\ c \notin fresh'
Went(c, v, p) == pc'[c] = p /\ local'[c] = v

\* The reconcile has the copy v from which it may write if b, and goes on to step p.
Reads(c, v, b, p) ==
    /\ Elsewhere(c) /\ pool' = pool
    /\ Stopped(c) \/ (Went(c, v, p) /\ (c \in fresh' => b))

\* It writes the copy v, if b, and goes on to step p.
Writes(c, v, b, p) ==
    /\ Elsewhere(c)
    /\ \/ Stopped(c) /\ pool' = pool
       \/ b /\ pool' = v /\ (Stopped(c) \/ Went(c, v, p)) /\ (fresh' \subseteq {c} \/ pool' = pool)

\* A reconcile that ends
LEMMA EndsDo ==
    ASSUME TypeOK, NEW c \in Procs, Return(c) \/ Fail(c)
    PROVE  Elsewhere(c) /\ Stopped(c)
BY DEF TypeOK, Return, Fail, Ends, Elsewhere, Stopped

\* or goes on reads,
LEMMA ContinueReads ==
    ASSUME TypeOK, NEW c \in Procs, NEW v, NEW b, NEW p, Continue(c, v, b, p), pool' = pool
    PROVE  Reads(c, v, b, p)
<1>1. CASE Return(c) \/ Fail(c)
  BY <1>1, EndsDo DEF Reads
<1>2. CASE /\ pc' = [pc EXCEPT ![c] = p]
           /\ local' = [local EXCEPT ![c] = v]
           /\ fresh' = IF b THEN fresh \cup {c} ELSE fresh \ {c}
           /\ UNCHANGED cache
  <2>1. Elsewhere(c) /\ Went(c, v, p)
    BY <1>2 DEF TypeOK, Elsewhere, Went
  <2> QED BY <1>2, <2>1 DEF Reads
<1> QED BY <1>1, <1>2 DEF Continue

\* and one that calls Update writes.
LEMMA WriteWrites ==
    ASSUME TypeOK, NEW c \in Procs, NEW v, NEW b, NEW p, Write(c, v, b, p)
    PROVE  Writes(c, v, b, p)
<1>1. CASE Fail(c) /\ UNCHANGED pool
  BY <1>1, EndsDo DEF Writes
<1>2. CASE ~(Fail(c) /\ UNCHANGED pool)
  <2> DEFINE ends == p \in {"idle", "retry"}
  <2>1. /\ pool' = v /\ b
        /\ pc' = [pc EXCEPT ![c] = IF ends THEN "idle" ELSE p]
        /\ local' = [local EXCEPT ![c] = IF ends THEN NoPool ELSE v]
        /\ fresh' = {q \in fresh \cup {c} : IF q = c THEN ~ends ELSE v = pool}
        /\ UNCHANGED cache
    BY <1>2 DEF Write
  <2> HIDE DEF ends
  <2>2. Elsewhere(c) /\ (Stopped(c) \/ Went(c, v, p))
    BY <2>1 DEF TypeOK, Elsewhere, Stopped, Went
  <2> QED BY <2>1, <2>2 DEF Writes
<1> QED BY <1>1, <1>2

-----------------------------------------------------------------------------
(* The invariant. *)

\* The copy v says that Snap is to be active, and is.
InService(v) == v.spec[Snap] = "Active" /\ v.status[Snap] = "Active"

\* Snap is not to be made or activated any more.
Retired == Snap \in deleting \/ own[Snap] \in {"copied", "ready", "gone"}

Ended(v) == v.phase \in {"deleting", "gone"}

\* The steps of a node that is in charge of the pool.
OnDuty == {"create", "record", "activate", "delete", "deleted"}

\* A node at step "unlock" still has the lock, or the pool is gone for good.
LvmOK ==
    /\ lvm.lock # None \/ (\E l \in LVs : lvm.lvs[l] = "active") => lvm.pool
    /\ \A n \in Nodes : pc[n] = "unlock" => lvm.lock = n \/ (~lvm.pool /\ Ended(cache[PoolCtl]))
    /\ Ended(cache[PoolCtl]) => Ended(pool)

\* Vol is never asked to be active: only a clone's source is, here.
VolOff ==
    /\ pool.spec[Vol] # "Active"
    /\ \A c \in Caches : cache[c].spec[Vol] # "Active"
    /\ \A c \in Procs : local[c].spec[Vol] # "Active"

\* What a copy that an Update accepts has in common with the object.
Same(v, w) ==
    /\ v.spec = w.spec /\ v.status = w.status
    /\ v.node = w.node /\ v.statusNode = w.statusNode /\ v.phase = w.phase

\* DeactivatePool has changed Status in its copy already.
Lowered(v, w) ==
    /\ v.spec = w.spec /\ v.node = w.node /\ v.statusNode = w.statusNode /\ v.phase = w.phase
    /\ v.status = [l \in LVs |-> IF w.status[l] = "none" THEN "none" ELSE "Inactive"]

\* A node with a fresh copy also has what it began with in its cache.
FreshOf(c) ==
    /\ c \in Nodes /\ pc[c] = "down" => Lowered(local[c], pool)
    /\ ~(c \in Nodes /\ pc[c] = "down") => Same(local[c], pool)
    /\ c \in Nodes => cache[c].spec = pool.spec /\ cache[c].node = pool.node
FreshOK == \A c \in fresh : FreshOf(c)

\* No thin LV is reported active where no node has the pool active.
Calm(v) == v.statusNode = None => \A l \in LVs : v.status[l] # "Active"
IdleOK == Calm(pool)

\* What a node at step p knows from its copy v.
NodeKnows(n, v, p) ==
    /\ p \in OnDuty \cup {"idle", "up", "down", "unlock"}
    /\ p \in OnDuty \cup {"up", "unlock"} => v.node = n /\ v.statusNode \in {n, None}
    /\ p \in OnDuty \cup {"unlock"} /\ v.spec[Snap] = "Active" => v.statusNode = n
    /\ p = "up" => v.spec[Snap] = "Active"
    /\ p = "down" => ~ShouldBeActive(n, v)
    /\ p = "unlock" => v.spec[Snap] # "Active"
NodesKnow == \A n \in Nodes : NodeKnows(n, local[n], pc[n])

\* While Snap is in service, the node that serves it has its device, and works from
\* copies that ask for it.
AsksFor(n, v) == v.spec[Snap] = "Active" /\ v.node = n
Serves(n) ==
    /\ n \in Nodes /\ pool.node = n /\ PathExists(n, Snap)
    /\ AsksFor(n, cache[n])
    /\ pc[n] # "idle" => AsksFor(n, local[n])
ServiceOK == InService(pool) => Serves(pool.statusNode)

\* A node that deactivates the pool from a fresh copy does not deactivate Snap in service.
DownOK == \A n \in fresh \cap Nodes : pc[n] = "down" => ~InService(pool)

\* The reconciler of Snap does not activate what it has let go.
TargetOK ==
    /\ pc[Snap] \in {"activate", "label"} =>
          own[Snap] \in {"wanted", "labelled"} \/ (own[Snap] = "copied" /\ label # None)
    /\ own[Snap] = "labelled" => label # None
    /\ dd = "running" => own[Snap] \notin {"absent", "wanted"}
    /\ pc[Snap] \in {"remove", "forget", "forgot", "drop", "finish"} => Retired
    /\ pool.status[Snap] = "Active" /\ pool.spec[Snap] # "Active" => Retired /\ pc[Snap] # "activate"

\* An owner's reconciler takes its own steps.
OwnersOn ==
    /\ \A l \in LVs : pc[l] \in {"idle"} \cup OwnerPc
    /\ own[Vol] \in {"wanted", "ready", "gone"}

\* What holds whatever fails, and what a reboot would end.
CopyInv == LvmOK /\ VolOff /\ FreshOK /\ IdleOK /\ NodesKnow /\ TargetOK /\ OwnersOn
ServiceInv == ServiceOK /\ DownOK

-----------------------------------------------------------------------------
(* Fresh copies. *)

\* Reading keeps them,
LEMMA ReadsFresh ==
    ASSUME TypeOK, FreshOK, NEW c \in Procs, NEW v, NEW b, NEW p, Reads(c, v, b, p),
           b => /\ c \in Nodes /\ p = "down" => Lowered(v, pool)
                /\ ~(c \in Nodes /\ p = "down") => Same(v, pool)
                /\ c \in Nodes => cache[c].spec = pool.spec /\ cache[c].node = pool.node
    PROVE  FreshOK'
<1>1. \A q \in Procs : q \in fresh' => FreshOf(q)'
  <2> SUFFICES ASSUME NEW q \in Procs, q \in fresh' PROVE FreshOf(q)'
    OBVIOUS
  <2>1. CASE q = c
    BY <2>1 DEF Reads, Elsewhere, Stopped, Went, FreshOf, Same, Lowered
  <2>2. CASE q # c
    BY <2>2 DEF Reads, Elsewhere, FreshOK, FreshOf, Same, Lowered
  <2> QED BY <2>1, <2>2
<1>2. fresh' \subseteq Procs
  BY DEF TypeOK, Reads, Elsewhere
<1> QED BY <1>1, <1>2 DEF FreshOK

\* and so does writing.
LEMMA WritesFresh ==
    ASSUME TypeOK, FreshOK, NEW c \in Procs, NEW v, NEW b, NEW p, Writes(c, v, b, p),
           p # "down", b /\ c \in Nodes => cache[c].spec = v.spec /\ cache[c].node = v.node
    PROVE  FreshOK'
<1>1. \A q \in Procs : q \in fresh' => FreshOf(q)'
  <2> SUFFICES ASSUME NEW q \in Procs, q \in fresh' PROVE FreshOf(q)'
    OBVIOUS
  <2>1. CASE q = c
    BY <2>1 DEF Writes, Elsewhere, Stopped, Went, FreshOf, Same, Lowered
  <2>2. CASE q # c
    BY <2>2 DEF Writes, Elsewhere, FreshOK, FreshOf, Same, Lowered
  <2> QED BY <2>1, <2>2
<1>2. fresh' \subseteq Procs
  BY DEF TypeOK, Writes, Elsewhere
<1> QED BY <1>1, <1>2 DEF FreshOK

-----------------------------------------------------------------------------
(* The node reconciler. *)

NodeAct(n) ==
    \/ ActivatePool(n) \/ RecordActive(n) \/ DeactivatePool(n) \/ RecordInactive(n)
    \/ CreateThinLv(n) \/ RecordThinLv(n) \/ ActivateThinLvs(n)
    \/ DeleteThinLvs(n) \/ RecordDeleted(n) \/ UnlockPool(n)

\* The copy that the next step works from.
Base(n) == IF pc[n] = "idle" THEN cache[n] ELSE local[n]

\* A node never takes the lock, nor a device, from another node; it keeps the device of
\* a thin LV that its copy asks for.
NodeLvm(n) ==
    /\ lvm'.pool = lvm.pool
    /\ lvm.lock \notin {n, None} => lvm' = lvm
    /\ ~lvm.pool => lvm'.lock = None /\ \A l \in LVs : lvm'.lvs[l] # "active"
    /\ PathExists(n, Snap) /\ AsksFor(n, Base(n)) => PathExists(n, Snap)'

\* What releasing an unused lock does.
LEMMA SettledFacts ==
    ASSUME NEW m \in Lvm, NEW n
    PROVE  /\ Settled(m, n).pool = m.pool /\ Settled(m, n).lvs = m.lvs
           /\ Settled(m, n).lock \in {n, None}
           /\ (\E l \in LVs : m.lvs[l] = "active") => Settled(m, n).lock = n
           /\ ~m.up /\ (\A l \in LVs : m.lvs[l] # "active") => Settled(m, n).lock = None
BY DEF Settled, Lvm

LEMMA NodeLvmKept ==
    ASSUME TypeOK, LvmOK, NodesKnow, NEW n \in Nodes, NodeAct(n)
    PROVE  NodeLvm(n)
<1>0. /\ n # None /\ Snap \in LVs /\ Vol \in LVs /\ Vol # Snap
  BY ProcsFacts, NamesAssumption
<1>1. /\ lvm \in Lvm /\ lvm.pool \in BOOLEAN /\ lvm.lock \in Nodes \cup {None}
      /\ lvm.lvs \in [LVs -> {"none", "inactive", "active"}]
  BY LvmFields DEF TypeOK
<1>2. ~lvm.pool => lvm.lock = None /\ \A l \in LVs : lvm.lvs[l] # "active"
  BY DEF LvmOK
<1>3. ASSUME lvm' = lvm PROVE NodeLvm(n)
  BY <1>2, <1>3 DEF NodeLvm, PathExists
<1>4. CASE RecordActive(n) \/ RecordInactive(n) \/ RecordThinLv(n) \/ RecordDeleted(n)
  BY <1>3, <1>4 DEF RecordActive, RecordInactive, RecordThinLv, RecordDeleted
<1>5. CASE ActivatePool(n)
  <2>1. CASE lvm' = [lvm EXCEPT !.up = TRUE, !.lock = n] /\ CanLock(n)
    <3>1. lvm'.pool = lvm.pool /\ lvm'.lvs = lvm.lvs /\ lvm'.lock = n
      BY <1>1, <2>1 DEF Lvm
    <3> QED BY <1>0, <2>1, <3>1 DEF CanLock, NodeLvm, PathExists
  <2> QED BY <1>3, <1>5, <2>1 DEF ActivatePool
<1>6. CASE DeactivatePool(n)
  <2> DEFINE v == cache[n]
             off == [lvm EXCEPT !.up = FALSE,
                           !.lvs = [l \in LVs |-> IF l \in Listed(v) /\ @[l] = "active"
                                                  THEN "inactive" ELSE @[l]]]
  <2>1. CASE lvm' = Settled(off, n) /\ lvm.lock = n
    <3>1. off \in Lvm /\ off.pool = lvm.pool
      BY <1>1 DEF Lvm
    <3>2. lvm.pool
      BY <1>0, <2>1 DEF LvmOK
    <3>3. Starts(n) /\ ~ShouldBeActive(n, cache[n])
      BY <1>6 DEF DeactivatePool, StartsNode
    <3>4. ~AsksFor(n, Base(n))
      BY <1>0, <3>3 DEF Starts, Base, AsksFor, ShouldBeActive
    <3> HIDE DEF off
    <3> QED BY <2>1, <3>1, <3>2, <3>4, SettledFacts DEF NodeLvm
  <2> QED BY <1>3, <1>6, <2>1 DEF DeactivatePool
<1>7. CASE CreateThinLv(n)
  <2>1. CASE ~CanLock(n)
    BY <1>3, <1>7, <2>1 DEF CreateThinLv
  <2>2. CASE CanLock(n)
    <3>1. CASE lvm' = lvm
      BY <1>3, <3>1
    <3>2. CASE lvm' # lvm
      <4>1. PICK m \in Lvm : /\ lvm' = Settled(m, n) /\ m.pool = lvm.pool
                             /\ lvm.lvs[Snap] = "active" => m.lvs[Snap] = "active"
        <5> DEFINE m1 == [lvm EXCEPT !.lvs[Vol] = "inactive",
                                     !.size = IF lvm.lvs[Vol] # "none" THEN @ ELSE local[n].want]
                   m2 == [lvm EXCEPT !.size = IF @ < local[n].want THEN local[n].want ELSE @]
                   m3 == [lvm EXCEPT !.lvs[Snap] = IF @ = "none" THEN "active" ELSE @]
        <5>1. lvm' = Settled(m1, n) \/ lvm' = Settled(m2, n) \/ lvm' = Settled(m3, n)
          BY <1>7, <3>2 DEF CreateThinLv
        <5>2. local[n].want \in 0..MaxSize /\ lvm.size \in 0..MaxSize
          BY <1>1, ProcsFacts, PoolFields, LvmFields DEF TypeOK
        <5>3. m1 \in Lvm /\ m1.pool = lvm.pool /\ m1.lvs[Snap] = lvm.lvs[Snap]
          BY <1>0, <1>1, <5>2 DEF Lvm
        <5>4. m2 \in Lvm /\ m2.pool = lvm.pool /\ m2.lvs[Snap] = lvm.lvs[Snap]
          BY <1>0, <1>1, <5>2 DEF Lvm
        <5>5. m3 \in Lvm /\ m3.pool = lvm.pool /\ (lvm.lvs[Snap] = "active" => m3.lvs[Snap] = "active")
          BY <1>0, <1>1 DEF Lvm
        <5> HIDE DEF m1, m2, m3
        <5> QED BY <5>1, <5>3, <5>4, <5>5
      <4>2. lvm'.pool = lvm.pool /\ lvm'.lvs = m.lvs
            /\ (m.lvs[Snap] = "active" => lvm'.lock = n)
        BY <1>0, <4>1, SettledFacts
      <4> QED BY <2>2, <4>1, <4>2 DEF NodeLvm, CanLock, PathExists
    <3> QED BY <3>1, <3>2
  <2> QED BY <2>1, <2>2
<1>8. CASE ActivateThinLvs(n)
  <2>1. PICK l \in LVs :
          \/ lvm' = lvm
          \/ /\ ~RightDevice(n, local[n], lvm, l) /\ local[n].spec[l] = "Active" /\ CanLock(n)
             /\ lvm' = [lvm EXCEPT !.lvs[l] = "active", !.lock = n]
          \/ /\ ~RightDevice(n, local[n], lvm, l) /\ local[n].spec[l] # "Active"
             /\ lvm' = Settled([lvm EXCEPT !.lvs[l] = "inactive"], n)
    BY <1>8 DEF ActivateThinLvs, Listed
  <2>2. pc[n] # "idle"
    BY <1>8 DEF ActivateThinLvs
  <2>3. CASE /\ local[n].spec[l] = "Active" /\ CanLock(n)
             /\ lvm' = [lvm EXCEPT !.lvs[l] = "active", !.lock = n]
    <3>1. lvm'.pool = lvm.pool /\ lvm'.lock = n /\ (lvm.lvs[Snap] = "active" => lvm'.lvs[Snap] = "active")
      BY <1>0, <1>1, <2>3 DEF Lvm
    <3> QED BY <1>0, <2>3, <3>1 DEF NodeLvm, CanLock, PathExists
  <2>4. CASE /\ ~RightDevice(n, local[n], lvm, l) /\ local[n].spec[l] # "Active"
             /\ lvm' = Settled([lvm EXCEPT !.lvs[l] = "inactive"], n)
    <3>1. lvm.lock = n /\ lvm.pool
      BY <1>0, <2>4 DEF RightDevice, Device, LvmOK
    <3>2. PICK m \in Lvm : lvm' = Settled(m, n) /\ m.pool = lvm.pool
                           /\ (l # Snap => m.lvs[Snap] = lvm.lvs[Snap])
      <4>1. [lvm EXCEPT !.lvs[l] = "inactive"] \in Lvm
        BY <1>1 DEF Lvm
      <4>2. [lvm EXCEPT !.lvs[l] = "inactive"].pool = lvm.pool
        BY <1>1 DEF Lvm
      <4>3. l # Snap => [lvm EXCEPT !.lvs[l] = "inactive"].lvs[Snap] = lvm.lvs[Snap]
        BY <1>0, <1>1 DEF Lvm
      <4> QED BY <2>4, <4>1, <4>2, <4>3
    <3>3. /\ lvm'.pool = lvm.pool /\ lvm'.lvs = m.lvs
          /\ (m.lvs[Snap] = "active" => lvm'.lock = n)
      BY <1>0, <3>2, SettledFacts
    <3>4. l = Snap => ~AsksFor(n, Base(n))
      BY <2>2, <2>4 DEF AsksFor, Base
    <3> QED BY <1>0, <3>1, <3>2, <3>3, <3>4 DEF NodeLvm, PathExists
  <2> QED BY <1>3, <2>1, <2>3, <2>4
<1>9. CASE DeleteThinLvs(n)
  <2> DEFINE gone == {l \in Removed(local[n]) : lvm.lvs[l] # "active"}
             after == [lvm EXCEPT !.lvs = [l \in LVs |-> IF l \in gone THEN "none" ELSE @[l]]]
  <2>1. \/ lvm' = lvm
        \/ CanLock(n) /\ lvm' \in {Settled(after, n), [after EXCEPT !.lock = n], after}
    BY <1>9 DEF DeleteThinLvs
  <2>2. after \in Lvm /\ after.pool = lvm.pool /\ after.lock = lvm.lock
        /\ (lvm.lvs[Snap] = "active" => after.lvs[Snap] = "active")
    BY <1>0, <1>1 DEF Lvm
  <2> HIDE DEF after
  <2>3. CASE CanLock(n) /\ lvm' = Settled(after, n)
    <3>1. /\ lvm'.pool = lvm.pool /\ lvm'.lvs = after.lvs
          /\ (after.lvs[Snap] = "active" => lvm'.lock = n)
      BY <1>0, <2>2, <2>3, SettledFacts
    <3> QED BY <2>2, <2>3, <3>1 DEF NodeLvm, CanLock, PathExists
  <2>4. CASE CanLock(n) /\ lvm' \in {[after EXCEPT !.lock = n], after}
    <3>1. /\ lvm'.pool = lvm.pool /\ lvm'.lvs = after.lvs /\ (lvm.lock = n => lvm'.lock = n)
      BY <2>2, <2>4 DEF Lvm
    <3> QED BY <2>2, <2>4, <3>1 DEF NodeLvm, CanLock, PathExists
  <2> QED BY <1>3, <2>1, <2>3, <2>4
<1>10. CASE UnlockPool(n)
  <2>1. pc[n] = "unlock" /\ lvm' = Settled([lvm EXCEPT !.up = FALSE], n)
    BY <1>10 DEF UnlockPool
  <2>2. lvm.lock = n \/ ~lvm.pool
    BY <2>1 DEF LvmOK
  <2>3. PICK m \in Lvm : lvm' = Settled(m, n) /\ m.pool = lvm.pool /\ m.lvs = lvm.lvs /\ ~m.up
    <3> DEFINE m == [lvm EXCEPT !.up = FALSE]
    <3>1. m \in Lvm /\ m.pool = lvm.pool /\ m.lvs = lvm.lvs /\ ~m.up
      BY <1>1 DEF Lvm
    <3>2. lvm' = Settled(m, n)
      BY <2>1
    <3> HIDE DEF m
    <3> QED BY <3>1, <3>2
  <2>4. /\ lvm'.pool = lvm.pool /\ lvm'.lvs = lvm.lvs
        /\ (lvm.lvs[Snap] = "active" => lvm'.lock = n)
        /\ (\A l \in LVs : lvm.lvs[l] # "active") => lvm'.lock = None
    BY <1>0, <2>3, SettledFacts
  <2> QED BY <1>2, <2>2, <2>4 DEF NodeLvm, PathExists
<1> QED BY <1>4, <1>5, <1>6, <1>7, <1>8, <1>9, <1>10 DEF NodeAct

\* Steps that a node in charge goes on with.
LEMMA DutyKnows ==
    ASSUME NEW n \in Nodes, NEW v, NEW m,
           v.node = n, v.statusNode \in {n, None}, v.spec[Snap] = "Active" => v.statusNode = n
    PROVE  /\ NodeKnows(n, v, ToCreate(n, v, m)) /\ NodeKnows(n, v, ToActivate(n, v, m))
           /\ NodeKnows(n, v, ToDelete(n, v, m)) /\ NodeKnows(n, v, ToUnlock(n, v, m))
           /\ \A p \in OnDuty : NodeKnows(n, v, p)
<1>0. n # None
  BY NamesAssumption
<1>1. \A p \in OnDuty \cup {"idle"} : NodeKnows(n, v, p)
  BY DEF NodeKnows, OnDuty
<1>2. NodeKnows(n, v, ToUnlock(n, v, m))
  BY <1>0, <1>1 DEF NodeKnows, ToUnlock, OnDuty
<1>3. NodeKnows(n, v, ToDelete(n, v, m))
  BY <1>1, <1>2 DEF ToDelete, OnDuty
<1>4. NodeKnows(n, v, ToActivate(n, v, m))
  BY <1>1, <1>3 DEF ToActivate, OnDuty
<1>5. NodeKnows(n, v, ToCreate(n, v, m))
  BY <1>1, <1>4 DEF ToCreate, OnDuty
<1> QED BY <1>1, <1>2, <1>3, <1>4, <1>5

LEMMA AfterKnows ==
    ASSUME NEW n \in Nodes, NEW v, NEW m,
           v.node = n /\ v.spec[Snap] = "Active" => v.statusNode = n
    PROVE  NodeKnows(n, v, AfterPool(n, v, m))
<1>1. CASE AfterPool(n, v, m) = "idle"
  BY <1>1 DEF NodeKnows, OnDuty
<1>2. CASE AfterPool(n, v, m) # "idle"
  <2>1. v.node = n /\ v.statusNode \in {n, None} /\ AfterPool(n, v, m) = ToCreate(n, v, m)
    BY <1>2 DEF AfterPool
  <2> QED BY <2>1, DutyKnows
<1> QED BY <1>1, <1>2

\* The steps that find the lock to be released.
LEMMA UnlockSteps ==
    ASSUME NEW n, NEW v, NEW m
    PROVE  /\ ToUnlock(n, v, m) = "unlock" => m.lock = n
           /\ ToActivate(n, v, m) = "unlock" => m.lock = n
           /\ ToCreate(n, v, m) = "unlock" => m.lock = n
           /\ AfterPool(n, v, m) = "unlock" => m.lock = n
<1>1. ToUnlock(n, v, m) = "unlock" => m.lock = n
  BY DEF ToUnlock
<1>2. ToDelete(n, v, m) = "unlock" => m.lock = n
  BY <1>1 DEF ToDelete
<1>3. ToActivate(n, v, m) = "unlock" => m.lock = n
  BY <1>2 DEF ToActivate
<1>4. ToCreate(n, v, m) = "unlock" => m.lock = n
  BY <1>3 DEF ToCreate
<1> QED BY <1>1, <1>3, <1>4 DEF AfterPool

\* What a node step does to the copy it works from, and what it writes.
Carries(n, v, p) ==
    /\ NodeKnows(n, v, p) /\ (p = "unlock" => lvm'.lock = n)
    /\ v.spec = Base(n).spec /\ v.node = Base(n).node
ReadsWell(n, v, p) ==
    /\ p = "down" => Lowered(v, pool) /\ (ServiceOK => ~InService(pool))
    /\ p # "down" => Same(v, pool)
    /\ cache[n].spec = pool.spec /\ cache[n].node = pool.node
WritesWell(n, v) ==
    /\ cache[n].spec = pool.spec /\ cache[n].node = pool.node
    /\ v.spec = pool.spec /\ v.node = pool.node /\ v.phase = pool.phase
    /\ Calm(v)
    /\ v.status[Snap] = "Active" =>
          \/ pool.status[Snap] = "Active" /\ v.statusNode = pool.statusNode
          \/ /\ v.spec[Snap] = "Active" /\ v.statusNode = n /\ v.node = n
             /\ PathExists(n, Snap) /\ lvm' = lvm
NodeReads(n) ==
    \E v, p, b : Reads(n, v, b, p) /\ Carries(n, v, p) /\ (b => ReadsWell(n, v, p))
NodeWrites(n) ==
    \E v, p, b : Writes(n, v, b, p) /\ p # "down" /\ Carries(n, v, p) /\ (b => WritesWell(n, v))

\* A reconcile that ends has no copy to speak of.
LEMMA EndReads ==
    ASSUME TypeOK, NEW n \in Nodes, Return(n) \/ Fail(n), pool' = pool
    PROVE  NodeReads(n)
<1>1. Elsewhere(n) /\ Stopped(n)
  BY EndsDo, ProcsFacts
<1>2. Reads(n, Base(n), FALSE, "idle")
  BY <1>1 DEF Reads
<1>3. Carries(n, Base(n), "idle")
  BY DEF Carries, NodeKnows, OnDuty
<1> QED BY <1>2, <1>3 DEF NodeReads

\* The steps that activate or deactivate the pool.
LEMMA PoolActivationDoes ==
    ASSUME TypeOK, CopyInv, NEW n \in Nodes, 
           ActivatePool(n) \/ RecordActive(n) \/ DeactivatePool(n) \/ RecordInactive(n)
    PROVE  NodeReads(n) \/ NodeWrites(n)
<1>0. /\ n \in Procs /\ n \in Caches /\ n # None /\ Snap \in LVs /\ LVs = {Vol, Snap}
      /\ cache[n] \in Pool /\ local[n] \in Pool /\ pool \in Pool
  BY ProcsFacts, NamesAssumption DEF LVs, TypeOK
<1>1. CASE ActivatePool(n)
  <2> DEFINE v == cache[n]
  <2>1. StartsNode(n) /\ ShouldBeActive(n, v) /\ pool' = pool
    BY <1>1 DEF ActivatePool
  <2>2. CASE Return(n) \/ Fail(n)
    BY <2>1, <2>2, EndReads
  <2>3. CASE v.statusNode \in {n, None} /\ Continue(n, v, v = pool, "up")
    <3>1. Reads(n, v, v = pool, "up")
      BY <1>0, <2>1, <2>3, ContinueReads
    <3>2. v.node = n /\ v.spec[Snap] = "Active"
      BY <1>0, <2>1 DEF ShouldBeActive, CopyInv, VolOff
    <3>3. v = Base(n)
      BY <2>1 DEF StartsNode, Starts, Base
    <3>4. Carries(n, v, "up")
      BY <2>3, <3>2, <3>3 DEF Carries, NodeKnows, OnDuty
    <3>5. v = pool => ReadsWell(n, v, "up")
      BY DEF ReadsWell, Same
    <3> QED BY <3>1, <3>4, <3>5 DEF NodeReads
  <2> QED BY <1>1, <2>2, <2>3 DEF ActivatePool
<1>2. CASE RecordActive(n)
  <2> DEFINE v == [local[n] EXCEPT !.active = TRUE, !.statusNode = n]
             p == AfterPool(n, v, lvm)
  <2>1. /\ v.spec = local[n].spec /\ v.status = local[n].status /\ v.node = local[n].node
        /\ v.phase = local[n].phase /\ v.statusNode = n
    BY <1>0 DEF Pool
  <2>2. /\ pc[n] = "up" /\ lvm' = lvm
        /\ \/ Write(n, v, n \in fresh, p)
           \/ v = local[n] /\ Continue(n, v, n \in fresh, p) /\ UNCHANGED pool
    BY <1>2 DEF RecordActive
  <2>3. NodeKnows(n, local[n], "up")
    BY <2>2 DEF CopyInv, NodesKnow
  <2>4. p # "down" /\ Carries(n, v, p)
    <3>1. NodeKnows(n, v, p)
      BY <2>1, AfterKnows
    <3>2. p = "unlock" => lvm'.lock = n
      BY <2>2, UnlockSteps
    <3>3. v.spec = Base(n).spec /\ v.node = Base(n).node
      BY <2>1, <2>2 DEF Base
    <3>4. p # "down"
      BY NextSteps
    <3> QED BY <3>1, <3>2, <3>3, <3>4 DEF Carries
  <2>5. n \in fresh => Same(local[n], pool) /\ cache[n].spec = pool.spec /\ cache[n].node = pool.node
    BY <2>2 DEF CopyInv, FreshOK, FreshOf
  <2>6. n \in fresh => WritesWell(n, v)
    <3>1. local[n].statusNode \in {n, None}
      BY <2>3 DEF NodeKnows
    <3> SUFFICES ASSUME n \in fresh PROVE WritesWell(n, v)
      OBVIOUS
    <3>2. v.status = pool.status /\ pool.statusNode \in {n, None}
      BY <2>1, <2>5, <3>1 DEF Same
    <3>3. pool.status[Snap] = "Active" => pool.statusNode = n
      BY <1>0, <3>2 DEF Calm, CopyInv, IdleOK
    <3> QED BY <1>0, <2>1, <2>5, <3>2, <3>3 DEF WritesWell, Same, Calm
  <2>7. n \in fresh /\ v = local[n] => ReadsWell(n, v, p)
    BY <2>4, <2>5 DEF ReadsWell
  <2> HIDE DEF v, p
  <2>8. Writes(n, v, n \in fresh, p) \/ (v = local[n] /\ Reads(n, v, n \in fresh, p))
    BY <1>0, <2>2, ContinueReads, WriteWrites
  <2>9. CASE Writes(n, v, n \in fresh, p)
    BY <2>4, <2>6, <2>9 DEF NodeWrites
  <2>10. CASE v = local[n] /\ Reads(n, v, n \in fresh, p)
    <3>1. Reads(n, v, n \in fresh, p) /\ Carries(n, v, p) /\ (n \in fresh => ReadsWell(n, v, p))
      BY <2>4, <2>7, <2>10
    <3> QED BY ONLY <3>1 DEF NodeReads
  <2> QED BY <2>8, <2>9, <2>10
<1>3. CASE DeactivatePool(n)
  <2> DEFINE v == cache[n]
             w == [v EXCEPT !.status = [l \in LVs |-> IF l \in Listed(v) THEN "Inactive" ELSE "none"]]
             p == AfterPool(n, v, lvm)
  <2>1. /\ StartsNode(n) /\ ~ShouldBeActive(n, v) /\ pool' = pool
        /\ \/ Continue(n, v, v = pool, p) /\ lvm' = lvm
           \/ (IsUp(n) \/ v.statusNode = n) /\ Continue(n, w, v = pool, "down")
           \/ Fail(n)
    BY <1>3 DEF DeactivatePool
  <2>2. v = Base(n) /\ ~AsksFor(n, v)
    BY <1>0, <2>1 DEF StartsNode, Starts, Base, ShouldBeActive, AsksFor
  <2>3. CASE Fail(n)
    BY <2>1, <2>3, EndReads
  <2>4. CASE Continue(n, v, v = pool, p) /\ lvm' = lvm
    <3>1. Reads(n, v, v = pool, p)
      BY <1>0, <2>1, <2>4, ContinueReads
    <3>2. Carries(n, v, p) /\ p # "down"
      BY <2>2, <2>4, AfterKnows, UnlockSteps, NextSteps DEF Carries, AsksFor
    <3>3. v = pool => ReadsWell(n, v, p)
      BY <3>2 DEF ReadsWell, Same
    <3> QED BY <3>1, <3>2, <3>3 DEF NodeReads
  <2>5. CASE (IsUp(n) \/ v.statusNode = n) /\ Continue(n, w, v = pool, "down")
    <3>1. /\ w.spec = v.spec /\ w.node = v.node /\ w.statusNode = v.statusNode /\ w.phase = v.phase
          /\ w.status = [l \in LVs |-> IF v.status[l] = "none" THEN "none" ELSE "Inactive"]
      BY <1>0 DEF Pool, Listed
    <3>2. Carries(n, w, "down")
      BY <2>1, <2>2, <3>1 DEF Carries, NodeKnows, OnDuty, ShouldBeActive
    <3>3. v = pool /\ ServiceOK => ~InService(pool)
      <4> SUFFICES ASSUME v = pool, ServiceOK, InService(pool) PROVE FALSE
        OBVIOUS
      <4>1. Serves(pool.statusNode)
        BY DEF ServiceOK
      <4>2. pool.statusNode # n
        BY <2>2, <4>1 DEF Serves, AsksFor, InService
      <4> QED BY <2>5, <4>1, <4>2 DEF Serves, IsUp, PathExists
    <3>4. v = pool => ReadsWell(n, w, "down")
      BY <3>1, <3>3 DEF ReadsWell, Lowered
    <3> HIDE DEF w
    <3>5. Reads(n, w, v = pool, "down")
      BY <1>0, <2>1, <2>5, ContinueReads
    <3> QED BY <3>2, <3>4, <3>5 DEF NodeReads
  <2> QED BY <2>1, <2>3, <2>4, <2>5
<1>4. CASE RecordInactive(n)
  <2> DEFINE v == [local[n] EXCEPT !.active = FALSE, !.statusNode = None]
             p == AfterPool(n, v, lvm)
  <2>1. /\ v.spec = local[n].spec /\ v.status = local[n].status /\ v.node = local[n].node
        /\ v.phase = local[n].phase /\ v.statusNode = None
    BY <1>0 DEF Pool
  <2>2. /\ pc[n] = "down" /\ lvm' = lvm
        /\ \/ Write(n, v, n \in fresh, p)
           \/ v = local[n] /\ Continue(n, v, n \in fresh, p) /\ UNCHANGED pool
    BY <1>4 DEF RecordInactive
  <2>3. ~ShouldBeActive(n, local[n])
    BY <2>2 DEF CopyInv, NodesKnow, NodeKnows
  <2>4. p # "down" /\ Carries(n, v, p)
    <3>1. NodeKnows(n, v, p)
      <4>1. ~(v.node = n /\ v.spec[Snap] = "Active")
        BY <1>0, <2>1, <2>3 DEF ShouldBeActive
      <4> QED BY <4>1, AfterKnows
    <3>2. p = "unlock" => lvm'.lock = n
      BY <2>2, UnlockSteps
    <3>3. v.spec = Base(n).spec /\ v.node = Base(n).node
      BY <2>1, <2>2 DEF Base
    <3>4. p # "down"
      BY NextSteps
    <3> QED BY <3>1, <3>2, <3>3, <3>4 DEF Carries
  <2>5. n \in fresh => Lowered(local[n], pool) /\ cache[n].spec = pool.spec /\ cache[n].node = pool.node
    BY <2>2 DEF CopyInv, FreshOK, FreshOf
  <2>6. n \in fresh => WritesWell(n, v)
    <3> SUFFICES ASSUME n \in fresh PROVE WritesWell(n, v)
      OBVIOUS
    <3>1. \A l \in LVs : v.status[l] # "Active"
      BY <2>1, <2>5 DEF Lowered
    <3> QED BY <1>0, <2>1, <2>5, <3>1 DEF WritesWell, Lowered, Calm
  <2>7. n \in fresh /\ v = local[n] => ReadsWell(n, v, p)
    <3> SUFFICES ASSUME n \in fresh, v = local[n] PROVE Same(v, pool)
      BY <2>4, <2>5 DEF ReadsWell
    <3>1. pool.statusNode = None
      BY <2>1, <2>5 DEF Lowered
    <3>2. \A l \in LVs : pool.status[l] \in {"none", "Inactive"}
      BY <1>0, <3>1, PoolFields DEF CopyInv, IdleOK, Calm
    <3>3. \A l \in LVs : v.status[l] = pool.status[l]
      BY <2>1, <2>5, <3>2 DEF Lowered
    <3>4. v.status = pool.status
      BY <1>0, <2>1, <3>3, PoolFields
    <3> QED BY <2>1, <2>5, <3>4 DEF Same, Lowered
  <2> HIDE DEF v, p
  <2>8. Writes(n, v, n \in fresh, p) \/ (v = local[n] /\ Reads(n, v, n \in fresh, p))
    BY <1>0, <2>2, ContinueReads, WriteWrites
  <2>9. CASE Writes(n, v, n \in fresh, p)
    BY <2>4, <2>6, <2>9 DEF NodeWrites
  <2>10. CASE v = local[n] /\ Reads(n, v, n \in fresh, p)
    <3>1. Reads(n, v, n \in fresh, p) /\ Carries(n, v, p) /\ (n \in fresh => ReadsWell(n, v, p))
      BY <2>4, <2>7, <2>10
    <3> QED BY ONLY <3>1 DEF NodeReads
  <2> QED BY <2>8, <2>9, <2>10
<1> QED BY <1>1, <1>2, <1>3, <1>4

\* The steps that make, activate and remove thin LVs.
LEMMA ThinLvDoes ==
    ASSUME TypeOK, CopyInv, NEW n \in Nodes,
           \/ CreateThinLv(n) \/ RecordThinLv(n) \/ ActivateThinLvs(n)
           \/ DeleteThinLvs(n) \/ RecordDeleted(n) \/ UnlockPool(n)
    PROVE  NodeReads(n) \/ NodeWrites(n)
<1> DEFINE v == local[n]
<1>0. /\ n \in Procs /\ n # None /\ Snap \in LVs /\ Vol \in LVs /\ LVs = {Vol, Snap}
      /\ v \in Pool /\ pool \in Pool
  BY ProcsFacts, NamesAssumption DEF LVs, TypeOK
<1>1. pc[n] \in OnDuty \cup {"unlock"} /\ pc[n] \notin {"idle", "down"}
  BY DEF CreateThinLv, RecordThinLv, ActivateThinLvs, DeleteThinLvs, RecordDeleted, UnlockPool, OnDuty
<1>2. /\ v.node = n /\ v.statusNode \in {n, None} /\ (v.spec[Snap] = "Active" => v.statusNode = n)
      /\ v = Base(n)
  BY <1>1 DEF CopyInv, NodesKnow, NodeKnows, Base
<1>3. n \in fresh => Same(v, pool) /\ cache[n].spec = pool.spec /\ cache[n].node = pool.node
  BY <1>1 DEF CopyInv, FreshOK, FreshOf
<1>4. n \in fresh /\ v.statusNode = None => \A l \in LVs : v.status[l] # "Active"
  BY <1>3 DEF Same, CopyInv, IdleOK, Calm
<1>5. v.spec[Vol] # "Active"
  BY <1>0 DEF CopyInv, VolOff
<1> HIDE DEF v
<1>6. ASSUME NEW p, p \in OnDuty \/ (NodeKnows(n, v, p) /\ (p = "unlock" => lvm'.lock = n) /\ p # "down"),
             Continue(n, v, n \in fresh, p), pool' = pool
      PROVE  NodeReads(n)
  <2>1. Reads(n, v, n \in fresh, p)
    BY <1>0, <1>6, ContinueReads
  <2>2. Carries(n, v, p)
    BY <1>2, <1>6, DutyKnows DEF Carries, OnDuty
  <2>3. n \in fresh => ReadsWell(n, v, p)
    BY <1>3, <1>6 DEF ReadsWell, OnDuty
  <2> QED BY ONLY <2>1, <2>2, <2>3 DEF NodeReads
<1>7. ASSUME NEW w, NEW p, NodeKnows(n, w, p), p = "unlock" => lvm'.lock = n, p # "down",
             w.spec = v.spec, w.node = v.node, w.phase = v.phase, n \in fresh => WritesWell(n, w),
             Write(n, w, n \in fresh, p)
      PROVE  NodeWrites(n)
  <2>1. Writes(n, w, n \in fresh, p)
    BY <1>0, <1>7, WriteWrites
  <2>2. Carries(n, w, p)
    BY <1>2, <1>7 DEF Carries
  <2>3. p # "down" /\ (n \in fresh => WritesWell(n, w))
    BY <1>7
  <2> QED BY ONLY <2>1, <2>2, <2>3 DEF NodeWrites
<1>8. CASE CreateThinLv(n)
  <2>1. pool' = pool /\ (Continue(n, v, n \in fresh, "record") \/ Fail(n))
    BY <1>8 DEF CreateThinLv, v
  <2> QED BY <1>6, <2>1, EndReads DEF OnDuty
<1>9. CASE RecordThinLv(n)
  <2> DEFINE l == IF MustSnapshot(v) THEN Snap ELSE Vol
             w == [v EXCEPT !.status[l] = IF @ = "none" THEN "Inactive" ELSE @,
                            !.have = IF l = Vol THEN lvm.size ELSE @]
             p == ToCreate(n, w, lvm)
  <2>1. Write(n, w, n \in fresh, p) /\ lvm' = lvm
    BY <1>9 DEF RecordThinLv, v
  <2>2. /\ w.spec = v.spec /\ w.node = v.node /\ w.phase = v.phase /\ w.statusNode = v.statusNode
        /\ \A k \in LVs : w.status[k] = "Active" => v.status[k] = "Active"
    BY <1>0 DEF Pool
  <2> HIDE DEF w
  <2>3. NodeKnows(n, w, p)
    BY <1>2, <2>2, DutyKnows
  <2>4. p # "down" /\ (p = "unlock" => lvm'.lock = n)
    BY <2>1, NextSteps, UnlockSteps
  <2>5. n \in fresh => WritesWell(n, w)
    BY <1>0, <1>3, <1>4, <2>2 DEF WritesWell, Same, Calm
  <2> HIDE DEF w, p
  <2> QED BY <1>7, <2>1, <2>2, <2>3, <2>4, <2>5
<1>10. CASE ActivateThinLvs(n)
  <2>1. PICK l \in Listed(v) :
          \/ Continue(n, v, n \in fresh, ToActivate(n, v, lvm')) /\ UNCHANGED pool
          \/ Fail(n) /\ UNCHANGED <<pool, lvm>>
          \/ /\ RightDevice(n, v, lvm, l) /\ lvm' = lvm
             /\ LET w == [v EXCEPT !.status[l] = IF v.spec[l] = "Active" THEN "Active" ELSE "Inactive"]
                IN  Write(n, w, n \in fresh, ToActivate(n, w, lvm))
    BY <1>10 DEF ActivateThinLvs, v
  <2>2. CASE Continue(n, v, n \in fresh, ToActivate(n, v, lvm')) /\ UNCHANGED pool
    <3>1. NodeKnows(n, v, ToActivate(n, v, lvm'))
      BY <1>2, DutyKnows
    <3>2. ToActivate(n, v, lvm') # "down" /\ (ToActivate(n, v, lvm') = "unlock" => lvm'.lock = n)
      BY NextSteps, UnlockSteps
    <3> QED BY <1>6, <2>2, <3>1, <3>2
  <2>3. CASE Fail(n) /\ UNCHANGED <<pool, lvm>>
    BY <2>3, EndReads
  <2> DEFINE w == [v EXCEPT !.status[l] = IF v.spec[l] = "Active" THEN "Active" ELSE "Inactive"]
             p == ToActivate(n, w, lvm)
  <2>4. CASE RightDevice(n, v, lvm, l) /\ lvm' = lvm /\ Write(n, w, n \in fresh, p)
    <3>1. l \in LVs
      BY DEF Listed
    <3>2. /\ w.spec = v.spec /\ w.node = v.node /\ w.phase = v.phase /\ w.statusNode = v.statusNode
          /\ \A k \in LVs : w.status[k] = "Active" =>
                v.status[k] = "Active" \/ (k = l /\ v.spec[l] = "Active")
      BY <1>0, <3>1 DEF Pool
    <3>3. v.spec[l] = "Active" => l = Snap /\ v.statusNode = n /\ PathExists(n, Snap)
      BY <1>0, <1>2, <1>5, <2>4, <3>1 DEF RightDevice, Device, PathExists
    <3> HIDE DEF w
    <3>4. NodeKnows(n, w, p)
      BY <1>2, <3>2, DutyKnows
    <3>5. p # "down" /\ (p = "unlock" => lvm'.lock = n)
      BY <2>4, NextSteps, UnlockSteps
    <3> HIDE DEF w, p
    <3>6. n \in fresh => WritesWell(n, w)
      <4> SUFFICES ASSUME n \in fresh PROVE WritesWell(n, w)
        OBVIOUS
      <4>1. Calm(w)
        BY <1>0, <1>4, <3>2, <3>3 DEF Calm
      <4>2. w.status[Snap] = "Active" => v.status[Snap] = "Active" \/ (v.spec[Snap] = "Active" /\ l = Snap)
        BY <1>0, <3>2
      <4>3. /\ w.spec = pool.spec /\ w.node = pool.node /\ w.phase = pool.phase
            /\ w.statusNode = pool.statusNode /\ v.status = pool.status
        BY <1>3, <3>2 DEF Same
      <4>4. v.spec[Snap] = "Active" /\ l = Snap => w.statusNode = n /\ w.node = n /\ PathExists(n, Snap)
        BY <1>2, <3>2, <3>3
      <4> QED BY <1>3, <2>4, <3>2, <4>1, <4>2, <4>3, <4>4 DEF WritesWell
    <3> QED BY <1>7, <2>4, <3>2, <3>4, <3>5, <3>6
  <2> QED BY <2>1, <2>2, <2>3, <2>4
<1>11. CASE DeleteThinLvs(n)
  <2>1. pool' = pool /\ (Continue(n, v, n \in fresh, "deleted") \/ Fail(n))
    BY <1>11 DEF DeleteThinLvs, v
  <2> QED BY <1>6, <2>1, EndReads DEF OnDuty
<1>12. CASE RecordDeleted(n)
  <2> DEFINE w == DropRemoved(v)
             p == ToUnlock(n, w, lvm)
  <2>1. Write(n, w, n \in fresh, p) /\ lvm' = lvm
    BY <1>12 DEF RecordDeleted, v
  <2>2. /\ w.spec = v.spec /\ w.node = v.node /\ w.phase = v.phase /\ w.statusNode = v.statusNode
        /\ \A k \in LVs : w.status[k] = "Active" => v.status[k] = "Active"
    BY <1>0 DEF Pool, DropRemoved
  <2>3. NodeKnows(n, w, p)
    BY <1>2, <2>2, DutyKnows
  <2>4. p # "down" /\ (p = "unlock" => lvm'.lock = n)
    BY <2>1, NextSteps, UnlockSteps
  <2>5. n \in fresh => WritesWell(n, w)
    BY <1>0, <1>3, <1>4, <2>2 DEF WritesWell, Same, Calm
  <2> HIDE DEF w, p
  <2> QED BY <1>7, <2>1, <2>2, <2>3, <2>4, <2>5
<1>13. CASE UnlockPool(n)
  BY <1>13, EndReads DEF UnlockPool
<1> QED BY <1>8, <1>9, <1>10, <1>11, <1>12, <1>13

\* A step of the node reconciler keeps what holds whatever fails.
LEMMA NodeDoes ==
    ASSUME TypeOK, CopyInv, NEW n \in Nodes, NodeAct(n)
    PROVE  /\ NodeReads(n) \/ NodeWrites(n)
           /\ NodeLvm(n)
           /\ UNCHANGED <<leader, kind, own, deleting, label, dd, cache>>
           /\ \A q \in Procs \ {n} : pc'[q] = pc[q] /\ local'[q] = local[q]
           /\ pool'.spec = pool.spec /\ pool'.node = pool.node /\ pool'.phase = pool.phase
<1>1. NodeReads(n) \/ NodeWrites(n)
  BY PoolActivationDoes, ThinLvDoes DEF NodeAct
<1>2. Elsewhere(n) /\ (pool' = pool \/ \E v : pool' = v /\ WritesWell(n, v))
  BY <1>1 DEF NodeReads, NodeWrites, Reads, Writes
<1>3. pool'.spec = pool.spec /\ pool'.node = pool.node /\ pool'.phase = pool.phase
  BY <1>2 DEF WritesWell
<1>4. UNCHANGED <<leader, kind, own, deleting, label, dd>>
  BY DEF NodeAct, ActivatePool, RecordActive, DeactivatePool, RecordInactive, CreateThinLv,
         RecordThinLv, ActivateThinLvs, DeleteThinLvs, RecordDeleted, UnlockPool, ownerVars
<1> QED BY <1>1, <1>2, <1>3, <1>4, NodeLvmKept DEF CopyInv, Elsewhere

LEMMA NodeCopies ==
    ASSUME TypeOK, CopyInv, NEW n \in Nodes, NodeAct(n)
    PROVE  CopyInv'
<1>0. /\ n \in Procs /\ n \in Caches /\ n # None /\ Snap \in LVs /\ Vol \in LVs
      /\ Snap \in Procs /\ Snap # n /\ Snap \notin Nodes /\ LVs = {Vol, Snap}
      /\ Nodes \subseteq Procs /\ local' \in [Procs -> Pool] /\ fresh \subseteq Procs
  BY ProcsFacts, NamesAssumption, TypesKept DEF LVs, TypeOK, NodeAct, Next, PatientNext, NodeStep
<1>1. NodeReads(n) \/ NodeWrites(n)
  BY NodeDoes
<1>2. PICK v, p, b : 
        \/ Reads(n, v, b, p) /\ Carries(n, v, p) /\ (b => ReadsWell(n, v, p))
        \/ Writes(n, v, b, p) /\ p # "down" /\ Carries(n, v, p) /\ (b => WritesWell(n, v))
  BY <1>1 DEF NodeReads, NodeWrites
<1>3. /\ Elsewhere(n) /\ (Stopped(n) \/ Went(n, v, p)) /\ Carries(n, v, p)
      /\ pool' = pool \/ (b /\ pool' = v /\ Writes(n, v, b, p) /\ p # "down" /\ WritesWell(n, v))
  BY <1>2 DEF Reads, Writes
<1>4. NodeLvm(n) /\ UNCHANGED <<leader, kind, own, deleting, label, dd>>
  BY NodeDoes
<1>6. /\ cache' = cache /\ \A q \in Procs \ {n} : pc'[q] = pc[q] /\ local'[q] = local[q]
      /\ pc'[n] = "idle" \/ (pc'[n] = p /\ local'[n] = v)
      /\ local'[n] \in {NoPool, v}
  BY <1>3 DEF Elsewhere, Stopped, Went
<1>7. pool'.spec = pool.spec /\ pool'.node = pool.node /\ pool'.phase = pool.phase
  BY <1>3 DEF WritesWell
<1>8. NoPool.spec[Vol] # "Active" /\ NoPool.spec[Snap] # "Active" /\ NoPool.node = None
  BY <1>0 DEF NoPool
<1>9. LvmOK'
  <2>1. (lvm.lock # None \/ \E l \in LVs : lvm.lvs[l] = "active") => lvm.pool
    BY DEF CopyInv, LvmOK
  <2>2. lvm'.lock # None \/ (\E l \in LVs : lvm'.lvs[l] = "active") => lvm'.pool
    BY <1>4 DEF NodeLvm
  <2>3. ASSUME NEW q \in Nodes, pc'[q] = "unlock"
        PROVE  lvm'.lock = q \/ (~lvm'.pool /\ Ended(cache'[PoolCtl]))
    <3>1. CASE q = n
      BY <1>3, <1>6, <2>3, <3>1 DEF Carries
    <3>2. CASE q # n
      <4>1. lvm.lock = q \/ (~lvm.pool /\ Ended(cache[PoolCtl]))
        BY <1>0, <1>6, <2>3, <3>2 DEF CopyInv, LvmOK
      <4>2. q # None
        BY NamesAssumption
      <4> QED BY <1>4, <1>6, <3>2, <4>1, <4>2 DEF NodeLvm
    <3> QED BY <3>1, <3>2
  <2>4. Ended(cache'[PoolCtl]) => Ended(pool')
    BY <1>6, <1>7 DEF CopyInv, LvmOK, Ended
  <2> QED BY <2>2, <2>3, <2>4 DEF LvmOK, Ended
<1>10. VolOff'
  <2>1. v.spec[Vol] # "Active"
    BY <1>0, <1>3 DEF Carries, Base, CopyInv, VolOff
  <2> QED BY <1>6, <1>7, <1>8, <2>1 DEF CopyInv, VolOff
<1>11. FreshOK'
  <2>1. FreshOK
    BY DEF CopyInv
  <2>2. CASE Reads(n, v, b, p) /\ (b => ReadsWell(n, v, p))
    BY <1>0, <2>1, <2>2, ReadsFresh DEF ReadsWell
  <2>3. CASE Writes(n, v, b, p) /\ p # "down" /\ (b => WritesWell(n, v))
    BY <1>0, <2>1, <2>3, WritesFresh DEF WritesWell
  <2> QED BY <1>2, <2>2, <2>3
<1>12. IdleOK'
  BY <1>3 DEF CopyInv, IdleOK, Calm, WritesWell
<1>13. NodesKnow'
  <2> SUFFICES ASSUME NEW q \in Nodes PROVE NodeKnows(q, local'[q], pc'[q])
    BY DEF NodesKnow, NodeKnows, ShouldBeActive
  <2>1. CASE q = n
    <3>1. CASE pc'[n] = "idle"
      BY <2>1, <3>1 DEF NodeKnows, OnDuty
    <3>2. CASE pc'[n] = p /\ local'[n] = v
      BY <1>3, <2>1, <3>2 DEF Carries
    <3> QED BY <1>6, <3>1, <3>2
  <2>2. CASE q # n
    BY <1>0, <1>6, <2>2 DEF CopyInv, NodesKnow
  <2> QED BY <2>1, <2>2
<1>14. TargetOK'
  <2>1. pool'.status[Snap] = "Active" /\ pool'.spec[Snap] # "Active" => pool.status[Snap] = "Active"
    BY <1>3 DEF WritesWell
  <2> QED BY <1>0, <1>4, <1>6, <1>7, <2>1 DEF CopyInv, TargetOK, Retired
<1>15. OwnersOn'
  BY <1>4, <1>6, ProcsFacts DEF CopyInv, OwnersOn
<1> QED BY <1>9, <1>10, <1>11, <1>12, <1>13, <1>14, <1>15 DEF CopyInv

\* It also keeps Snap in service.
LEMMA NodeService ==
    ASSUME TypeOK, CopyInv, ServiceInv, NEW n \in Nodes, NodeAct(n)
    PROVE  ServiceInv'
<1>0. /\ n \in Procs /\ n # None /\ Nodes \subseteq Procs /\ fresh \subseteq Procs
  BY ProcsFacts, NamesAssumption DEF TypeOK
<1>1. NodeReads(n) \/ NodeWrites(n)
  BY NodeDoes
<1>2. PICK v, p, b : 
        \/ Reads(n, v, b, p) /\ Carries(n, v, p) /\ (b => ReadsWell(n, v, p))
        \/ Writes(n, v, b, p) /\ p # "down" /\ Carries(n, v, p) /\ (b => WritesWell(n, v))
  BY <1>1 DEF NodeReads, NodeWrites
<1>3. /\ Elsewhere(n) /\ (Stopped(n) \/ Went(n, v, p)) /\ Carries(n, v, p)
      /\ pool' = pool \/ (b /\ pool' = v /\ WritesWell(n, v))
  BY <1>2 DEF Reads, Writes
<1>4. NodeLvm(n)
  BY NodeDoes
<1>6. /\ cache' = cache /\ \A q \in Procs \ {n} : pc'[q] = pc[q] /\ local'[q] = local[q]
      /\ pc'[n] = "idle" \/ (pc'[n] = p /\ local'[n] = v)
  BY <1>3 DEF Elsewhere, Stopped, Went
<1>7. pool'.spec = pool.spec /\ pool'.node = pool.node /\ pool'.phase = pool.phase
  BY NodeDoes
<1>8. ServiceOK'
  <2> SUFFICES ASSUME InService(pool)' PROVE Serves(pool.statusNode)'
    BY DEF ServiceOK
  <2>1. CASE InService(pool) /\ pool'.statusNode = pool.statusNode
    <3> DEFINE d == pool.statusNode
    <3>1. Serves(d)
      BY <2>1 DEF ServiceInv, ServiceOK
    <3>2. d \in Nodes /\ d # None /\ PathExists(d, Snap) /\ AsksFor(d, cache[d])
      BY <3>1, NamesAssumption DEF Serves
    <3>3. CASE d = n
      <4>1. AsksFor(n, Base(n))
        BY <3>1, <3>3 DEF Serves, Base
      <4>2. PathExists(n, Snap)'
        BY <1>4, <3>2, <3>3, <4>1 DEF NodeLvm
      <4>3. pc'[n] # "idle" => AsksFor(n, local'[n])
        BY <1>3, <1>6, <4>1 DEF Carries, AsksFor
      <4> QED BY <1>6, <1>7, <2>1, <3>1, <3>2, <3>3, <4>2, <4>3 DEF Serves, AsksFor
    <3>4. CASE d # n
      <4>1. lvm' = lvm
        BY <1>4, <3>2, <3>4 DEF NodeLvm, PathExists
      <4>2. pc'[d] = pc[d] /\ local'[d] = local[d]
        BY <1>0, <1>6, <3>2, <3>4
      <4> QED BY <1>6, <1>7, <2>1, <3>1, <4>1, <4>2 DEF Serves, AsksFor, PathExists
    <3> QED BY <3>3, <3>4
  <2>2. CASE ~(InService(pool) /\ pool'.statusNode = pool.statusNode)
    <3>1. WritesWell(n, v) /\ pool' = v
      BY <1>3, <2>2 DEF InService
    <3>2. v.statusNode = n /\ v.node = n /\ PathExists(n, Snap) /\ lvm' = lvm
      BY <1>7, <2>2, <3>1 DEF WritesWell, InService
    <3>3. AsksFor(n, cache[n]) /\ AsksFor(n, v)
      BY <3>1, <3>2 DEF WritesWell, AsksFor, InService
    <3> QED BY <1>6, <3>1, <3>2, <3>3 DEF Serves, AsksFor, PathExists
  <2> QED BY <2>1, <2>2
<1>9. DownOK'
  <2> SUFFICES ASSUME NEW q \in Nodes, q \in fresh', pc'[q] = "down" PROVE ~InService(pool)'
    BY DEF DownOK
  <2>1. CASE q = n
    <3>1. Reads(n, v, b, p) /\ (b => ReadsWell(n, v, p)) /\ b /\ p = "down"
      BY <1>2, <1>6, <2>1 DEF Reads, Writes, Stopped, Went
    <3> QED BY <3>1 DEF ReadsWell, ServiceInv, Reads, InService
  <2>2. CASE q # n
    <3>1. q \in fresh /\ pc[q] = "down"
      BY <1>0, <1>3, <1>6, <2>2 DEF Elsewhere
    <3>2. pool' = pool
      BY <1>2, <2>2 DEF Reads, Writes
    <3> QED BY <3>1, <3>2 DEF ServiceInv, DownOK, InService
  <2> QED BY <2>1, <2>2
<1> QED BY <1>8, <1>9 DEF ServiceInv

-----------------------------------------------------------------------------
(* The reconcilers of the owners. *)

\* What the reconciler of l may ask for its thin LV, from the newest copy.
Asks(l, s) ==
    \/ s = pool.spec[l]
    \/ /\ s = "Inactive" /\ pool.spec[l] = "none"
       /\ l = Vol => pc[Vol] = "add" \/ At(Vol, "create")
       /\ l = Snap => At(Snap, "snapshot") /\ SourceUsable /\ SourceFound(pool)
    \/ s = "Active" /\ l = Snap /\ pc[Snap] = "activate"
    \/ s = "Inactive" /\ pool.spec[l] = "Active" /\ At(l, "off")
    \/ s = "Removed" /\ pool.spec[l] # "none" /\ At(l, "remove")
    \/ s = "none" /\ pc[l] = "forget"

AsksIn(l, v) == \E s : Asks(l, s) /\ v.spec = [pool.spec EXCEPT ![l] = s]

\* Of what else it writes: what the node reports stays; the node in charge does while
\* Snap is to be active, and none but the leader's takes over.
Request(l, v) ==
    /\ AsksIn(l, v)
    /\ v.status = pool.status /\ v.statusNode = pool.statusNode /\ v.phase = pool.phase
    /\ v.spec[Snap] = "Active" /\ pool.node # None => v.node = pool.node
    /\ v.node \in {None, leader, pool.node}

\* The step that the reconciler goes on with, and what its copy then shows.
OwnerTo(l, v, p) ==
    \/ p \in {"idle", "retry"}
    \/ p = "ready" /\ l = Vol /\ At(Vol, "create") /\ v.status[Vol] # "none"
    \/ p = "ready" /\ l = Snap /\ At(Snap, "snapshot") /\ v.status[Snap] # "none" /\ v.spec[Snap] # "none"
    \/ p = "activate" /\ l = Snap /\ At(Snap, "snapshot") /\ v.status[Snap] # "none" /\ v.spec[Snap] # "none"
    \/ p = "label" /\ l = Snap /\ pc[Snap] = "activate" /\ InService(v)
    \/ p = "remove" /\ At(l, "off")
    \/ p = "forget" /\ At(l, "remove") /\ v.spec[l] = "Removed" /\ v.status[l] = "none"
    \/ p = "drop" /\ At(l, "remove") /\ v.spec[l] = "none"
    \/ p = "forgot" /\ pc[l] = "forget" /\ v.spec[l] = "none"
    \/ p = "finish" /\ (At(l, "remove") \/ pc[l] \in {"drop", "forgot"})

OwnerReads(l) ==
    \E v \in {Cached, local[l], NoPool} : \E b, p :
        Reads(l, v, b, p) /\ OwnerTo(l, v, p) /\ (b => Same(v, pool))
OwnerWrites(l) ==
    \E v, b, p : Writes(l, v, b, p) /\ (b => OwnerTo(l, v, p) /\ Request(l, v))
OwnerMakes(l) ==
    l = Vol /\ Writes(Vol, NewPool, TRUE, "add") /\ pool.phase = "none" /\ At(Vol, "create")
OwnerDeletes(l) ==
    /\ Exists(pool) /\ pool' = [pool EXCEPT !.phase = "deleting"]
    /\ Elsewhere(l) /\ (fresh' = {} \/ pool' = pool)
    /\ pc[l] \in {"drop", "forgot"} /\ Empty(local[l]) /\ local[l].phase = "live"
    /\ pc'[l] \in {"finish", "idle"} /\ local'[l] = NoPool /\ l \notin fresh'
OwnerTakes(l) == OwnerReads(l) \/ OwnerWrites(l) \/ OwnerMakes(l) \/ OwnerDeletes(l)

\* A reconcile that ends has nothing to say.
LEMMA EndTakes ==
    ASSUME TypeOK, NEW l \in LVs, Return(l) \/ Fail(l), pool' = pool
    PROVE  OwnerTakes(l)
<1>1. Elsewhere(l) /\ Stopped(l)
  BY EndsDo, ProcsFacts
<1>2. Reads(l, Cached, FALSE, "idle") /\ OwnerTo(l, Cached, "idle")
  BY <1>1 DEF Reads, OwnerTo
<1> QED BY <1>2 DEF OwnerTakes, OwnerReads

\* Recalc leaves the node in charge while a thin LV is to be active, and otherwise
\* chooses the leader's or none.
LEMMA RecalcNode ==
    ASSUME NEW v \in Pool, leader \in Nodes
    PROVE  /\ v.spec[Snap] = "Active" /\ v.node # None => Recalc(v).node = v.node
           /\ Recalc(v).node \in {None, leader, v.node}
<1>1. v.spec[Snap] = "Active" => NeedsActivation(v)
  BY ProcsFacts DEF NeedsActivation
<1> QED BY <1>1 DEF Recalc, Pool

\* What UpdateThinPoolLv writes in a copy v made from the copy old.
LEMMA UpdateTakes ==
    ASSUME TypeOK, NEW l \in LVs, NEW old \in Pool, old \in {Cached, local[l]}, NEW v \in Pool,
           NEW b, NEW p, UpdateThinPoolLv(l, old, v, b, p), b => Same(old, pool),
           v.status = old.status /\ v.statusNode = old.statusNode /\ v.phase = old.phase,
           v.node = old.node,
           b => AsksIn(l, v),
           OwnerTo(l, v, p)
    PROVE  OwnerTakes(l)
<1> DEFINE w == Recalc(v)
<1>0. leader \in Nodes /\ l \in Procs
  BY ProcsFacts DEF TypeOK
<1>1. /\ w \in Pool /\ w.spec = v.spec /\ w.status = v.status
      /\ w.phase = v.phase /\ w.statusNode = v.statusNode
  BY <1>0, RecalcFacts
<1>2. OwnerTo(l, w, p)
  BY <1>1 DEF OwnerTo, InService
<1>3. /\ v.spec[Snap] = "Active" /\ v.node # None => w.node = v.node
      /\ w.node \in {None, leader, v.node}
  BY <1>0, RecalcNode
<1> HIDE DEF w
<1>4. b => Request(l, w)
  BY <1>1, <1>3 DEF Request, Same, AsksIn
<1>5. CASE Write(l, w, b, p)
  <2>1. Writes(l, w, b, p)
    BY <1>0, <1>5, WriteWrites
  <2> QED BY ONLY <2>1, <1>2, <1>4 DEF OwnerTakes, OwnerWrites
<1>6. CASE w = old /\ Continue(l, old, b, p) /\ UNCHANGED pool
  <2>1. Reads(l, old, b, p)
    BY <1>0, <1>6, ContinueReads
  <2>2. OwnerTo(l, old, p) /\ (b => Same(old, pool)) /\ old \in {Cached, local[l], NoPool}
    BY <1>2, <1>6
  <2> QED BY ONLY <2>1, <2>2 DEF OwnerTakes, OwnerReads
<1> QED BY <1>5, <1>6 DEF UpdateThinPoolLv, w

LEMMA OwnerDoes ==
    ASSUME TypeOK, CopyInv, NEW l \in LVs, OwnerCall(l)
    PROVE  /\ OwnerTakes(l)
           /\ UNCHANGED <<leader, lvm, kind, own, deleting, label, dd>>
<1>0. l \in Procs /\ l \notin Nodes /\ Vol \in LVs /\ Snap \in LVs /\ Vol # Snap
  BY ProcsFacts
<1>1. Cached \in Pool /\ local[l] \in Pool /\ pool \in Pool
  BY <1>0, ProcsFacts DEF TypeOK, Cached
<1>2. size \in [spec: 1..MaxSize, status: 0..MaxSize]
  BY DEF TypeOK
<1>3. UNCHANGED <<leader, lvm, kind, own, deleting, label, dd>>
  BY DEF OwnerCall, CreateBlob, CreateBlobInNewPool, SnapshotBlob, ActivateBlobForCloneSource,
         DeactivateBlob, RemoveBlob, ForgetRemovedThinLv, DropReference, ownerVars
<1>4. /\ CachedIsFresh => Same(Cached, pool) /\ Cached = pool
      /\ l \in fresh => Same(local[l], pool)
  BY <1>0 DEF CachedIsFresh, CopyInv, FreshOK, FreshOf, Same
<1>5. CASE l = Vol /\ (CreateBlob \/ CreateBlobInNewPool)
  <2> DEFINE Add(v) == AddVol(v)
  <2>1. \A v \in Pool :
          /\ Add(v) \in Pool /\ Add(v).status = v.status /\ Add(v).statusNode = v.statusNode
          /\ Add(v).phase = v.phase /\ Add(v).node = v.node
          /\ Add(v).spec = [v.spec EXCEPT ![Vol] = IF v.spec[Vol] = "none" THEN "Inactive" ELSE v.spec[Vol]]
    <3> SUFFICES ASSUME NEW v \in Pool
                 PROVE  /\ Add(v) \in Pool /\ Add(v).status = v.status /\ Add(v).statusNode = v.statusNode
                        /\ Add(v).phase = v.phase /\ Add(v).node = v.node
                        /\ Add(v).spec = [v.spec EXCEPT ![Vol] = IF v.spec[Vol] = "none" THEN "Inactive"
                                                                 ELSE v.spec[Vol]]
      OBVIOUS
    <3>1. Add(v) \in Pool
      BY <1>2, <1>5, RequestTypes
    <3> QED BY <3>1 DEF AddVol, Pool
  <2> HIDE DEF Add
  <2>2. ASSUME NEW v \in Pool, Same(v, pool), pc[Vol] = "add" \/ At(Vol, "create")
        PROVE  AsksIn(l, Add(v))
    <3> DEFINE s == IF v.spec[Vol] = "none" THEN "Inactive" ELSE v.spec[Vol]
    <3>1. Asks(l, s)
      BY <1>0, <1>5, <2>2 DEF Asks, Same
    <3>2. Add(v).spec = [pool.spec EXCEPT ![l] = s]
      BY <1>5, <2>1, <2>2 DEF Same
    <3> QED BY <3>1, <3>2 DEF AsksIn
  <2>3. CASE CreateBlobInNewPool
    <3>1. pc[Vol] = "add" /\ UpdateThinPoolLv(Vol, local[Vol], Add(local[Vol]), Vol \in fresh, "idle")
      BY <2>3 DEF CreateBlobInNewPool, Add
    <3>2. \A w : OwnerTo(l, w, "idle")
      BY DEF OwnerTo
    <3> DEFINE w == Add(local[l])
    <3>3. w \in Pool
      BY <1>1, <2>1
    <3>4. /\ w.status = local[l].status /\ w.statusNode = local[l].statusNode
          /\ w.phase = local[l].phase /\ w.node = local[l].node
      BY <1>1, <2>1
    <3>5. l \in fresh => AsksIn(l, w)
      BY <1>1, <1>4, <2>2, <3>1
    <3>6. UpdateThinPoolLv(l, local[l], w, l \in fresh, "idle")
      BY <1>5, <3>1
    <3> HIDE DEF w
    <3>7. OwnerTakes(l)
      BY <1>1, <1>4, <3>2, <3>3, <3>4, <3>5, <3>6, UpdateTakes
    <3> QED BY <1>3, <3>7
  <2>4. CASE CreateBlob
    <3>1. CASE pool.phase = "none" /\ Write(Vol, NewPool, TRUE, "add")
      <4>1. At(Vol, "create")
        BY <2>4 DEF CreateBlob
      <4> QED BY <1>0, <1>3, <1>5, <3>1, <4>1, WriteWrites DEF OwnerTakes, OwnerMakes
    <3>2. CASE Fail(Vol) /\ UNCHANGED pool
      BY <1>3, <1>5, <3>2, EndTakes
    <3> DEFINE p == IF VolExists(Cached) THEN "ready" ELSE "idle"
    <3>3. CASE UpdateThinPoolLv(Vol, Cached, Add(Cached), CachedIsFresh, p)
      <4>1. At(Vol, "create")
        BY <2>4 DEF CreateBlob
      <4> DEFINE w == Add(Cached)
      <4>2. OwnerTo(l, w, p)
        BY <1>1, <1>5, <2>1, <4>1 DEF OwnerTo, VolExists
      <4>3. /\ w \in Pool /\ w.status = Cached.status /\ w.statusNode = Cached.statusNode
            /\ w.phase = Cached.phase /\ w.node = Cached.node
        BY <1>1, <2>1
      <4>4. CachedIsFresh => Same(Cached, pool) /\ AsksIn(l, w)
        BY <1>1, <1>4, <2>2, <4>1
      <4>5. UpdateThinPoolLv(l, Cached, w, CachedIsFresh, p)
        BY <1>5, <3>3
      <4> HIDE DEF p, w
      <4> QED BY <1>1, <1>3, <4>2, <4>3, <4>4, <4>5, UpdateTakes
    <3> QED BY <2>4, <3>1, <3>2, <3>3 DEF CreateBlob, Add
  <2> QED BY <1>5, <2>3, <2>4
<1>6. CASE l = Snap /\ SnapshotBlob
  <2> DEFINE v == [Cached EXCEPT !.refs = @ \cup {l}, !.spec[l] = IF @ = "none" THEN "Inactive" ELSE @]
             s == IF Cached.spec[l] = "none" THEN "Inactive" ELSE Cached.spec[l]
             p == IF Cached.status[l] # "none"
                  THEN IF kind = "Snapshot" THEN "ready" ELSE "activate" ELSE "idle"
  <2>1. v \in Pool
    BY <1>1, <1>2, RequestTypes
  <2>2. /\ v.status = Cached.status /\ v.statusNode = Cached.statusNode /\ v.phase = Cached.phase
        /\ v.node = Cached.node /\ v.spec = [Cached.spec EXCEPT ![l] = s] /\ v.spec[l] = s
    BY <1>1 DEF Pool
  <2>3. /\ At(Snap, "snapshot")
        /\ \/ Fail(l) /\ UNCHANGED pool
           \/ /\ SourceUsable /\ SourceFound(Cached)
              /\ UpdateThinPoolLv(l, Cached, v, CachedIsFresh, p)
    BY <1>6 DEF SnapshotBlob
  <2>4. OwnerTo(l, v, p)
    BY <1>6, <2>2, <2>3 DEF OwnerTo
  <2>5. CachedIsFresh /\ SourceUsable /\ SourceFound(Cached) => Asks(l, s)
    BY <1>0, <1>4, <1>6, <2>3 DEF Asks
  <2> HIDE DEF v, p, s
  <2>6. CASE Fail(l) /\ UNCHANGED pool
    BY <1>3, <2>6, EndTakes
  <2>7. CASE SourceUsable /\ SourceFound(Cached) /\ UpdateThinPoolLv(l, Cached, v, CachedIsFresh, p)
    <3>1. CachedIsFresh => AsksIn(l, v)
      BY <1>4, <2>2, <2>5, <2>7 DEF AsksIn
    <3> QED BY <1>1, <1>3, <1>4, <2>1, <2>2, <2>4, <2>7, <3>1, UpdateTakes
  <2> QED BY <2>3, <2>6, <2>7
<1>7. CASE l = Snap /\ ActivateBlobForCloneSource
  <2> DEFINE v == [Cached EXCEPT !.refs = @ \cup {l}, !.spec[l] = "Active"]
             p == IF Cached.status[l] = "Active" THEN "label" ELSE "idle"
  <2>1. v \in Pool
    BY <1>1, <1>2, RequestTypes
  <2>2. /\ v.status = Cached.status /\ v.statusNode = Cached.statusNode /\ v.phase = Cached.phase
        /\ v.node = Cached.node /\ v.spec = [Cached.spec EXCEPT ![l] = "Active"] /\ v.spec[l] = "Active"
    BY <1>1 DEF Pool
  <2>3. pc[Snap] = "activate" /\ UpdateThinPoolLv(l, Cached, v, CachedIsFresh, p)
    BY <1>7 DEF ActivateBlobForCloneSource
  <2>4. OwnerTo(l, v, p)
    BY <1>7, <2>2, <2>3 DEF OwnerTo, InService
  <2> HIDE DEF v, p
  <2>5. CachedIsFresh => AsksIn(l, v)
    <3>1. Asks(l, "Active")
      BY <1>7, <2>3 DEF Asks
    <3> QED BY <1>4, <2>2, <3>1 DEF AsksIn
  <2> QED BY <1>1, <1>3, <1>4, <2>1, <2>2, <2>3, <2>4, <2>5, UpdateTakes
<1>8. CASE DeactivateBlob(l)
  <2> DEFINE s == IF Cached.spec[l] = "Active" THEN "Inactive" ELSE Cached.spec[l]
             v == [Cached EXCEPT !.spec[l] = IF @ = "Active" THEN "Inactive" ELSE @]
             p == IF Cached.status[l] = "Active" THEN Pending(l) ELSE "remove"
  <2>1. v \in Pool
    BY <1>1, <1>2, RequestTypes
  <2>2. /\ v.status = Cached.status /\ v.statusNode = Cached.statusNode /\ v.phase = Cached.phase
        /\ v.node = Cached.node /\ v.spec = [Cached.spec EXCEPT ![l] = s]
    BY <1>1 DEF Pool
  <2>3. /\ At(l, "off")
        /\ \/ Continue(l, NoPool, FALSE, "remove") /\ UNCHANGED pool
           \/ UpdateThinPoolLv(l, Cached, v, CachedIsFresh, p)
    BY <1>8 DEF DeactivateBlob
  <2>4. OwnerTo(l, v, p) /\ OwnerTo(l, NoPool, "remove")
    BY <2>3 DEF OwnerTo, Pending
  <2>5. CachedIsFresh => Asks(l, s)
    BY <1>4, <2>3 DEF Asks
  <2> HIDE DEF v, p, s
  <2>6. CASE Continue(l, NoPool, FALSE, "remove") /\ UNCHANGED pool
    <3>1. Reads(l, NoPool, FALSE, "remove")
      BY <1>0, <2>6, ContinueReads
    <3> QED BY <1>3, <2>4, <3>1 DEF OwnerTakes, OwnerReads
  <2>7. CASE UpdateThinPoolLv(l, Cached, v, CachedIsFresh, p)
    <3>1. CachedIsFresh => AsksIn(l, v)
      BY <1>4, <2>2, <2>5 DEF AsksIn
    <3> QED BY <1>1, <1>3, <1>4, <2>1, <2>2, <2>4, <2>7, <3>1, UpdateTakes
  <2> QED BY <2>3, <2>6, <2>7
<1>9. CASE RemoveBlob(l)
  <2> DEFINE v == [Cached EXCEPT !.spec[l] = "Removed"]
             p == AfterRequest(l, Cached)
  <2>1. v \in Pool
    BY <1>1, <1>2, RequestTypes
  <2>2. /\ v.status = Cached.status /\ v.statusNode = Cached.statusNode /\ v.phase = Cached.phase
        /\ v.node = Cached.node /\ v.spec = [Cached.spec EXCEPT ![l] = "Removed"] /\ v.spec[l] = "Removed"
    BY <1>1 DEF Pool
  <2>3. /\ At(l, "remove")
        /\ \/ Continue(l, NoPool, FALSE, "finish") /\ UNCHANGED pool
           \/ Cached.spec[l] = "none" /\ Continue(l, Cached, CachedIsFresh, "drop") /\ UNCHANGED pool
           \/ Cached.spec[l] # "none" /\ UpdateThinPoolLv(l, Cached, v, CachedIsFresh, p)
    BY <1>9 DEF RemoveBlob
  <2>4. OwnerTo(l, v, p) /\ OwnerTo(l, NoPool, "finish") /\ (Cached.spec[l] = "none" => OwnerTo(l, Cached, "drop"))
    BY <2>2, <2>3 DEF OwnerTo, AfterRequest, Pending
  <2> HIDE DEF v, p
  <2>5. CASE Continue(l, NoPool, FALSE, "finish") /\ UNCHANGED pool
    <3>1. Reads(l, NoPool, FALSE, "finish")
      BY <1>0, <2>5, ContinueReads
    <3> QED BY <1>3, <2>4, <3>1 DEF OwnerTakes, OwnerReads
  <2>6. CASE Cached.spec[l] = "none" /\ Continue(l, Cached, CachedIsFresh, "drop") /\ UNCHANGED pool
    <3>1. Reads(l, Cached, CachedIsFresh, "drop")
      BY <1>0, <2>6, ContinueReads
    <3>2. CachedIsFresh => Same(Cached, pool)
      BY <1>4
    <3>3. OwnerTo(l, Cached, "drop")
      BY <2>4, <2>6
    <3>4. OwnerReads(l)
      BY ONLY <3>1, <3>2, <3>3 DEF OwnerReads
    <3> QED BY <1>3, <3>4 DEF OwnerTakes
  <2>7. CASE Cached.spec[l] # "none" /\ UpdateThinPoolLv(l, Cached, v, CachedIsFresh, p)
    <3>1. CachedIsFresh => AsksIn(l, v)
      <4>1. CachedIsFresh => Asks(l, "Removed")
        BY <1>4, <2>3, <2>7 DEF Asks
      <4> QED BY <1>4, <2>2, <4>1 DEF AsksIn
    <3> QED BY <1>1, <1>3, <1>4, <2>1, <2>2, <2>4, <2>7, <3>1, UpdateTakes
  <2> QED BY <2>3, <2>5, <2>6, <2>7
<1>10. CASE ForgetRemovedThinLv(l)
  <2> DEFINE v == [local[l] EXCEPT !.spec[l] = "none"]
             w == Recalc(v)
  <2>1. v \in Pool
    BY <1>1, <1>2, RequestTypes
  <2>2. pc[l] = "forget" /\ Write(l, w, l \in fresh, "forgot")
    BY <1>10 DEF ForgetRemovedThinLv
  <2>3. /\ v.status = local[l].status /\ v.statusNode = local[l].statusNode /\ v.phase = local[l].phase
        /\ v.node = local[l].node /\ v.spec = [local[l].spec EXCEPT ![l] = "none"] /\ v.spec[l] = "none"
    BY <1>1 DEF Pool
  <2> HIDE DEF v
  <2>4. /\ w.spec = v.spec /\ w.status = v.status /\ w.phase = v.phase /\ w.statusNode = v.statusNode
        /\ (v.spec[Snap] = "Active" /\ v.node # None => w.node = v.node)
        /\ w.node \in {None, leader, v.node}
    <3>1. leader \in Nodes
      BY DEF TypeOK
    <3> QED BY <2>1, <3>1, RecalcFacts, RecalcNode
  <2> HIDE DEF w
  <2>5. OwnerTo(l, w, "forgot")
    BY <2>2, <2>3, <2>4 DEF OwnerTo
  <2>6. Asks(l, "none")
    BY <2>2 DEF Asks
  <2>7. l \in fresh => Request(l, w)
    BY <1>4, <2>3, <2>4, <2>6 DEF Request, Same, AsksIn
  <2>8. Writes(l, w, l \in fresh, "forgot")
    BY <1>0, <2>2, WriteWrites
  <2>9. OwnerWrites(l)
    <3>1. Writes(l, w, l \in fresh, "forgot") /\ (l \in fresh => OwnerTo(l, w, "forgot") /\ Request(l, w))
      BY <2>5, <2>7, <2>8
    <3> QED BY ONLY <3>1 DEF OwnerWrites
  <2> QED BY <1>3, <2>9 DEF OwnerTakes
<1>11. CASE DropReference(l)
  <2> DEFINE v == [local[l] EXCEPT !.refs = @ \ {l}]
             w == Recalc(v)
             same == pc[l] = "drop" /\ Recalc(v) = local[l]
  <2>1. v \in Pool
    BY <1>1, <1>2, RequestTypes
  <2>2. /\ v.status = local[l].status /\ v.statusNode = local[l].statusNode /\ v.phase = local[l].phase
        /\ v.node = local[l].node /\ v.spec = local[l].spec
    BY <1>1 DEF Pool
  <2>3. /\ pc[l] \in {"drop", "forgot"}
        /\ \/ /\ pool' = [pool EXCEPT !.phase = "deleting"] /\ Exists(pool)
              /\ Empty(local[l]) /\ local[l].phase = "live"
              /\ pc' = [pc EXCEPT ![l] = IF same THEN "finish" ELSE "idle"]
              /\ local' = [local EXCEPT ![l] = NoPool]
              /\ fresh' = IF pool.phase = "live" THEN {} ELSE fresh \ {l}
              /\ UNCHANGED cache
           \/ Continue(l, local[l], FALSE, "finish") /\ UNCHANGED pool
           \/ Write(l, w, l \in fresh, "finish")
           \/ UpdateThinPoolLv(l, local[l], v, l \in fresh, "finish")
    BY <1>11 DEF DropReference
  <2>4. OwnerTo(l, v, "finish") /\ OwnerTo(l, w, "finish") /\ OwnerTo(l, local[l], "finish")
    BY <2>3 DEF OwnerTo
  <2>5. l \in fresh => AsksIn(l, v)
    <3>1. Asks(l, pool.spec[l])
      BY DEF Asks
    <3>2. pool.spec = [pool.spec EXCEPT ![l] = pool.spec[l]]
      BY <1>1, PoolFields
    <3> QED BY <1>4, <2>2, <3>1, <3>2 DEF Same, AsksIn
  <2> HIDE DEF v
  <2>6. /\ w.spec = v.spec /\ w.status = v.status /\ w.phase = v.phase /\ w.statusNode = v.statusNode
        /\ (v.spec[Snap] = "Active" /\ v.node # None => w.node = v.node)
        /\ w.node \in {None, leader, v.node}
    <3>1. leader \in Nodes
      BY DEF TypeOK
    <3> QED BY <2>1, <3>1, RecalcFacts, RecalcNode
  <2> HIDE DEF w, same
  <2>7. CASE /\ pool' = [pool EXCEPT !.phase = "deleting"] /\ Exists(pool)
             /\ Empty(local[l]) /\ local[l].phase = "live"
             /\ pc' = [pc EXCEPT ![l] = IF same THEN "finish" ELSE "idle"]
             /\ local' = [local EXCEPT ![l] = NoPool]
             /\ fresh' = IF pool.phase = "live" THEN {} ELSE fresh \ {l}
             /\ UNCHANGED cache
    <3>1. pool.phase # "live" => pool' = pool
      BY <1>1, <2>7 DEF Exists, Pool
    <3>2. /\ Elsewhere(l) /\ pc'[l] \in {"finish", "idle"} /\ local'[l] = NoPool /\ l \notin fresh'
          /\ fresh' = {} \/ pool' = pool
      BY <1>0, <2>7, <3>1 DEF TypeOK, Elsewhere
    <3> QED BY <1>3, <2>3, <2>7, <3>2 DEF OwnerTakes, OwnerDeletes
  <2>8. CASE Continue(l, local[l], FALSE, "finish") /\ UNCHANGED pool
    <3>1. Reads(l, local[l], FALSE, "finish")
      BY <1>0, <2>8, ContinueReads
    <3> QED BY <1>3, <2>4, <3>1 DEF OwnerTakes, OwnerReads
  <2>9. CASE Write(l, w, l \in fresh, "finish")
    <3>1. l \in fresh => Request(l, w)
      BY <1>4, <2>2, <2>5, <2>6 DEF Request, Same, AsksIn
    <3>2. Writes(l, w, l \in fresh, "finish")
      BY <1>0, <2>9, WriteWrites
    <3>3. OwnerWrites(l)
      <4>1. Writes(l, w, l \in fresh, "finish") /\ (l \in fresh => OwnerTo(l, w, "finish") /\ Request(l, w))
        BY <2>4, <3>1, <3>2
      <4> QED BY ONLY <4>1 DEF OwnerWrites
    <3> QED BY <1>3, <3>3 DEF OwnerTakes
  <2>10. CASE UpdateThinPoolLv(l, local[l], v, l \in fresh, "finish")
    BY <1>1, <1>3, <1>4, <2>1, <2>2, <2>4, <2>5, <2>10, UpdateTakes
  <2> QED BY <2>3, <2>7, <2>8, <2>9, <2>10
<1> QED BY <1>5, <1>6, <1>7, <1>8, <1>9, <1>10, <1>11 DEF OwnerCall

\* When the owners' calls begin.
LEMMA AtFacts ==
    ASSUME TypeOK, OwnersOn
    PROVE  /\ At(Vol, "create") => Vol \notin deleting /\ own[Vol] \in {"wanted", "ready"} /\ pc[Vol] = "idle"
           /\ At(Snap, "snapshot") => ~Retired /\ own[Snap] \in {"wanted", "labelled"} /\ pc[Snap] = "idle"
           /\ At(Snap, "off") => pc[Snap] = "idle" /\ Retired
           /\ At(Vol, "off") => pc[Vol] = "idle" /\ Vol \in deleting
           /\ At(Snap, "remove") => pc[Snap] = "remove" \/ (pc[Snap] = "idle" /\ Snap \in deleting)
           /\ At(Vol, "remove") => pc[Vol] = "remove"
<1>0. /\ Vol \in LVs /\ Snap \in LVs /\ Vol # Snap
      /\ own[Vol] \in {"wanted", "ready", "gone"}
      /\ own[Snap] \in {"absent", "wanted", "labelled", "copied", "ready", "gone"}
      /\ \A l \in LVs : pc[l] \in {"idle", "add", "ready", "activate", "label", "remove", "forget", "drop",
                                  "forgot", "finish"}
  BY ProcsFacts DEF TypeOK, OwnersOn, OwnerPc
<1>1. At(Vol, "create") => Vol \notin deleting /\ own[Vol] \in {"wanted", "ready"} /\ pc[Vol] = "idle"
  BY <1>0 DEF At, Starts, OwnerPcOf
<1>2. At(Snap, "snapshot") => ~Retired /\ own[Snap] \in {"wanted", "labelled"} /\ pc[Snap] = "idle"
  BY <1>0 DEF At, Starts, OwnerPcOf, Retired
<1>3. At(Snap, "off") => pc[Snap] = "idle" /\ Retired
  BY <1>0 DEF At, Starts, OwnerPcOf, Retired
<1>4. At(Vol, "off") => pc[Vol] = "idle" /\ Vol \in deleting
  BY <1>0 DEF At, Starts, OwnerPcOf
<1>5. At(Snap, "remove") => pc[Snap] = "remove" \/ (pc[Snap] = "idle" /\ Snap \in deleting)
  BY <1>0 DEF At, Starts, OwnerPcOf
<1>6. At(Vol, "remove") => pc[Vol] = "remove"
  BY <1>0 DEF At, Starts, OwnerPcOf
<1> QED BY <1>1, <1>2, <1>3, <1>4, <1>5, <1>6

\* What an owner's call leaves behind.
LEMMA OwnerLeaves ==
    ASSUME TypeOK, CopyInv, NEW l \in LVs, OwnerCall(l)
    PROVE  /\ cache' = cache /\ \A q \in Procs \ {l} : pc'[q] = pc[q] /\ local'[q] = local[q]
           /\ UNCHANGED <<leader, lvm, kind, own, deleting, label, dd>>
           /\ local'[l] \in {Cached, local[l], NoPool, pool'}
           /\ \E v : OwnerTo(l, v, pc'[l]) \/ (pc'[l] = "add" /\ l = Vol /\ At(Vol, "create") /\ pool' = NewPool)
           /\ \/ pool' = pool
              \/ Request(l, pool')
              \/ pool' = NewPool /\ pool.phase = "none" /\ l = Vol /\ At(Vol, "create")
              \/ pool' = [pool EXCEPT !.phase = "deleting"] /\ Exists(pool)
<1>1. OwnerTakes(l) /\ UNCHANGED <<leader, lvm, kind, own, deleting, label, dd>>
  BY OwnerDoes
<1>2. \A v : OwnerTo(l, v, "idle")
  BY DEF OwnerTo
<1>3. CASE OwnerReads(l)
  <2>1. PICK v \in {Cached, local[l], NoPool} : \E b, p :
          Reads(l, v, b, p) /\ OwnerTo(l, v, p) /\ (b => Same(v, pool))
    BY <1>3 DEF OwnerReads
  <2> QED BY <1>1, <1>2, <2>1 DEF Reads, Elsewhere, Stopped, Went
<1>4. CASE OwnerWrites(l)
  <2>1. PICK v, b, p : Writes(l, v, b, p) /\ (b => OwnerTo(l, v, p) /\ Request(l, v))
    BY <1>4 DEF OwnerWrites
  <2>2. Elsewhere(l)
    BY <2>1 DEF Writes
  <2>3. CASE Stopped(l)
    <3>1. pool' = pool \/ Request(l, pool')
      BY <2>1 DEF Writes
    <3> QED BY <1>1, <1>2, <2>2, <2>3, <3>1 DEF Elsewhere, Stopped
  <2>4. CASE ~Stopped(l)
    <3>1. pool' = v /\ Request(l, v) /\ OwnerTo(l, v, p) /\ Went(l, v, p)
      BY <2>1, <2>4 DEF Writes
    <3> QED BY <1>1, <2>2, <3>1 DEF Elsewhere, Went
  <2> QED BY <2>3, <2>4
<1>5. CASE OwnerMakes(l)
  BY <1>1, <1>2, <1>5 DEF OwnerMakes, Writes, Elsewhere, Stopped, Went
<1>6. CASE OwnerDeletes(l)
  <2>1. \A v : OwnerTo(l, v, pc'[l])
    BY <1>6 DEF OwnerDeletes, OwnerTo
  <2> QED BY <1>1, <1>6, <2>1 DEF OwnerDeletes, Elsewhere
<1> QED BY <1>1, <1>3, <1>4, <1>5, <1>6 DEF OwnerTakes

\* A request never asks for Vol to be active, takes Snap back only when it is not
\* needed any more, and activates it only when it is.
LEMMA RequestFacts ==
    ASSUME TypeOK, CopyInv, NEW l \in LVs, OwnerCall(l), Request(l, pool')
    PROVE  /\ pool'.spec[Vol] # "Active"
           /\ pool'.spec[Snap] = "Active" =>
                 \/ pool.spec[Snap] = "Active"
                 \/ l = Snap /\ pc[Snap] = "activate"
           /\ pool.spec[Snap] = "Active" =>
                 pool'.spec[Snap] = "Active" \/ (l = Snap /\ Retired /\ pc'[Snap] # "activate")
<1>0. /\ Vol \in LVs /\ Snap \in LVs /\ Vol # Snap /\ pool \in Pool
      /\ pool.spec \in [LVs -> {"none", "Inactive", "Active", "Removed"}]
  BY ProcsFacts, PoolFields DEF TypeOK
<1>1. PICK s : Asks(l, s) /\ pool'.spec = [pool.spec EXCEPT ![l] = s]
  BY DEF Request, AsksIn
<1>2. pool.spec[Vol] # "Active"
  BY DEF CopyInv, VolOff
<1>3. pool'.spec[Vol] # "Active"
  BY <1>0, <1>1, <1>2 DEF Asks
<1>4. pool'.spec[Snap] = "Active" =>
         \/ pool.spec[Snap] = "Active"
         \/ l = Snap /\ pc[Snap] = "activate"
  BY <1>0, <1>1 DEF Asks
<1>5. ASSUME pool.spec[Snap] = "Active", pool'.spec[Snap] # "Active"
      PROVE  l = Snap /\ Retired /\ pc'[Snap] # "activate"
  <2>1. l = Snap /\ (At(Snap, "off") \/ At(Snap, "remove") \/ pc[Snap] = "forget")
    BY <1>0, <1>1, <1>5 DEF Asks
  <2>2. Retired
    BY <2>1, AtFacts DEF CopyInv, TargetOK, Retired
  <2>3. PICK v : OwnerTo(Snap, v, pc'[Snap]) \/ l = Vol
    BY <2>1, OwnerLeaves
  <2>4. ~At(Snap, "snapshot")
    BY <2>2, AtFacts DEF CopyInv
  <2> QED BY <1>0, <2>1, <2>2, <2>3, <2>4 DEF OwnerTo
<1> QED BY <1>3, <1>4, <1>5

\* Fresh copies stay fresh.
LEMMA OwnerFresh ==
    ASSUME TypeOK, CopyInv, NEW l \in LVs, OwnerCall(l)
    PROVE  FreshOK' /\ (pool' = pool \/ fresh' \subseteq {l})
<1>0. l \in Procs /\ l \notin Nodes /\ FreshOK /\ \A n \in Nodes : n # l
  BY ProcsFacts DEF CopyInv
<1>1. OwnerTakes(l)
  BY OwnerDoes
<1>2. CASE OwnerReads(l)
  <2>1. PICK v, b, p : Reads(l, v, b, p) /\ (b => Same(v, pool))
    BY <1>2 DEF OwnerReads
  <2>2. pool' = pool
    BY <2>1 DEF Reads
  <2> QED BY <1>0, <2>1, <2>2, ReadsFresh
<1>3. CASE OwnerWrites(l)
  <2>1. PICK v, b, p : Writes(l, v, b, p) /\ (b => OwnerTo(l, v, p))
    BY <1>3 DEF OwnerWrites
  <2>2. CASE b
    <3>1. p # "down"
      BY <2>1, <2>2 DEF OwnerTo
    <3> QED BY <1>0, <2>1, <3>1, WritesFresh DEF Writes, Elsewhere, Stopped
  <2>3. CASE ~b
    <3>1. Writes(l, v, b, "idle")
      BY <2>1, <2>3 DEF Writes
    <3> QED BY <1>0, <2>3, <3>1, WritesFresh DEF Writes
  <2> QED BY <2>2, <2>3
<1>4. CASE OwnerMakes(l)
  BY <1>0, <1>4, WritesFresh DEF OwnerMakes, Writes, Elsewhere, Stopped
<1>5. CASE OwnerDeletes(l)
  <2>1. CASE fresh' = {}
    BY <2>1 DEF FreshOK
  <2>2. CASE pool' = pool
    <3>1. Reads(l, NoPool, FALSE, pc'[l])
      <4>1. Elsewhere(l) /\ l \notin fresh' /\ local'[l] = NoPool
        BY <1>5 DEF OwnerDeletes
      <4>2. fresh' \subseteq fresh \ {l} /\ \A q \in Procs \ {l} : pc'[q] = pc[q] /\ local'[q] = local[q]
        BY <4>1 DEF Elsewhere
      <4> QED BY <2>2, <4>1, <4>2 DEF Reads, Elsewhere, Stopped, Went
    <3> QED BY <1>0, <2>2, <3>1, ReadsFresh
  <2> QED BY <1>5, <2>1, <2>2 DEF OwnerDeletes
<1> QED BY <1>1, <1>2, <1>3, <1>4, <1>5 DEF OwnerTakes

\* An owner's call keeps what holds whatever fails.
LEMMA OwnerCopies ==
    ASSUME TypeOK, CopyInv, NEW l \in LVs, OwnerCall(l)
    PROVE  CopyInv'
<1>0. /\ l \in Procs /\ l \notin Nodes /\ LVs = {Vol, Snap} /\ Vol # Snap /\ pool \in Pool
      /\ Snap \in Procs /\ Nodes \subseteq Procs /\ PoolCtl \in Caches
  BY ProcsFacts DEF TypeOK, LVs
<1>1. /\ cache' = cache /\ \A q \in Procs \ {l} : pc'[q] = pc[q] /\ local'[q] = local[q]
      /\ UNCHANGED <<leader, lvm, kind, own, deleting, label, dd>>
      /\ local'[l] \in {Cached, local[l], NoPool, pool'}
  BY OwnerLeaves
<1>2. PICK v : OwnerTo(l, v, pc'[l]) \/ (pc'[l] = "add" /\ l = Vol /\ At(Vol, "create") /\ pool' = NewPool)
  BY OwnerLeaves
<1>3. \/ pool' = pool
      \/ Request(l, pool')
      \/ pool' = NewPool /\ pool.phase = "none"
      \/ pool' = [pool EXCEPT !.phase = "deleting"] /\ Exists(pool)
  BY OwnerLeaves
<1>4. /\ NewPool.statusNode = None /\ NewPool.spec[Vol] = "none" /\ NewPool.spec[Snap] = "none"
      /\ NewPool.status[Snap] = "none" /\ NewPool.status[Vol] = "none" /\ NoPool.spec[Vol] = "none"
  BY <1>0 DEF NewPool, NoPool
<1>5. /\ pool'.phase = pool.phase \/ pool.phase = "none" \/ Ended(pool')
      /\ (pool'.status = pool.status /\ pool'.statusNode = pool.statusNode) \/ pool' = NewPool
      /\ pool'.spec = pool.spec \/ Request(l, pool') \/ pool' = NewPool
  <2>1. CASE pool' = [pool EXCEPT !.phase = "deleting"]
    <3>1. /\ pool'.phase = "deleting" /\ pool'.status = pool.status
          /\ pool'.statusNode = pool.statusNode /\ pool'.spec = pool.spec
      BY <1>0, <2>1 DEF Pool
    <3> QED BY <3>1 DEF Ended
  <2> QED BY <1>3, <2>1 DEF Request
<1>6. LvmOK'
  BY <1>0, <1>1, <1>5 DEF CopyInv, LvmOK, Ended
<1>7. VolOff'
  <2>1. pool'.spec[Vol] # "Active"
    BY <1>4, <1>5, RequestFacts DEF CopyInv, VolOff
  <2>2. local'[l].spec[Vol] # "Active"
    BY <1>0, <1>1, <1>4, <2>1 DEF CopyInv, VolOff, Cached
  <2> QED BY <1>0, <1>1, <2>1, <2>2 DEF CopyInv, VolOff
<1>8. IdleOK'
  BY <1>0, <1>4, <1>5 DEF CopyInv, IdleOK, Calm
<1>9. NodesKnow'
  <2>1. \A n \in Nodes : local'[n] = local[n] /\ pc'[n] = pc[n]
    BY <1>0, <1>1
  <2> QED BY <2>1 DEF CopyInv, NodesKnow, NodeKnows, ShouldBeActive
<1>10. OwnersOn'
  <2>1. pc' \in [Procs -> {"idle"} \cup NodePc \cup PoolPc \cup OwnerPc]
    BY OwnerCallTypes DEF TypeOK
  <2>2. pc'[l] # "retry"
    BY <1>0, <2>1 DEF NodePc, PoolPc, OwnerPc
  <2>3. pc'[l] \in {"idle"} \cup OwnerPc
    BY <1>2, <2>2 DEF OwnerTo, OwnerPc
  <2>4. OwnersOn
    BY DEF CopyInv
  <2>5. \A k \in LVs : pc'[k] \in {"idle"} \cup OwnerPc
    <3> SUFFICES ASSUME NEW k \in LVs PROVE pc'[k] \in {"idle"} \cup OwnerPc
      OBVIOUS
    <3>1. CASE k = l
      BY <2>3, <3>1
    <3>2. CASE k # l
      <4>1. k \in Procs \ {l}
        BY <3>2, ProcsFacts
      <4> QED BY <1>1, <2>4, <4>1 DEF OwnersOn
    <3> QED BY <3>1, <3>2
  <2> QED BY <1>1, <2>4, <2>5 DEF OwnersOn
<1>11. TargetOK'
  <2>1. At(Snap, "snapshot") => ~Retired /\ own[Snap] \in {"wanted", "labelled"} /\ pc[Snap] = "idle"
    BY AtFacts DEF CopyInv
  <2>2. At(Snap, "off") \/ At(Snap, "remove") => Retired
    BY AtFacts DEF CopyInv, TargetOK, Retired
  <2>3. pc'[Snap] = "activate" => (pc[Snap] = "activate" /\ l # Snap) \/ At(Snap, "snapshot")
    BY <1>0, <1>1, <1>2 DEF OwnerTo
  <2>4. pc'[Snap] = "label" => pc[Snap] \in {"label", "activate"}
    BY <1>0, <1>1, <1>2 DEF OwnerTo
  <2>5. pc'[Snap] \in {"remove", "forget", "forgot", "drop", "finish"} =>
           \/ pc[Snap] \in {"remove", "forget", "forgot", "drop", "finish"}
           \/ At(Snap, "off") \/ At(Snap, "remove")
    BY <1>0, <1>1, <1>2 DEF OwnerTo
  <2>6. pool'.status[Snap] = "Active" /\ pool'.spec[Snap] # "Active" => Retired /\ pc'[Snap] # "activate"
    <3> SUFFICES ASSUME pool'.status[Snap] = "Active", pool'.spec[Snap] # "Active"
                 PROVE  Retired /\ pc'[Snap] # "activate"
      OBVIOUS
    <3>1. pool.status[Snap] = "Active" /\ pool' # NewPool
      BY <1>4, <1>5
    <3>2. CASE pool.spec[Snap] # "Active"
      BY <2>1, <2>3, <3>1, <3>2 DEF CopyInv, TargetOK
    <3>3. CASE pool.spec[Snap] = "Active"
      BY <1>5, <3>1, <3>3, RequestFacts
    <3> QED BY <3>2, <3>3
  <2> QED BY <1>1, <2>1, <2>2, <2>3, <2>4, <2>5, <2>6 DEF CopyInv, TargetOK, Retired
<1> QED BY <1>6, <1>7, <1>8, <1>9, <1>10, <1>11, OwnerFresh DEF CopyInv

\* It also keeps Snap in service.
LEMMA OwnerService ==
    ASSUME TypeOK, CopyInv, ServiceInv, NEW l \in LVs, OwnerCall(l)
    PROVE  ServiceInv'
<1>0. l \in Procs /\ l \notin Nodes /\ Nodes \subseteq Procs /\ pool \in Pool /\ Nodes \subseteq Caches
  BY ProcsFacts DEF TypeOK
<1>1. /\ cache' = cache /\ lvm' = lvm /\ \A n \in Nodes : pc'[n] = pc[n] /\ local'[n] = local[n]
  BY <1>0, OwnerLeaves
<1>2. InService(pool') => InService(pool) /\ pool'.statusNode = pool.statusNode /\ pool'.node = pool.node
  <2> SUFFICES ASSUME InService(pool')
               PROVE  InService(pool) /\ pool'.statusNode = pool.statusNode /\ pool'.node = pool.node
    OBVIOUS
  <2>1. CASE pool' = NewPool
    BY <2>1, ProcsFacts DEF NewPool, NoPool, InService
  <2>2. CASE pool' = [pool EXCEPT !.phase = "deleting"]
    <3>1. /\ pool'.status = pool.status /\ pool'.statusNode = pool.statusNode /\ pool'.spec = pool.spec
          /\ pool'.node = pool.node
      BY <1>0, <2>2 DEF Pool
    <3> QED BY <3>1 DEF InService
  <2>3. CASE Request(l, pool')
    <3>1. pool'.status = pool.status /\ pool'.statusNode = pool.statusNode
      BY <2>3 DEF Request
    <3>2. InService(pool)
      BY <2>3, <3>1, RequestFacts DEF InService, CopyInv, TargetOK
    <3>3. pool.node # None
      BY <3>2, NamesAssumption DEF ServiceInv, ServiceOK, Serves
    <3> QED BY <2>3, <3>1, <3>2, <3>3 DEF Request, InService
  <2> QED BY <2>1, <2>2, <2>3, OwnerLeaves
<1>3. ServiceOK'
  <2> SUFFICES ASSUME InService(pool)' PROVE Serves(pool.statusNode)'
    BY DEF ServiceOK
  <2>1. Serves(pool.statusNode) /\ pool'.statusNode = pool.statusNode /\ pool'.node = pool.node
    BY <1>2 DEF ServiceInv, ServiceOK, InService
  <2> QED BY <1>1, <2>1 DEF Serves, AsksFor, PathExists
<1>4. DownOK'
  <2> SUFFICES ASSUME NEW n \in Nodes, n \in fresh', pc'[n] = "down" PROVE ~InService(pool)'
    BY DEF DownOK
  <2>1. n # l /\ Elsewhere(l)
    BY <1>0, OwnerDoes DEF OwnerTakes, OwnerReads, OwnerWrites, OwnerMakes, OwnerDeletes, Reads, Writes
  <2>2. n \in fresh /\ pc[n] = "down"
    BY <1>1, <2>1 DEF Elsewhere
  <2> QED BY <1>2, <2>2 DEF ServiceInv, DownOK, InService
<1> QED BY <1>3, <1>4 DEF ServiceInv

-----------------------------------------------------------------------------
(* The other steps. *)

\* Reconciles go on as they were or end, and a cache is what it was or up to date.
OnlyEnds ==
    /\ pool' = pool /\ fresh' \subseteq fresh
    /\ \A q \in Procs : \/ pc'[q] = pc[q] /\ local'[q] = local[q]
                        \/ pc'[q] = "idle" /\ local'[q] = NoPool /\ q \notin fresh'
    /\ \A c \in Caches : cache'[c] \in {cache[c], pool}

LEMMA EndsLvm ==
    ASSUME TypeOK, LvmOK, OnlyEnds, lvm' = lvm
    PROVE  LvmOK'
<1>1. PoolCtl \in Caches /\ Nodes \subseteq Procs
  BY ProcsFacts
<1>2. cache'[PoolCtl] \in {cache[PoolCtl], pool} /\ pool' = pool
  BY <1>1 DEF OnlyEnds
<1>3. \A n \in Nodes : pc'[n] = "unlock" => pc[n] = "unlock"
  BY <1>1 DEF OnlyEnds
<1> QED BY <1>2, <1>3 DEF LvmOK, Ended

\* Such a step keeps the copies apart from what it does to LVM and to Snap.
LEMMA EndsCopies ==
    ASSUME TypeOK, CopyInv, OnlyEnds, LvmOK', TargetOK', own'[Vol] \in {"wanted", "ready", "gone"}
    PROVE  CopyInv'
<1>0. /\ NoPool.spec[Vol] # "Active" /\ Nodes \subseteq Procs /\ Nodes \subseteq Caches
      /\ LVs \subseteq Procs /\ fresh \subseteq Procs
  BY ProcsFacts DEF NoPool, TypeOK
<1>1. VolOff'
  BY <1>0 DEF CopyInv, VolOff, OnlyEnds
<1>2. FreshOK'
  <2> SUFFICES ASSUME NEW c \in fresh' PROVE FreshOf(c)'
    BY DEF FreshOK
  <2>1. c \in fresh /\ pc'[c] = pc[c] /\ local'[c] = local[c] /\ FreshOf(c)
    BY <1>0 DEF OnlyEnds, CopyInv, FreshOK
  <2>2. c \in Nodes => cache'[c] \in {cache[c], pool}
    BY <1>0 DEF OnlyEnds
  <2> QED BY <2>1, <2>2 DEF FreshOf, Same, Lowered, OnlyEnds
<1>3. IdleOK'
  BY DEF CopyInv, IdleOK, Calm, OnlyEnds
<1>4. NodesKnow'
  <2> SUFFICES ASSUME NEW n \in Nodes PROVE NodeKnows(n, local'[n], pc'[n])
    BY DEF NodesKnow, NodeKnows, ShouldBeActive
  <2>1. CASE pc'[n] = pc[n] /\ local'[n] = local[n]
    BY <2>1 DEF CopyInv, NodesKnow
  <2>2. CASE pc'[n] = "idle"
    BY <2>2 DEF NodeKnows, OnDuty
  <2> QED BY <1>0, <2>1, <2>2 DEF OnlyEnds
<1>5. OwnersOn'
  BY <1>0 DEF CopyInv, OwnersOn, OnlyEnds
<1> QED BY <1>1, <1>2, <1>3, <1>4, <1>5 DEF CopyInv

\* It keeps Snap in service unless it takes the device.
LEMMA EndsService ==
    ASSUME TypeOK, CopyInv, ServiceInv, OnlyEnds,
           PathExists(pool.statusNode, Snap) => PathExists(pool.statusNode, Snap)'
    PROVE  ServiceInv'
<1>0. Nodes \subseteq Procs /\ Nodes \subseteq Caches
  BY ProcsFacts
<1>1. ServiceOK'
  <2> SUFFICES ASSUME InService(pool)' PROVE Serves(pool.statusNode)'
    BY DEF ServiceOK
  <2>1. pool' = pool /\ InService(pool) /\ Serves(pool.statusNode)
    BY DEF OnlyEnds, InService, ServiceInv, ServiceOK
  <2>2. PICK n \in Nodes : n = pool.statusNode
    BY <2>1 DEF Serves
  <2>3. /\ pool.node = n /\ PathExists(n, Snap)' /\ AsksFor(n, cache[n]) /\ AsksFor(n, pool)
        /\ (pc[n] # "idle" => AsksFor(n, local[n]))
    BY <2>1, <2>2 DEF Serves, AsksFor, InService, PathExists, OnlyEnds
  <2>4. cache'[n] \in {cache[n], pool} /\ (pc'[n] # "idle" => pc'[n] = pc[n] /\ local'[n] = local[n])
    BY <1>0 DEF OnlyEnds
  <2>5. Serves(n)'
    BY <2>1, <2>3, <2>4 DEF Serves, AsksFor
  <2> QED BY <2>1, <2>2, <2>5
<1>2. DownOK'
  BY <1>0 DEF ServiceInv, DownOK, OnlyEnds, InService
<1> QED BY <1>1, <1>2 DEF ServiceInv

PoolCtlStep == CreatePoolLv \/ SetPoolAvailable \/ RemovePoolLv \/ RemovePoolFinalizer

\* The reconciler that makes and removes the LVM thin pool writes nothing that the node
\* reconcilers read but the phase.
LEMMA PoolCtlDoes ==
    ASSUME TypeOK, CopyInv, PoolCtlStep
    PROVE  /\ UNCHANGED <<cache, leader, kind, own, deleting, label, dd>>
           /\ \A q \in Procs \ {PoolCtl} : pc'[q] = pc[q] /\ local'[q] = local[q]
           /\ pool'.spec = pool.spec /\ pool'.status = pool.status /\ pool'.node = pool.node
           /\ pool'.statusNode = pool.statusNode /\ pool'.phase \in {pool.phase, "gone"}
           /\ local'[PoolCtl].spec[Vol] # "Active" /\ fresh' \subseteq fresh \cup {PoolCtl}
           /\ FreshOK'
<1>0. /\ PoolCtl \in Procs /\ PoolCtl \in Caches /\ PoolCtl \notin Nodes
      /\ NoPool.spec[Vol] # "Active"
  BY ProcsFacts DEF NoPool
<1>1. pool \in Pool /\ local[PoolCtl] \in Pool /\ cache[PoolCtl] \in Pool
  BY <1>0 DEF TypeOK
<1>2. UNCHANGED <<leader, kind, own, deleting, label, dd>>
  BY DEF PoolCtlStep, CreatePoolLv, SetPoolAvailable, RemovePoolLv, RemovePoolFinalizer, ownerVars
<1>3. CASE CreatePoolLv \/ RemovePoolLv
  <2>1. PICK p : Continue(PoolCtl, Cached, CachedIsFresh, p) \/ Fail(PoolCtl)
    BY <1>3 DEF CreatePoolLv, RemovePoolLv, Cached, CachedIsFresh
  <2>2. pool' = pool
    BY <1>3 DEF CreatePoolLv, RemovePoolLv
  <2>3. Reads(PoolCtl, Cached, CachedIsFresh, p)
    BY <1>0, <2>1, <2>2, ContinueReads, EndsDo DEF Reads
  <2>4. FreshOK'
    BY <1>0, <2>3, ReadsFresh DEF CopyInv, Same, CachedIsFresh
  <2>5. Cached.spec[Vol] # "Active"
    BY <1>0 DEF CopyInv, VolOff, Cached
  <2> QED BY <1>0, <1>2, <2>2, <2>3, <2>4, <2>5 DEF Reads, Elsewhere, Stopped, Went
<1>4. CASE SetPoolAvailable \/ RemovePoolFinalizer
  <2>1. PICK v \in {[local[PoolCtl] EXCEPT !.avail = TRUE], [local[PoolCtl] EXCEPT !.phase = "gone"]} :
          Write(PoolCtl, v, PoolCtl \in fresh, "idle")
    BY <1>4 DEF SetPoolAvailable, RemovePoolFinalizer
  <2>2. /\ v.spec = local[PoolCtl].spec /\ v.status = local[PoolCtl].status
        /\ v.node = local[PoolCtl].node /\ v.statusNode = local[PoolCtl].statusNode
        /\ v.phase = local[PoolCtl].phase \/ v.phase = "gone"
    BY <1>1, <2>1 DEF Pool
  <2>3. Writes(PoolCtl, v, PoolCtl \in fresh, "idle")
    BY <1>0, <2>1, WriteWrites
  <2>4. PoolCtl \in fresh => Same(local[PoolCtl], pool)
    BY <1>0 DEF CopyInv, FreshOK, FreshOf
  <2>5. local[PoolCtl].spec[Vol] # "Active"
    BY <1>0 DEF CopyInv, VolOff
  <2> HIDE DEF Same
  <2>6. FreshOK'
    BY <1>0, <2>3, WritesFresh DEF CopyInv
  <2> QED BY <1>0, <1>2, <2>2, <2>3, <2>4, <2>5, <2>6
           DEF Writes, Elsewhere, Stopped, Went, Same, Ended
<1> QED BY <1>3, <1>4 DEF PoolCtlStep

\* It cannot remove a pool in which Snap is active.
LEMMA PoolCtlKeeps ==
    ASSUME TypeOK, CopyInv, PoolCtlStep
    PROVE  CopyInv' /\ (ServiceInv => ServiceInv')
<1>0. /\ PoolCtl \in Procs /\ PoolCtl \in Caches /\ PoolCtl \notin Nodes /\ PoolCtl \notin LVs
      /\ Nodes \subseteq Procs /\ Nodes \subseteq Caches /\ LVs \subseteq Procs /\ Snap \in LVs
      /\ NoPool.spec[Vol] # "Active" /\ None \notin Nodes
  BY ProcsFacts, NamesAssumption DEF NoPool
<1>1. lvm \in Lvm
  BY DEF TypeOK
<1>2. /\ UNCHANGED <<cache, leader, kind, own, deleting, label, dd>>
      /\ \A q \in Procs \ {PoolCtl} : pc'[q] = pc[q] /\ local'[q] = local[q]
      /\ pool'.spec = pool.spec /\ pool'.status = pool.status /\ pool'.node = pool.node
      /\ pool'.statusNode = pool.statusNode /\ pool'.phase \in {pool.phase, "gone"}
      /\ local'[PoolCtl].spec[Vol] # "Active" /\ fresh' \subseteq fresh \cup {PoolCtl}
      /\ FreshOK'
  BY PoolCtlDoes
<1>3. LvmOK' /\ (PathExists(pool.statusNode, Snap) => lvm'.lock = lvm.lock /\ lvm'.lvs = lvm.lvs)
  <2>1. CASE lvm' = lvm
    BY <1>0, <1>2, <2>1 DEF CopyInv, LvmOK, Ended
  <2>2. CASE CreatePoolLv
    <3>1. lvm'.pool /\ lvm'.lock = lvm.lock /\ lvm'.lvs = lvm.lvs
      BY <1>1, <2>2 DEF CreatePoolLv, Lvm
    <3>2. ~Ended(cache[PoolCtl])
      BY <2>2 DEF CreatePoolLv, Ended
    <3> QED BY <1>0, <1>2, <3>1, <3>2 DEF CopyInv, LvmOK, Ended
  <2>3. CASE RemovePoolLv /\ lvm' # lvm
    <3>1. /\ \A l \in LVs : lvm.lvs[l] # "active"
          /\ lvm' = [lvm EXCEPT !.pool = FALSE, !.lock = None]
          /\ Ended(cache[PoolCtl])
      BY <2>3 DEF RemovePoolLv, CopyInv, LvmOK, MayRemovePool, Ended
    <3>2. lvm'.pool = FALSE /\ lvm'.lock = None /\ lvm'.lvs = lvm.lvs
      BY <1>1, <3>1 DEF Lvm
    <3> QED BY <1>0, <1>2, <3>1, <3>2 DEF CopyInv, LvmOK, Ended, PathExists
  <2> QED BY <2>1, <2>2, <2>3 DEF PoolCtlStep, SetPoolAvailable, RemovePoolFinalizer
<1>4. VolOff'
  BY <1>2 DEF CopyInv, VolOff
<1>5. IdleOK'
  BY <1>2 DEF CopyInv, IdleOK, Calm
<1>6. NodesKnow'
  <2>1. \A n \in Nodes : local'[n] = local[n] /\ pc'[n] = pc[n]
    BY <1>0, <1>2
  <2> QED BY <2>1 DEF CopyInv, NodesKnow, NodeKnows, ShouldBeActive
<1>7. TargetOK' /\ OwnersOn'
  <2>1. \A l \in LVs : pc'[l] = pc[l]
    BY <1>0, <1>2
  <2> QED BY <1>0, <1>2, <2>1 DEF CopyInv, TargetOK, OwnersOn, Retired
<1>8. ASSUME ServiceInv PROVE ServiceInv'
  <2>1. \A n \in Nodes : local'[n] = local[n] /\ pc'[n] = pc[n] /\ (n \in fresh' => n \in fresh)
    BY <1>0, <1>2
  <2>2. InService(pool)' => InService(pool)
    BY <1>2 DEF InService
  <2>3. DownOK'
    BY <1>8, <2>1, <2>2 DEF ServiceInv, DownOK
  <2>4. ServiceOK'
    <3> SUFFICES ASSUME InService(pool)' PROVE Serves(pool.statusNode)'
      BY DEF ServiceOK
    <3>1. Serves(pool.statusNode)
      BY <1>8, <2>2 DEF ServiceInv, ServiceOK
    <3>2. lvm'.lock = lvm.lock /\ lvm'.lvs = lvm.lvs
      BY <1>3, <3>1 DEF Serves
    <3> QED BY <1>2, <2>1, <3>1, <3>2 DEF Serves, AsksFor, PathExists
  <2> QED BY <2>3, <2>4 DEF ServiceInv
<1> QED BY <1>2, <1>3, <1>4, <1>5, <1>6, <1>7, <1>8 DEF CopyInv

\* The garbage collector changes the pool's references, or its phase.
LEMMA CollectKeeps ==
    ASSUME TypeOK, CopyInv, GarbageCollect
    PROVE  CopyInv' /\ (ServiceInv => ServiceInv')
<1>1. /\ UNCHANGED <<cache, local, pc, leader, lvm, kind, own, deleting, label, dd>> /\ fresh' = {}
      /\ pool'.spec = pool.spec /\ pool'.status = pool.status /\ pool'.node = pool.node
      /\ pool'.statusNode = pool.statusNode /\ (Ended(pool) => Ended(pool'))
  BY DEF GarbageCollect, ownerVars, TypeOK, Pool, Ended
<1>2. CopyInv'
  BY <1>1 DEF CopyInv, LvmOK, Ended, VolOff, FreshOK, IdleOK, Calm, NodesKnow, NodeKnows, ShouldBeActive,
     TargetOK, Retired, OwnersOn
<1>3. ServiceInv => ServiceInv'
  BY <1>1 DEF ServiceInv, ServiceOK, DownOK, InService, Serves, AsksFor, PathExists
<1> QED BY <1>2, <1>3

\* Steps that end a reconcile, or tell a reconciler something.
OtherStep ==
    \/ \E c \in Procs : NothingToDo(c)
    \/ \E l \in LVs : BlobReady(l) \/ FinishOwner(l)
    \/ LabelTarget
    \/ \E c \in Caches : WatchEvent(c)
    \/ StartDd \/ FinishDd \/ CancelDd \/ RequestSnap
    \/ \E s \in 2..MaxSize : Expand(s)
    \/ \E l \in LVs : Delete(l)

LEMMA OtherDoes ==
    ASSUME TypeOK, OtherStep
    PROVE  OnlyEnds /\ UNCHANGED <<lvm, leader, kind>>
<1>0. LVs \subseteq Procs /\ Snap \in LVs
  BY ProcsFacts
<1>1. CASE \/ \E c \in Procs : NothingToDo(c)
           \/ \E l \in LVs : BlobReady(l) \/ FinishOwner(l)
           \/ LabelTarget
  <2>1. PICK c \in Procs : Return(c) /\ pool' = pool /\ UNCHANGED <<lvm, leader, kind>>
    BY <1>0, <1>1 DEF NothingToDo, BlobReady, FinishOwner, LabelTarget
  <2>2. Elsewhere(c) /\ Stopped(c)
    BY <2>1, EndsDo
  <2> QED BY <2>1, <2>2 DEF Elsewhere, Stopped, OnlyEnds
<1>2. CASE \E c \in Caches : WatchEvent(c)
  BY <1>2 DEF WatchEvent, OnlyEnds, TypeOK
<1>3. CASE \/ StartDd \/ FinishDd \/ CancelDd \/ RequestSnap
           \/ \E s \in 2..MaxSize : Expand(s)
           \/ \E l \in LVs : Delete(l)
  <2>1. UNCHANGED <<pool, cache, local, fresh, pc, lvm, leader, kind>>
    BY <1>3 DEF StartDd, FinishDd, CancelDd, RequestSnap, Expand, Delete, reconcileVars
  <2> QED BY <2>1 DEF OnlyEnds
<1> QED BY <1>1, <1>2, <1>3 DEF OtherStep

LEMMA OtherKeeps ==
    ASSUME TypeOK, CopyInv, OtherStep
    PROVE  CopyInv' /\ (ServiceInv => ServiceInv')
<1>0. /\ Vol \in LVs /\ Snap \in LVs /\ LVs \subseteq Procs /\ Vol # Snap /\ PoolCtl \in Caches
  BY ProcsFacts
<1>1. OnlyEnds /\ lvm' = lvm
  BY OtherDoes
<1>2. LvmOK'
  BY <1>1, EndsLvm DEF CopyInv
<1>3. TargetOK' /\ own'[Vol] \in {"wanted", "ready", "gone"}
  <2>0. TargetOK /\ own[Vol] \in {"wanted", "ready", "gone"} /\ own \in [LVs -> {"absent", "wanted", "labelled", "copied", "ready", "gone"}]
        /\ deleting \subseteq LVs
    BY DEF CopyInv, OwnersOn, TypeOK
  <2>1. /\ pool' = pool
        /\ pc'[Snap] \in {"idle", pc[Snap]}
    BY <1>0, <1>1 DEF OnlyEnds
  <2>2. CASE \/ \E c \in Procs : NothingToDo(c)
             \/ \E c \in Caches : WatchEvent(c)
             \/ \E s \in 2..MaxSize : Expand(s)
    <3>1. UNCHANGED <<own, deleting, label, dd>>
      BY <2>2 DEF NothingToDo, WatchEvent, Expand, ownerVars
    <3> QED BY <2>0, <2>1, <3>1 DEF TargetOK, Retired
  <2>3. CASE \E l \in LVs : BlobReady(l) \/ FinishOwner(l)
    <3>1. PICK l \in LVs : BlobReady(l) \/ FinishOwner(l)
      BY <2>3
    <3>2. /\ \A k \in LVs \ {l} : own'[k] = own[k]
          /\ own'[l] \in {"ready", "gone"} /\ pc'[l] = "idle"
          /\ l = Vol => label' = label
          /\ UNCHANGED <<deleting, dd>>
      BY <1>0, <2>0, <3>1 DEF BlobReady, FinishOwner, Return, Ends, TypeOK
    <3>3. CASE l = Vol
      BY <1>0, <2>0, <2>1, <3>2, <3>3 DEF TargetOK, Retired
    <3>4. CASE l = Snap
      BY <1>0, <2>0, <2>1, <3>2, <3>4 DEF TargetOK, Retired
    <3> QED BY <3>3, <3>4 DEF LVs
  <2>4. CASE LabelTarget
    <3>1. pc'[Snap] = "idle" /\ own'[Vol] = own[Vol] /\ UNCHANGED <<deleting, dd>>
      BY <1>0, <2>0, <2>4 DEF LabelTarget, Return, Ends, TypeOK
    <3>2. own[Snap] \in {"wanted", "labelled"} \/ (own[Snap] = "copied" /\ label # None)
      BY <2>0, <2>4 DEF LabelTarget, TargetOK
    <3>3. \/ label' = label /\ own'[Snap] = own[Snap]
          \/ label' # None /\ own'[Snap] = "labelled" /\ own[Snap] = "wanted"
      BY <1>0, <2>0, <2>4, <3>2 DEF LabelTarget, TargetOK
    <3> QED BY <2>0, <2>1, <3>1, <3>3 DEF TargetOK, Retired
  <2>5. CASE StartDd \/ CancelDd
    BY <2>0, <2>1, <2>5 DEF StartDd, CancelDd, ownerVars, TargetOK, Retired
  <2>6. CASE FinishDd
    <3>1. own'[Snap] = "copied" /\ own'[Vol] = own[Vol] /\ dd' = "no" /\ label' = label /\ dd = "running"
      BY <1>0, <2>0, <2>6 DEF FinishDd
    <3> QED BY <2>0, <2>1, <3>1 DEF TargetOK, Retired
  <2>7. CASE RequestSnap
    <3>1. /\ own[Snap] = "absent" /\ own'[Snap] = "wanted" /\ own'[Vol] = own[Vol]
          /\ UNCHANGED <<deleting, label, dd>>
      BY <1>0, <2>0, <2>7 DEF RequestSnap
    <3> QED BY <2>0, <2>1, <3>1 DEF TargetOK, Retired
  <2>8. CASE \E l \in LVs : Delete(l)
    <3>1. deleting \subseteq deleting' /\ UNCHANGED <<own, label, dd>>
      BY <2>8 DEF Delete
    <3> QED BY <2>0, <2>1, <3>1 DEF TargetOK, Retired
  <2> QED BY <2>2, <2>3, <2>4, <2>5, <2>6, <2>7, <2>8 DEF OtherStep
<1>4. CopyInv'
  BY <1>1, <1>2, <1>3, EndsCopies
<1>5. ASSUME ServiceInv PROVE ServiceInv'
  BY <1>1, <1>5, EndsService DEF PathExists, OnlyEnds
<1> QED BY <1>4, <1>5

\* A restart and an election end reconciles too; a reboot takes the node's devices with it.
LEMMA FaultDoes ==
    ASSUME TypeOK, NEW n \in Nodes, Fault(n)
    PROVE  OnlyEnds /\ UNCHANGED <<kind, own, deleting, label>> /\ dd' \in {dd, "no"}
<1>1. local \in [Procs -> Pool] /\ pc \in [Procs -> Pcs] /\ cache \in [Caches -> Pool] /\ n \in Procs
  BY ProcsFacts DEF TypeOK, Pcs
<1>2. CASE Restarted(n)
  BY <1>1, <1>2 DEF Restarted, OnlyEnds, ownerVars
<1>3. CASE Election(n)
  BY <1>1, <1>3 DEF Election, OnlyEnds, ownerVars
<1> QED BY <1>2, <1>3 DEF Fault, RestartNode, RebootNode

LEMMA FaultsKeep ==
    ASSUME TypeOK, CopyInv, NEW n \in Nodes, Fault(n)
    PROVE  /\ CopyInv'
           /\ ServiceInv /\ (PathExists(n, Snap) => ~RebootNode(n)) => ServiceInv'
<1>0. /\ Vol \in LVs /\ Snap \in LVs /\ LVs \subseteq Procs /\ Vol # Snap /\ PoolCtl \in Caches
      /\ n \in Procs /\ n \notin LVs /\ None \notin Nodes /\ Nodes \subseteq Procs
      /\ PoolCtl # n
  BY ProcsFacts, NamesAssumption
<1>1. lvm \in Lvm /\ local \in [Procs -> Pool] /\ pc \in [Procs -> Pcs] /\ cache \in [Caches -> Pool]
  BY DEF TypeOK, Pcs
<1>2. OnlyEnds /\ own' = own /\ deleting' = deleting /\ label' = label /\ dd' \in {dd, "no"}
  BY FaultDoes
<1>3. LvmOK'
  <2>1. CASE lvm' = lvm
    BY <1>2, <2>1, EndsLvm DEF CopyInv
  <2>2. CASE RebootNode(n)
    <3>1. /\ lvm'.lock = None /\ lvm'.pool = lvm.pool /\ \A l \in LVs : lvm'.lvs[l] # "active"
          /\ lvm.lock = n /\ pc'[n] = "idle"
      BY <1>0, <1>1, <2>2 DEF RebootNode, Restarted, Lvm
    <3>2. cache'[PoolCtl] = cache[PoolCtl] /\ pool' = pool /\ \A q \in Procs : pc'[q] \in {pc[q], "idle"}
      BY <1>0, <1>1, <1>2, <2>2 DEF RebootNode, Restarted, OnlyEnds
    <3>3. \A q \in Nodes : pc'[q] = "unlock" => ~lvm.pool /\ Ended(cache[PoolCtl])
      BY <1>0, <3>1, <3>2 DEF CopyInv, LvmOK
    <3> QED BY <3>1, <3>2, <3>3 DEF CopyInv, LvmOK, Ended
  <2> QED BY <2>1, <2>2 DEF Fault, RestartNode, Election
<1>4. TargetOK' /\ own'[Vol] \in {"wanted", "ready", "gone"}
  <2>1. pool' = pool /\ pc'[Snap] \in {"idle", pc[Snap]}
    BY <1>0, <1>2 DEF OnlyEnds
  <2> QED BY <1>2, <2>1 DEF CopyInv, OwnersOn, TargetOK, Retired
<1>5. CopyInv'
  BY <1>2, <1>3, <1>4, EndsCopies
<1>6. ASSUME ServiceInv, PathExists(n, Snap) => ~RebootNode(n) PROVE ServiceInv'
  <2>1. CASE lvm' = lvm
    BY <1>2, <1>6, <2>1, EndsService DEF PathExists, OnlyEnds
  <2>2. CASE RebootNode(n)
    <3>1. ~PathExists(n, Snap) /\ lvm.lock = n
      BY <1>6, <2>2 DEF RebootNode
    <3>2. ~PathExists(pool.statusNode, Snap)
      BY <3>1 DEF PathExists
    <3> QED BY <1>2, <1>6, <3>2, EndsService
  <2> QED BY <2>1, <2>2 DEF Fault, RestartNode, Election
<1> QED BY <1>5, <1>6

-----------------------------------------------------------------------------
(* Status and devices. *)

LEMMA InitCopies == Init => CopyInv /\ ServiceInv
<1> SUFFICES ASSUME Init PROVE CopyInv /\ ServiceInv
  OBVIOUS
<1>0. /\ Vol \in LVs /\ Snap \in LVs /\ LVs \subseteq Procs /\ Nodes \subseteq Procs /\ PoolCtl \in Caches
      /\ Vol # Snap
  BY ProcsFacts
<1>1. /\ pool = NoPool /\ fresh = {} /\ \A c \in Procs : local[c] = NoPool /\ pc[c] = "idle"
      /\ \A c \in Caches : cache[c] = NoPool
      /\ own[Vol] = "wanted" /\ own[Snap] = "absent" /\ dd = "no"
      /\ lvm.lock = None /\ ~lvm.pool /\ \A l \in LVs : lvm.lvs[l] = "none"
  BY <1>0 DEF Init
<1>2. /\ NoPool.phase = "none" /\ NoPool.spec[Vol] = "none" /\ NoPool.spec[Snap] = "none"
      /\ \A l \in LVs : NoPool.status[l] = "none"
  BY <1>0 DEF NoPool
<1>3. LvmOK /\ IdleOK /\ FreshOK /\ OwnersOn
  BY <1>0, <1>1, <1>2 DEF LvmOK, IdleOK, Calm, FreshOK, OwnersOn, Ended
<1>4. VolOff /\ TargetOK
  BY <1>0, <1>1, <1>2 DEF VolOff, TargetOK
<1>5. NodesKnow
  BY <1>0, <1>1, <1>2 DEF NodesKnow, NodeKnows, OnDuty
<1>6. ServiceInv
  BY <1>1, <1>2 DEF ServiceInv, ServiceOK, DownOK, InService
<1> QED BY <1>3, <1>4, <1>5, <1>6 DEF CopyInv

\* Every step keeps the copies as they should be; every step but the reboot of a node
\* that has Snap active keeps it in service.
LEMMA CopiesKept == TypeOK /\ CopyInv /\ [Next]_vars => CopyInv'
<1> SUFFICES ASSUME TypeOK, CopyInv, [Next]_vars PROVE CopyInv'
  OBVIOUS
<1>1. CASE UNCHANGED vars
  BY <1>1 DEF vars, reconcileVars, ownerVars, CopyInv, LvmOK, Ended, VolOff, FreshOK, FreshOf, Same, Lowered,
     IdleOK, Calm, NodesKnow, NodeKnows, ShouldBeActive, TargetOK, Retired, OwnersOn
<1>2. CASE Next
  BY <1>2, StepKinds, NodeCopies, OwnerCopies, PoolCtlKeeps, CollectKeeps, OtherKeeps, FaultsKeep
     DEF NodeAct, PoolCtlStep, OtherStep
<1> QED BY <1>1, <1>2

\* The fault that takes a device from under Status: the reboot of the node that has
\* Snap active.
KeepsDevice == \A n \in Nodes : PathExists(n, Snap) => ~RebootNode(n)
NoDeviceLost == [][KeepsDevice]_vars

LEMMA ServiceKept ==
    ASSUME TypeOK, CopyInv, ServiceInv, [Next]_vars, [KeepsDevice]_vars
    PROVE  ServiceInv'
<1>1. CASE UNCHANGED vars
  BY <1>1 DEF vars, reconcileVars, ownerVars, ServiceInv, ServiceOK, DownOK, InService, Serves, AsksFor, PathExists
<1>2. CASE Next /\ KeepsDevice
  BY <1>2, StepKinds, NodeService, OwnerService, PoolCtlKeeps, CollectKeeps, OtherKeeps, FaultsKeep
     DEF NodeAct, PoolCtlStep, OtherStep, KeepsDevice
<1> QED BY <1>1, <1>2

\* Status never calls a thin LV active that is to be active and is not on
\* Status.ActiveOnNode: so ActivateThinLv, which waits for Status, waits for the
\* device. It survives restarts, elections and deletions at any time, and any reboot
\* but the one that takes the device itself.
THEOREM StatusIsReal == Spec /\ NoDeviceLost => []ActiveStatusIsReal
<1>1. Init => TypeOK /\ CopyInv /\ ServiceInv
  BY InitTypes, InitCopies
<1>2. TypeOK /\ CopyInv /\ ServiceInv /\ [Next]_vars /\ [KeepsDevice]_vars
         => (TypeOK /\ CopyInv /\ ServiceInv)'
  <2> SUFFICES ASSUME TypeOK, CopyInv, ServiceInv, [Next]_vars, [KeepsDevice]_vars
               PROVE  TypeOK' /\ CopyInv' /\ ServiceInv'
    OBVIOUS
  <2> QED BY TypesKept, CopiesKept, ServiceKept
<1>3. CopyInv /\ ServiceInv => ActiveStatusIsReal
  <2> SUFFICES ASSUME CopyInv, ServiceInv, NEW l \in LVs, pool.spec[l] = "Active", pool.status[l] = "Active"
               PROVE  PathExists(pool.statusNode, l)
    BY DEF ActiveStatusIsReal
  <2>1. l = Snap
    BY DEF CopyInv, VolOff, LVs
  <2> QED BY <2>1 DEF ServiceInv, ServiceOK, InService, Serves
<1> QED BY <1>1, <1>2, <1>3, PTL DEF Spec, NoDeviceLost

-----------------------------------------------------------------------------
(* A clone's source. *)

\* Until CreateBlob has made the ThinPoolLv there is nothing but the Volume.
UnmadeOK ==
    pool.phase = "none" =>
        /\ pool = NoPool /\ (\A c \in Caches : cache[c] = NoPool) /\ (\A q \in Procs : local[q] = NoPool)
        /\ (\A q \in Procs \ {Vol} : pc[q] = "idle")
        /\ pc[Vol] = "idle" \/ (pc[Vol] \in {"remove", "finish"} /\ Vol \in deleting)
        /\ own[Snap] = "absent" /\ own[Vol] \in {"wanted", "gone"}

\* What the cluster manager's cache says of Snap in service is so, and stays so until
\* Snap is let go; the label of a clone's target names the node that serves Snap.
SourceOK ==
    /\ ~Retired /\ InService(Cached) => InService(pool) /\ pool.statusNode = Cached.statusNode
    /\ ~Retired /\ pc[Snap] = "label" => InService(pool) /\ pool.statusNode = Cached.statusNode
    /\ ~Retired /\ own[Snap] = "labelled" => InService(pool) /\ pool.statusNode = label

\* Without a change of leader a Linear clone's pool is active nowhere but there.
LeaderOK == kind = "LinearClone" => pool.node \in {None, leader}
SourceInv == UnmadeOK /\ SourceOK /\ LeaderOK

\* Before the pool is made only its owner does anything.
LEMMA UnmadeKept ==
    ASSUME TypeOK, CopyInv, UnmadeOK, Next
    PROVE  UnmadeOK'
<1> SUFFICES ASSUME pool'.phase = "none"
             PROVE  /\ pool' = NoPool /\ (\A c \in Caches : cache'[c] = NoPool)
                    /\ (\A q \in Procs : local'[q] = NoPool)
                    /\ (\A q \in Procs \ {Vol} : pc'[q] = "idle")
                    /\ pc'[Vol] = "idle" \/ (pc'[Vol] \in {"remove", "finish"} /\ Vol \in deleting')
                    /\ own'[Snap] = "absent" /\ own'[Vol] \in {"wanted", "gone"}
  BY DEF UnmadeOK
<1>0. /\ Vol \in LVs /\ Snap \in LVs /\ LVs = {Vol, Snap} /\ Vol # Snap /\ PoolCtl \in Caches
      /\ LVs \subseteq Procs /\ Nodes \subseteq Procs /\ Nodes \subseteq Caches /\ PoolCtl \in Procs
      /\ Vol \notin Nodes /\ PoolCtl # Vol /\ pool \in Pool
      /\ NoPool.phase = "none" /\ NewPool.phase = "live"
  BY ProcsFacts DEF LVs, TypeOK, NoPool, NewPool
<1>1. pool.phase = "none"
  <2>1. ASSUME NEW n \in Nodes, NodeAct(n) PROVE pool.phase = "none"
    BY <2>1, NodeDoes
  <2>2. ASSUME NEW l \in LVs, OwnerCall(l) PROVE pool.phase = "none"
    <3>1. CASE pool' = [pool EXCEPT !.phase = "deleting"]
      BY <1>0, <3>1 DEF Pool
    <3> QED BY <1>0, <2>2, <3>1, OwnerLeaves DEF Request
  <2>3. ASSUME PoolCtlStep PROVE pool.phase = "none"
    BY <2>3, PoolCtlDoes
  <2>4. ASSUME GarbageCollect PROVE pool.phase = "none"
    BY <1>0, <2>4 DEF GarbageCollect, Pool
  <2>5. ASSUME OnlyEnds PROVE pool.phase = "none"
    BY <2>5 DEF OnlyEnds
  <2> QED BY <2>1, <2>2, <2>3, <2>4, <2>5, StepKinds, OtherDoes, FaultDoes DEF NodeAct, PoolCtlStep, OtherStep
<1>2. /\ pool = NoPool /\ (\A c \in Caches : cache[c] = NoPool) /\ (\A q \in Procs : local[q] = NoPool)
      /\ (\A q \in Procs \ {Vol} : pc[q] = "idle")
      /\ pc[Vol] = "idle" \/ (pc[Vol] \in {"remove", "finish"} /\ Vol \in deleting)
      /\ own[Snap] = "absent" /\ own[Vol] \in {"wanted", "gone"}
  BY <1>1 DEF UnmadeOK
<1>3. ~Exists(NoPool) /\ Cached = NoPool /\ ~Exists(pool)
  BY <1>0, <1>1, <1>2 DEF Exists, Cached
<1>4. \A n \in Nodes : ~NodeAct(n)
  <2> SUFFICES ASSUME NEW n \in Nodes, NodeAct(n) PROVE FALSE
    OBVIOUS
  <2>1. pc[n] = "idle" /\ cache[n] = NoPool
    BY <1>0, <1>2
  <2> QED BY <1>3, <2>1 DEF NodeAct, ActivatePool, RecordActive, DeactivatePool, RecordInactive, CreateThinLv,
             RecordThinLv, ActivateThinLvs, DeleteThinLvs, RecordDeleted, UnlockPool, StartsNode
<1>5. ~PoolCtlStep /\ ~GarbageCollect
  <2>1. pc[PoolCtl] = "idle" /\ cache[PoolCtl] = NoPool
    BY <1>0, <1>2
  <2> QED BY <1>0, <1>3, <2>1 DEF PoolCtlStep, CreatePoolLv, SetPoolAvailable, RemovePoolLv, RemovePoolFinalizer,
             MayRemovePool, GarbageCollect
<1>6. \A p : p # "idle" => ~At(Snap, p)
  BY <1>0, <1>2 DEF At, OwnerPcOf
<1>7. /\ At(Vol, "off") \/ At(Vol, "remove") => Vol \in deleting
      /\ ~At(Vol, "snapshot")
      /\ At(Vol, "finish") => Vol \in deleting
  BY <1>0, <1>2, AtFacts DEF CopyInv, At, OwnerPcOf
<1>8. ASSUME NEW l \in LVs, OwnerCall(l)
      PROVE  /\ pool' = pool /\ cache' = cache /\ UNCHANGED <<own, deleting>>
             /\ \A q \in Procs : local'[q] = NoPool /\ (q # Vol => pc'[q] = pc[q])
             /\ pc'[Vol] \in {"idle", "remove", "finish"} /\ Vol \in deleting
  <2>1. l = Vol /\ (CreateBlob \/ DeactivateBlob(Vol) \/ RemoveBlob(Vol))
    BY <1>0, <1>2, <1>6, <1>8 DEF OwnerCall, SnapshotBlob, ActivateBlobForCloneSource, DeactivateBlob, RemoveBlob,
       ForgetRemovedThinLv, DropReference, CreateBlobInNewPool
  <2>2. ~CreateBlob
    <3>1. CASE Write(Vol, NewPool, TRUE, "add")
      BY <1>0, <3>1 DEF Write
    <3> QED BY <1>1, <3>1 DEF CreateBlob
  <2>3. PICK p \in {"remove", "finish"} : Continue(Vol, NoPool, FALSE, p) /\ UNCHANGED pool /\ Vol \in deleting
    BY <1>3, <1>7, <2>1, <2>2 DEF DeactivateBlob, RemoveBlob
  <2>4. pc' = [pc EXCEPT ![Vol] = p] /\ local' = [local EXCEPT ![Vol] = NoPool] /\ cache' = cache
    BY <2>3 DEF Continue, Return, Fail
  <2>5. UNCHANGED <<own, deleting>>
    BY <2>1, <2>2 DEF DeactivateBlob, RemoveBlob, ownerVars
  <2> QED BY <1>0, <1>2, <2>3, <2>4, <2>5 DEF TypeOK
<1>9. CASE \E l \in LVs : OwnerCall(l)
  BY <1>2, <1>8, <1>9
<1>10. ASSUME OnlyEnds
       PROVE  /\ pool' = NoPool /\ (\A c \in Caches : cache'[c] = NoPool)
              /\ (\A q \in Procs : local'[q] = NoPool)
              /\ (\A q \in Procs \ {Vol} : pc'[q] = "idle")
              /\ pc'[Vol] \in {"idle", pc[Vol]}
  BY <1>0, <1>2, <1>10 DEF OnlyEnds
<1>11. CASE OtherStep
  <2>1. OnlyEnds
    BY <1>11, OtherDoes
  <2>2. CASE \E l \in LVs : BlobReady(l) \/ FinishOwner(l)
    <3>1. Vol \in deleting /\ FinishOwner(Vol)
      BY <1>0, <1>2, <1>6, <1>7, <2>2 DEF BlobReady, FinishOwner
    <3>2. own' = [own EXCEPT ![Vol] = "gone"] /\ deleting' = deleting
      BY <3>1 DEF FinishOwner
    <3>3. own'[Vol] = "gone" /\ own'[Snap] = own[Snap]
      BY <1>0, <3>2 DEF TypeOK
    <3> QED BY <1>2, <1>10, <2>1, <3>2, <3>3
  <2>3. CASE LabelTarget \/ StartDd \/ FinishDd \/ RequestSnap
    BY <1>0, <1>2, <2>3 DEF LabelTarget, StartDd, FinishDd, RequestSnap, CopyInv, TargetOK
  <2>4. CASE \/ \E c \in Procs : NothingToDo(c)
             \/ \E c \in Caches : WatchEvent(c)
             \/ CancelDd
             \/ \E s \in 2..MaxSize : Expand(s)
             \/ \E l \in LVs : Delete(l)
    <3>1. own' = own /\ deleting \subseteq deleting'
      BY <2>4 DEF NothingToDo, WatchEvent, CancelDd, Expand, Delete, ownerVars
    <3> QED BY <1>2, <1>10, <2>1, <3>1
  <2> QED BY <1>11, <2>2, <2>3, <2>4 DEF OtherStep
<1>12. CASE \E n \in Nodes : Fault(n)
  BY <1>2, <1>10, <1>12, FaultDoes
<1> QED BY <1>4, <1>5, <1>9, <1>11, <1>12, StepKinds DEF NodeAct, PoolCtlStep, OtherStep

\* The node reconcilers leave Snap in service.
LEMMA NodeServes ==
    ASSUME TypeOK, CopyInv, ServiceInv, NEW n \in Nodes, NodeAct(n), InService(pool)
    PROVE  InService(pool') /\ pool'.statusNode = pool.statusNode
<1>0. /\ n \in Procs /\ n # None /\ Snap \in LVs /\ Vol \in LVs /\ Vol # Snap /\ local[n] \in Pool
      /\ local[n].status \in [LVs -> {"none", "Inactive", "Active"}]
  BY ProcsFacts, PoolFields, NamesAssumption DEF TypeOK
<1>1. pool'.spec = pool.spec
  BY NodeDoes
<1>2. pool.statusNode # None /\ pool.spec[Snap] = "Active" /\ pool.status[Snap] = "Active"
  BY NamesAssumption DEF ServiceInv, ServiceOK, Serves, InService
<1>3. n \in fresh /\ pc[n] # "down" =>
         /\ local[n].spec[Snap] = "Active" /\ local[n].status[Snap] = "Active"
         /\ local[n].statusNode = pool.statusNode
  BY <1>2 DEF CopyInv, FreshOK, FreshOf, Same
<1>4. ASSUME pool' = pool PROVE InService(pool') /\ pool'.statusNode = pool.statusNode
  BY <1>4
<1>5. ASSUME NEW w, NEW p, Write(n, w, n \in fresh, p),
             n \in fresh => w.status[Snap] = "Active" /\ w.statusNode = pool.statusNode
      PROVE  InService(pool') /\ pool'.statusNode = pool.statusNode
  BY <1>1, <1>2, <1>5 DEF Write, InService
<1>6. CASE ActivatePool(n) \/ DeactivatePool(n) \/ CreateThinLv(n) \/ DeleteThinLvs(n) \/ UnlockPool(n)
  BY <1>4, <1>6 DEF ActivatePool, DeactivatePool, CreateThinLv, DeleteThinLvs, UnlockPool
<1>7. CASE RecordActive(n)
  <2> DEFINE w == [local[n] EXCEPT !.active = TRUE, !.statusNode = n]
  <2>1. w.status = local[n].status /\ w.statusNode = n
    BY <1>0 DEF Pool
  <2>2. pc[n] = "up" /\ (pool' = pool \/ Write(n, w, n \in fresh, AfterPool(n, w, lvm)))
    BY <1>7 DEF RecordActive
  <2>3. local[n].statusNode \in {n, None}
    BY <2>2 DEF CopyInv, NodesKnow, NodeKnows
  <2> HIDE DEF w
  <2>4. n \in fresh => w.status[Snap] = "Active" /\ w.statusNode = pool.statusNode
    BY <1>2, <1>3, <2>1, <2>2, <2>3
  <2> QED BY <1>4, <1>5, <2>2, <2>4
<1>8. CASE RecordInactive(n)
  <2>1. pc[n] = "down" /\ n \notin fresh
    BY <1>8 DEF RecordInactive, ServiceInv, DownOK
  <2>2. pool' = pool
    BY <1>8, <2>1 DEF RecordInactive, Write
  <2> QED BY <1>4, <2>2
<1>9. CASE RecordThinLv(n)
  <2> DEFINE v == local[n]
             l == IF MustSnapshot(v) THEN Snap ELSE Vol
             w == [v EXCEPT !.status[l] = IF @ = "none" THEN "Inactive" ELSE @,
                            !.have = IF l = Vol THEN lvm.size ELSE @]
  <2>1. pc[n] = "record" /\ Write(n, w, n \in fresh, ToCreate(n, w, lvm))
    BY <1>9 DEF RecordThinLv
  <2>2. w.statusNode = v.statusNode /\ (v.status[Snap] = "Active" => w.status[Snap] = "Active")
    BY <1>0 DEF Pool
  <2> HIDE DEF w
  <2> QED BY <1>3, <1>5, <2>1, <2>2
<1>10. CASE ActivateThinLvs(n)
  <2> DEFINE w(l) == [local[n] EXCEPT !.status[l] = IF local[n].spec[l] = "Active" THEN "Active" ELSE "Inactive"]
  <2>1. PICK l \in LVs : pc[n] = "activate" /\ (pool' = pool \/ Write(n, w(l), n \in fresh, ToActivate(n, w(l), lvm)))
    BY <1>10 DEF ActivateThinLvs, Listed
  <2>2. w(l).statusNode = local[n].statusNode
        /\ (local[n].spec[Snap] = "Active" /\ local[n].status[Snap] = "Active" => w(l).status[Snap] = "Active")
    BY <1>0 DEF Pool
  <2> HIDE DEF w
  <2> QED BY <1>3, <1>4, <1>5, <2>1, <2>2
<1>11. CASE RecordDeleted(n)
  <2> DEFINE w == DropRemoved(local[n])
  <2>1. pc[n] = "deleted" /\ Write(n, w, n \in fresh, ToUnlock(n, w, lvm))
    BY <1>11 DEF RecordDeleted
  <2>2. w.statusNode = local[n].statusNode
        /\ (local[n].spec[Snap] = "Active" /\ local[n].status[Snap] = "Active" => w.status[Snap] = "Active")
    BY <1>0 DEF DropRemoved, Removed, Pool
  <2> HIDE DEF w
  <2> QED BY <1>3, <1>5, <2>1, <2>2
<1> QED BY <1>6, <1>7, <1>8, <1>9, <1>10, <1>11 DEF NodeAct

\* So does every step until Snap is to be let go.
LEMMA ServiceStays ==
    ASSUME TypeOK, CopyInv, ServiceInv, UnmadeOK, Next, ~Retired, InService(pool)
    PROVE  InService(pool') /\ pool'.statusNode = pool.statusNode
<1>1. ASSUME NEW l \in LVs, OwnerCall(l) PROVE InService(pool') /\ pool'.statusNode = pool.statusNode
  <2>1. CASE Request(l, pool')
    BY <1>1, <2>1, RequestFacts DEF Request, InService
  <2>2. pool.phase # "none"
    BY ProcsFacts DEF UnmadeOK, InService, NoPool
  <2>3. CASE pool' = [pool EXCEPT !.phase = "deleting"]
    BY <2>3 DEF TypeOK, Pool, InService
  <2> QED BY <1>1, <2>1, <2>2, <2>3, OwnerLeaves
<1>2. ASSUME PoolCtlStep PROVE InService(pool') /\ pool'.statusNode = pool.statusNode
  BY <1>2, PoolCtlDoes DEF InService
<1>3. ASSUME GarbageCollect PROVE InService(pool') /\ pool'.statusNode = pool.statusNode
  BY <1>3 DEF GarbageCollect, TypeOK, Pool, InService
<1>4. ASSUME OnlyEnds PROVE InService(pool') /\ pool'.statusNode = pool.statusNode
  BY <1>4 DEF OnlyEnds
<1> QED BY <1>1, <1>2, <1>3, <1>4, NodeServes, StepKinds, OtherDoes, FaultDoes DEF NodeAct, PoolCtlStep, OtherStep

\* What becomes of the target: it is never taken back, and its label is there to stay.
LEMMA TargetSteps ==
    ASSUME TypeOK, CopyInv, Next
    PROVE  /\ Retired => Retired'
           /\ cache'[PoolCtl] \in {cache[PoolCtl], pool}
           /\ ~LabelTarget => Retired' \/ (label' = label /\ (own'[Snap] = "labelled" => own[Snap] = "labelled"))
           /\ ~(\E l \in LVs : OwnerCall(l)) => pc'[Snap] \in {"idle", pc[Snap]}
<1>0. /\ Vol \in LVs /\ Snap \in LVs /\ Vol # Snap /\ PoolCtl \in Caches /\ Snap \in Procs /\ Snap \notin Nodes
      /\ Snap # PoolCtl
      /\ own \in [LVs -> {"absent", "wanted", "labelled", "copied", "ready", "gone"}]
  BY ProcsFacts DEF TypeOK
<1>1. ASSUME UNCHANGED <<own, deleting, label>>
      PROVE  /\ Retired => Retired'
             /\ label' = label /\ (own'[Snap] = "labelled" => own[Snap] = "labelled")
  BY <1>1 DEF Retired
<1>2. ASSUME OnlyEnds
      PROVE  cache'[PoolCtl] \in {cache[PoolCtl], pool} /\ pc'[Snap] \in {"idle", pc[Snap]}
  BY <1>0, <1>2 DEF OnlyEnds
<1>3. ASSUME NEW n \in Nodes, NodeAct(n)
      PROVE  UNCHANGED <<own, deleting, label>> /\ cache' = cache /\ pc'[Snap] = pc[Snap]
  BY <1>0, <1>3, NodeDoes
<1>4. ASSUME NEW l \in LVs, OwnerCall(l)
      PROVE  UNCHANGED <<own, deleting, label>> /\ cache' = cache
  BY <1>4, OwnerLeaves
<1>5. ASSUME PoolCtlStep
      PROVE  UNCHANGED <<own, deleting, label>> /\ cache' = cache /\ pc'[Snap] = pc[Snap]
  BY <1>0, <1>5, PoolCtlDoes
<1>6. ASSUME GarbageCollect
      PROVE  UNCHANGED <<own, deleting, label>> /\ cache' = cache /\ pc'[Snap] = pc[Snap]
  BY <1>6 DEF GarbageCollect, ownerVars
<1>7. ASSUME NEW n \in Nodes, Fault(n)
      PROVE  UNCHANGED <<own, deleting, label>> /\ OnlyEnds
  BY <1>7, FaultDoes
<1>8. ASSUME OtherStep
      PROVE  /\ Retired => Retired'
             /\ ~LabelTarget => Retired' \/ (label' = label /\ (own'[Snap] = "labelled" => own[Snap] = "labelled"))
  <2>1. CASE \/ \E c \in Procs : NothingToDo(c)
             \/ \E c \in Caches : WatchEvent(c)
             \/ StartDd \/ CancelDd
             \/ \E s \in 2..MaxSize : Expand(s)
    <3>1. UNCHANGED <<own, deleting, label>>
      BY <2>1 DEF NothingToDo, WatchEvent, StartDd, CancelDd, Expand, ownerVars
    <3> QED BY <1>1, <3>1
  <2>2. CASE BlobReady(Snap) \/ FinishOwner(Snap) \/ FinishDd
    <3>1. own'[Snap] \in {"ready", "gone", "copied"}
      BY <1>0, <2>2 DEF BlobReady, FinishOwner, FinishDd
    <3> QED BY <3>1 DEF Retired
  <2>3. CASE BlobReady(Vol) \/ FinishOwner(Vol)
    <3>1. own'[Snap] = own[Snap] /\ UNCHANGED <<deleting, label>>
      BY <1>0, <2>3 DEF BlobReady, FinishOwner
    <3> QED BY <3>1 DEF Retired
  <2>4. CASE LabelTarget
    <3>1. own[Snap] \in {"wanted", "labelled"} \/ own' = own
      BY <2>4 DEF LabelTarget, CopyInv, TargetOK
    <3>2. deleting' = deleting
      BY <2>4 DEF LabelTarget
    <3> QED BY <2>4, <3>1, <3>2 DEF Retired
  <2>5. CASE RequestSnap
    <3>1. own[Snap] = "absent" /\ own'[Snap] = "wanted" /\ UNCHANGED <<deleting, label>>
      BY <1>0, <2>5 DEF RequestSnap
    <3> QED BY <3>1 DEF Retired
  <2>6. CASE \E l \in LVs : Delete(l)
    <3>1. deleting \subseteq deleting' /\ UNCHANGED <<own, label>>
      BY <2>6 DEF Delete
    <3> QED BY <3>1 DEF Retired
  <2> QED BY <1>8, <2>1, <2>2, <2>3, <2>4, <2>5, <2>6 DEF OtherStep, LVs
<1>9. CASE \E l \in LVs : OwnerCall(l)
  BY <1>1, <1>4, <1>9
<1>10. CASE OtherStep
  BY <1>2, <1>8, <1>10, OtherDoes
<1>11. CASE (\E n \in Nodes : NodeAct(n)) \/ PoolCtlStep \/ GarbageCollect
  BY <1>1, <1>3, <1>5, <1>6, <1>11
<1>12. CASE \E n \in Nodes : Fault(n)
  BY <1>1, <1>2, <1>7, <1>12
<1> QED BY <1>9, <1>10, <1>11, <1>12, StepKinds DEF NodeAct, PoolCtlStep, OtherStep

\* ActivateBlobForCloneSource goes on to the label when Snap is in service.
LEMMA LabelReached ==
    ASSUME TypeOK, CopyInv, SourceOK, NEW l \in LVs, OwnerCall(l), pc'[Snap] = "label", pc[Snap] # "label", ~Retired
    PROVE  InService(pool') /\ pool'.statusNode = Cached.statusNode
<1>0. /\ Snap \in LVs /\ Snap \in Procs /\ Vol # Snap /\ Cached \in Pool /\ leader \in Nodes
  BY ProcsFacts DEF TypeOK, Cached
<1>1. l = Snap /\ pc[Snap] = "activate"
  BY <1>0, OwnerLeaves DEF OwnerTo
<1>2. ActivateBlobForCloneSource
  BY <1>0, <1>1, AtFacts DEF OwnerCall, CopyInv, SnapshotBlob, DeactivateBlob, RemoveBlob, ForgetRemovedThinLv,
     DropReference
<1> DEFINE v == [Cached EXCEPT !.refs = @ \cup {Snap}, !.spec[Snap] = "Active"]
           p == IF Cached.status[Snap] = "Active" THEN "label" ELSE "idle"
<1>3. UpdateThinPoolLv(Snap, Cached, v, CachedIsFresh, p)
  BY <1>2 DEF ActivateBlobForCloneSource
<1>4. /\ v \in Pool /\ v.spec[Snap] = "Active" /\ v.status = Cached.status /\ v.statusNode = Cached.statusNode
  BY <1>0 DEF Pool, LVs
<1> HIDE DEF v
<1>5. /\ Recalc(v).spec = v.spec /\ Recalc(v).status = v.status /\ Recalc(v).statusNode = v.statusNode
  BY <1>0, <1>4, RecalcFacts
<1>6. p = "label" /\ ~Return(Snap) /\ ~Fail(Snap)
  BY <1>0, <1>3 DEF UpdateThinPoolLv, Write, Continue, Return, Fail, Ends, TypeOK
<1>7. CASE Recalc(v) = Cached /\ pool' = pool
  BY <1>4, <1>5, <1>6, <1>7 DEF SourceOK, InService
<1>8. CASE pool' = Recalc(v)
  BY <1>4, <1>5, <1>6, <1>8 DEF InService
<1> QED BY <1>3, <1>6, <1>7, <1>8 DEF UpdateThinPoolLv, Write

\* A change of the cluster manager's leader while a Linear clone is about.
KeepsLeader == kind = "LinearClone" => leader' = leader
SameLeader == [][KeepsLeader]_vars

LEMMA SourceKept ==
    ASSUME TypeOK, CopyInv, ServiceInv, SourceInv, Next
    PROVE  SourceOK'
<1> SUFFICES ASSUME ~Retired' PROVE SourceOK'
  BY DEF SourceOK
<1>0. UnmadeOK /\ SourceOK /\ LeaderOK /\ TargetOK /\ ServiceOK /\ ~Retired
  BY TargetSteps DEF SourceInv, CopyInv, ServiceInv
<1>1. InService(pool) => InService(pool') /\ pool'.statusNode = pool.statusNode
  BY <1>0, ServiceStays
<1>2. cache'[PoolCtl] \in {cache[PoolCtl], pool}
  BY TargetSteps
<1>3. InService(cache'[PoolCtl]) => InService(pool') /\ pool'.statusNode = cache'[PoolCtl].statusNode
  BY <1>0, <1>1, <1>2 DEF SourceOK, Cached
<1>4. pc'[Snap] = "label" => InService(pool') /\ pool'.statusNode = cache'[PoolCtl].statusNode
  <2>1. CASE pc[Snap] = "label"
    BY <1>0, <1>1, <1>2, <2>1 DEF SourceOK, Cached
  <2>2. CASE pc'[Snap] = "label" /\ pc[Snap] # "label"
    <3>1. PICK l \in LVs : OwnerCall(l)
      BY <2>2, TargetSteps
    <3>2. cache' = cache
      BY <3>1, OwnerLeaves
    <3> QED BY <1>0, <2>2, <3>1, <3>2, LabelReached DEF Cached
  <2> QED BY <2>1, <2>2
<1>5. own'[Snap] = "labelled" => InService(pool') /\ pool'.statusNode = label'
  <2>1. CASE own[Snap] = "labelled" /\ label' = label
    BY <1>0, <1>1, <2>1 DEF SourceOK
  <2>2. CASE LabelTarget
    <3>1. pc[Snap] = "label" /\ own[Snap] \in {"wanted", "labelled"}
      BY <1>0, <2>2 DEF LabelTarget, TargetOK, Retired
    <3>2. InService(pool) /\ pool.statusNode = Cached.statusNode
      BY <1>0, <3>1 DEF SourceOK
    <3>3. pool.statusNode = pool.node /\ pool.node # None
      BY <1>0, <3>2, NamesAssumption DEF ServiceOK, Serves
    <3>4. PopulationNode(Cached) = pool.statusNode
      BY <1>0, <3>2, <3>3 DEF PopulationNode, LeaderOK
    <3>5. own'[Snap] = "labelled" => (own[Snap] = "labelled" /\ label' = label) \/ label' = pool.statusNode
      BY <1>0, <2>2, <3>1, <3>4 DEF LabelTarget, TargetOK
    <3> QED BY <1>1, <2>1, <3>2, <3>5
  <2>3. CASE ~LabelTarget
    BY <2>1, <2>3, TargetSteps
  <2> QED BY <2>2, <2>3
<1> QED BY <1>3, <1>4, <1>5 DEF SourceOK, Cached, InService

LEMMA LeaderKept ==
    ASSUME TypeOK, CopyInv, LeaderOK, Next, KeepsLeader
    PROVE  LeaderOK'
<1>1. ASSUME NEW l \in LVs, OwnerCall(l) PROVE pool'.node \in {None, leader, pool.node} /\ kind' = kind
  <2>1. NewPool.node = None
    BY DEF NewPool, NoPool
  <2>2. CASE pool' = [pool EXCEPT !.phase = "deleting"]
    BY <1>1, <2>2, OwnerLeaves DEF TypeOK, Pool
  <2> QED BY <1>1, <2>1, <2>2, OwnerLeaves DEF Request
<1>2. ASSUME GarbageCollect PROVE pool'.node = pool.node /\ kind' = kind
  BY <1>2 DEF GarbageCollect, TypeOK, Pool
<1>3. pool'.node \in {None, leader, pool.node} /\ kind' = kind
  BY <1>1, <1>2, StepKinds, NodeDoes, PoolCtlDoes, OtherDoes, FaultDoes
     DEF NodeAct, PoolCtlStep, OtherStep, OnlyEnds
<1> QED BY <1>3 DEF LeaderOK, KeepsLeader

LEMMA InitSource == Init => SourceInv
<1> SUFFICES ASSUME Init PROVE SourceInv
  OBVIOUS
<1>0. Vol \in LVs /\ Snap \in LVs /\ Vol # Snap /\ PoolCtl \in Caches /\ Snap \in Procs /\ Vol \in Procs
  BY ProcsFacts
<1>1. /\ pool = NoPool /\ (\A c \in Procs : local[c] = NoPool /\ pc[c] = "idle")
      /\ \A c \in Caches : cache[c] = NoPool
      /\ own[Vol] = "wanted" /\ own[Snap] = "absent"
  BY <1>0 DEF Init
<1>2. NoPool.spec[Snap] = "none" /\ NoPool.node = None
  BY <1>0 DEF NoPool
<1> QED BY <1>0, <1>1, <1>2 DEF SourceInv, UnmadeOK, SourceOK, LeaderOK, InService, Cached

LEMMA SourceInvKept ==
    ASSUME TypeOK, CopyInv, ServiceInv, SourceInv, [Next]_vars, [KeepsLeader]_vars
    PROVE  SourceInv'
<1>1. CASE UNCHANGED vars
  BY <1>1 DEF vars, reconcileVars, ownerVars, SourceInv, UnmadeOK, SourceOK, LeaderOK, Retired, InService, Cached
<1>2. CASE Next /\ KeepsLeader
  BY <1>2, UnmadeKept, SourceKept, LeaderKept DEF SourceInv
<1> QED BY <1>1, <1>2

\* The node that copies a clone's data has the source's device, from the label's
\* being written to the copy's end: activateDataSource writes it from a cache that may
\* be old, but Snap stays in service where that cache saw it. This needs the leader to
\* stay where it is only for a Linear clone, which the leader's node populates.
THEOREM PopulationHasSource ==
    Spec /\ NoDeviceLost /\ SameLeader => []PopulationSourceActive
<1>1. Init => TypeOK /\ CopyInv /\ ServiceInv /\ SourceInv
  BY InitTypes, InitCopies, InitSource
<1>2. TypeOK /\ CopyInv /\ ServiceInv /\ SourceInv /\ [Next]_vars /\ [KeepsDevice]_vars /\ [KeepsLeader]_vars
         => (TypeOK /\ CopyInv /\ ServiceInv /\ SourceInv)'
  <2> SUFFICES ASSUME TypeOK, CopyInv, ServiceInv, SourceInv, [Next]_vars, [KeepsDevice]_vars, [KeepsLeader]_vars
               PROVE  TypeOK' /\ CopyInv' /\ ServiceInv' /\ SourceInv'
    OBVIOUS
  <2> QED BY TypesKept, CopiesKept, ServiceKept, SourceInvKept
<1>3. ServiceInv /\ SourceInv => PopulationSourceActive
  BY DEF ServiceInv, ServiceOK, SourceInv, SourceOK, PopulationSourceActive, Retired, Serves
<1> QED BY <1>1, <1>2, <1>3, PTL DEF Spec, NoDeviceLost, SameLeader

-----------------------------------------------------------------------------
(* A snapshot's source. *)

\* Vol, or Snap, is to be removed, or has been, and is not asked for again.
VolOver == Vol \in deleting /\ pool.spec[Vol] \in {"none", "Removed"} /\ pc[Vol] # "add"
SnapOver == Retired /\ pool.spec[Snap] \in {"none", "Removed"} /\ pc[Snap] # "activate"

\* A thin LV is made, and reported, and stays so until its end.
VolMade == VolOver \/ lvm.lvs[Vol] # "none"
VolThere == VolOver \/ (pool.status[Vol] # "none" /\ lvm.lvs[Vol] # "none")
SnapMade == SnapOver \/ lvm.lvs[Snap] # "none"

Wants(v) == v.spec[Snap] \in {"Inactive", "Active"}

\* Every copy of the ThinPoolLv lists Snap only with its source, which is let go in a
\* pool that is being deleted only if Snap is not wanted.
Coherent(v) ==
    /\ Covers(v)
    /\ Wants(v) /\ v.status[Snap] = "none" => v.status[Vol] # "none"
    /\ v.phase # "live" /\ v.spec[Vol] = "Removed" => ~Wants(v)

\* What any copy says of a thin LV was so once, and so has its consequences now: a copy
\* that lets Vol go shows Snap, if Snap is wanted.
Recalls(v) ==
    /\ v.spec[Vol] = "Removed" => VolOver /\ (Wants(pool) => Wants(v))
    /\ v.spec[Snap] = "Removed" => SnapOver
    /\ v.spec[Snap] # "none" => Wants(pool) \/ SnapOver
    /\ v.status[Vol] # "none" => VolThere
    /\ v.status[Snap] # "none" => SnapMade

\* Vol refers to the pool until it has been forgotten, or is gone.
Refers(v) == v.phase # "none" /\ Vol \notin v.refs => own[Vol] = "gone" \/ (Vol \in deleting /\ v.spec[Vol] = "none")

Sound(v) == Coherent(v) /\ Recalls(v) /\ Refers(v)
CopiesSound == Sound(pool) /\ (\A c \in Caches : Sound(cache[c])) /\ (\A q \in Procs : Sound(local[q]))

\* A node comes to remove Vol only with a copy in which Snap, if wanted, is reported; it
\* has made what it is about to report.
Ready(v) == v.spec[Vol] = "Removed" /\ Wants(v) => v.status[Snap] # "none"
NodeReady(n) ==
    /\ pc[n] \in {"activate", "delete", "deleted"} => Ready(local[n])
    /\ pc[n] = "record" => IF MustSnapshot(local[n]) THEN SnapMade ELSE VolMade
NodesReady == \A n \in Nodes : NodeReady(n)

\* From when Vol is available, a copy on the leader that does not list it is of the time
\* after its end.
HandedOut == own[Vol] = "ready" \/ pc[Vol] = "ready" \/ own[Snap] # "absent"
VolForgotten == VolOver /\ pool.spec[Vol] = "none"
Late(v) == v.phase # "none" /\ v.spec[Vol] = "none" => VolForgotten /\ (Wants(pool) => Wants(v))
HandedOK ==
    HandedOut =>
        /\ VolThere /\ pc[Vol] # "add" /\ Cached.phase # "none"
        /\ Late(Cached) /\ Late(local[Vol]) /\ Late(local[Snap])
        /\ pc[Vol] = "finish" \/ own[Vol] = "gone" => VolForgotten \/ Ended(pool)

\* The pool is deleted only when Vol is, and no snapshot is begun then; the owners
\* take their steps in order.
EndOK ==
    /\ Ended(pool) => Vol \in deleting /\ (HandedOut => VolOver)
    /\ pc[PoolCtl] = "rmfinal" => Ended(pool)
    /\ pc[Vol] \in {"remove", "forget", "forgot", "drop", "finish"} \/ own[Vol] = "gone" => Vol \in deleting
    /\ pc[Vol] \in {"drop", "forgot"} => local[Vol].spec[Vol] = "none" /\ local[Vol].phase # "none"
    /\ pc[Vol] = "add" => Vol \in local[Vol].refs
    /\ own[Vol] = "gone" => pc[Vol] = "idle"
    /\ own[Snap] = "absent" => pool.spec[Snap] = "none" /\ local[Snap] = NoPool /\ pc[Snap] = "idle"
    /\ pc[Snap] = "activate" => Wants(pool)

OriginInv == CopiesSound /\ NodesReady /\ HandedOK /\ EndOK /\ SnapshotSourceKept

\* Such facts stay, and no wish for Snap comes up after Vol's end.
Onward ==
    /\ VolOver => VolOver' /\ (pool.spec[Vol] = "none" => pool'.spec[Vol] = "none")
    /\ SnapOver => SnapOver'
    /\ VolMade => VolMade'
    /\ VolThere => VolThere'
    /\ SnapMade => SnapMade'
    /\ Wants(pool) => Wants(pool') \/ SnapOver'
    /\ Wants(pool') => Wants(pool) \/ ~VolOver
    /\ deleting \subseteq deleting' /\ (own[Vol] = "gone" => own'[Vol] = "gone")

\* A copy that is kept keeps what it recalls.
LEMMA SoundStays ==
    ASSUME Onward, NEW v, Sound(v)
    PROVE  Sound(v)'
<1>1. Recalls(v)'
  BY DEF Onward, Sound, Recalls, VolThere, SnapMade
<1>2. Refers(v)'
  BY DEF Onward, Sound, Refers
<1>3. Coherent(v)'
  BY DEF Sound, Coherent, Covers, Wants
<1> QED BY <1>1, <1>2, <1>3 DEF Sound

\* Copies that differ in nothing that matters here.
Alike(v, w) == SameLists(v, w) /\ v.phase = w.phase /\ v.refs = w.refs

LEMMA AlikeSound ==
    ASSUME NEW v, NEW w, Alike(v, w), Sound(w)
    PROVE  Sound(v)
<1>1. v.spec = w.spec /\ v.phase = w.phase /\ v.refs = w.refs
      /\ \A l \in LVs : v.status[l] = "none" <=> w.status[l] = "none"
  BY DEF Alike, SameLists
<1>2. Coherent(v)
  BY <1>1, ProcsFacts DEF Sound, Coherent, Covers, Wants
<1>3. Recalls(v) /\ Refers(v)
  BY <1>1, ProcsFacts DEF Sound, Recalls, Wants, Refers
<1> QED BY <1>2, <1>3 DEF Sound

LEMMA NoPoolSound == Sound(NoPool)
<1>1. /\ NoPool.phase = "none" /\ \A l \in LVs : NoPool.spec[l] = "none" /\ NoPool.status[l] = "none"
  BY DEF NoPool
<1> QED BY <1>1, ProcsFacts DEF Sound, Coherent, Covers, Recalls, Wants, Refers

\* Every copy that a step leaves is one that was there, but for details, or the object.
OldCopies(v) == v = NoPool \/ \E w : Sound(w) /\ Alike(v, w)
CopiesFrom ==
    /\ \A c \in Caches : cache'[c] \in {cache[c], pool}
    /\ \A q \in Procs : local'[q] = pool' \/ OldCopies(local'[q])

LEMMA CopiesSoundKept ==
    ASSUME CopiesSound, Onward, CopiesFrom, Sound(pool)'
    PROVE  CopiesSound'
<1>1. ASSUME NEW c \in Caches PROVE Sound(cache[c])'
  <2>1. PICK v : v = cache'[c]
    OBVIOUS
  <2>2. Sound(v)
    BY <1>1, <2>1 DEF CopiesFrom, CopiesSound
  <2>3. Sound(v)'
    BY <2>2, SoundStays
  <2> QED BY <2>1, <2>3 DEF Sound, Coherent, Covers, Recalls, Refers, Wants
<1>2. ASSUME NEW q \in Procs PROVE Sound(local[q])'
  <2>1. CASE local'[q] = pool'
    BY <2>1 DEF Sound, Coherent, Covers, Recalls, Refers, Wants
  <2>2. CASE OldCopies(local'[q])
    <3>1. PICK v : v = local'[q]
      OBVIOUS
    <3>2. Sound(v)
      <4>1. v = NoPool \/ \E w : Sound(w) /\ Alike(v, w)
        BY <2>2, <3>1 DEF OldCopies, Sound
      <4> QED BY <4>1, AlikeSound, NoPoolSound
    <3>3. Sound(v)'
      BY <3>2, SoundStays
    <3> QED BY <3>1, <3>3 DEF Sound, Coherent, Covers, Recalls, Refers, Wants
  <2> QED BY <1>2, <2>1, <2>2 DEF CopiesFrom
<1> QED BY <1>1, <1>2 DEF CopiesSound

\* The node reconcilers: what they leave of the thin LVs,
LEMMA NodeDevices ==
    ASSUME TypeOK, NEW n \in Nodes, NodeAct(n)
    PROVE  /\ \A l \in LVs : lvm.lvs[l] # "none" /\ lvm'.lvs[l] = "none" =>
                 pc[n] = "delete" /\ local[n].spec[l] = "Removed"
           /\ pc'[n] = "record" =>
                 /\ pc[n] = "create" /\ local'[n] = local[n]
                 /\ lvm'.lvs[IF MustSnapshot(local[n]) THEN Snap ELSE Vol] # "none"
<1>0. /\ n \in Procs /\ Vol \in LVs /\ Snap \in LVs /\ Vol # Snap /\ lvm \in Lvm
      /\ lvm.lvs \in [LVs -> {"none", "inactive", "active"}] /\ n \in Nodes
      /\ lvm.size \in 0..MaxSize /\ local[n] \in Pool /\ local[n].want \in 0..MaxSize
  BY ProcsFacts, LvmFields, PoolFields DEF TypeOK
<1>1. ASSUME \A l \in LVs : lvm'.lvs[l] = "none" <=> lvm.lvs[l] = "none", pc'[n] # "record"
      PROVE  /\ \A l \in LVs : lvm.lvs[l] # "none" /\ lvm'.lvs[l] = "none" =>
                   pc[n] = "delete" /\ local[n].spec[l] = "Removed"
             /\ pc'[n] = "record" =>
                   /\ pc[n] = "create" /\ local'[n] = local[n]
                   /\ lvm'.lvs[IF MustSnapshot(local[n]) THEN Snap ELSE Vol] # "none"
  BY <1>1
<1>2. ASSUME NEW c, NEW v, NEW b, NEW p, c = n, Continue(c, v, b, p) \/ Write(c, v, b, p) \/ Return(c) \/ Fail(c),
             p # "record"
      PROVE  pc'[n] # "record"
  BY <1>0, <1>2 DEF Continue, Write, Return, Fail, Ends, TypeOK
<1>3. \A v, m : AfterPool(n, v, m) # "record" /\ ToCreate(n, v, m) # "record" /\ ToActivate(n, v, m) # "record"
                /\ ToUnlock(n, v, m) # "record"
  BY NextSteps
<1>4. CASE ActivatePool(n)
  <2>1. pc'[n] # "record"
    BY <1>2, <1>4 DEF ActivatePool
  <2>2. lvm'.lvs = lvm.lvs
    BY <1>0, <1>4 DEF ActivatePool, Lvm
  <2> QED BY <1>1, <2>1, <2>2
<1>5. CASE RecordActive(n) \/ RecordInactive(n) \/ RecordThinLv(n) \/ RecordDeleted(n)
  <2>1. lvm' = lvm
    BY <1>5 DEF RecordActive, RecordInactive, RecordThinLv, RecordDeleted
  <2>2. pc'[n] # "record"
    BY <1>2, <1>3, <1>5 DEF RecordActive, RecordInactive, RecordThinLv, RecordDeleted
  <2> QED BY <1>1, <2>1, <2>2
<1>6. CASE DeactivatePool(n)
  <2> DEFINE v == cache[n]
             off == [lvm EXCEPT !.up = FALSE,
                           !.lvs = [l \in LVs |-> IF l \in Listed(v) /\ @[l] = "active"
                                                  THEN "inactive" ELSE @[l]]]
  <2>1. lvm' = lvm \/ lvm' = Settled(off, n)
    BY <1>6 DEF DeactivatePool
  <2>2. off \in Lvm /\ \A l \in LVs : off.lvs[l] = "none" <=> lvm.lvs[l] = "none"
    BY <1>0 DEF Lvm
  <2> HIDE DEF off
  <2>3. \A l \in LVs : lvm'.lvs[l] = "none" <=> lvm.lvs[l] = "none"
    BY <2>1, <2>2, SettledFacts
  <2>4. pc'[n] # "record"
    BY <1>2, <1>3, <1>6 DEF DeactivatePool
  <2> QED BY <1>1, <2>3, <2>4
<1>7. CASE CreateThinLv(n)
  <2> DEFINE v == local[n]
             k == IF MustSnapshot(v) THEN Snap ELSE Vol
             m1 == [lvm EXCEPT !.lvs[Vol] = "inactive",
                               !.size = IF lvm.lvs[Vol] # "none" THEN @ ELSE v.want]
             m2 == [lvm EXCEPT !.size = IF @ < v.want THEN v.want ELSE @]
             m3 == [lvm EXCEPT !.lvs[Snap] = IF @ = "none" THEN "active" ELSE @]
  <2>1. pc[n] = "create"
    BY <1>7 DEF CreateThinLv
  <2>2. CASE Fail(n) /\ lvm' = lvm
    BY <1>1, <1>2, <2>2
  <2>3. CASE Continue(n, v, n \in fresh, "record") /\ (lvm.lvs[Vol] # "none" \/ MustCreate(v))
             /\ \/ MustCreate(v) /\ lvm' = Settled(m1, n)
                \/ MustExpand(v) /\ lvm' = Settled(m2, n)
                \/ MustSnapshot(v) /\ lvm' = Settled(m3, n)
    <3>1. local'[n] = local[n]
      BY <1>0, <2>3 DEF Continue, TypeOK
    <3>2. m1 \in Lvm /\ m1.lvs[Vol] = "inactive" /\ m1.lvs[Snap] = lvm.lvs[Snap]
      BY <1>0 DEF Lvm
    <3>3. m2 \in Lvm /\ m2.lvs = lvm.lvs
      BY <1>0 DEF Lvm
    <3>4. m3 \in Lvm /\ m3.lvs[Snap] # "none" /\ m3.lvs[Vol] = lvm.lvs[Vol]
      BY <1>0 DEF Lvm
    <3> HIDE DEF m1, m2, m3
    <3>5. CASE MustCreate(v) /\ lvm' = Settled(m1, n)
      <4>1. lvm'.lvs = m1.lvs /\ ~MustSnapshot(v)
        BY <3>2, <3>5, SettledFacts DEF MustSnapshot
      <4> QED BY <2>1, <3>1, <3>2, <4>1 DEF LVs
    <3>6. CASE MustExpand(v) /\ lvm' = Settled(m2, n)
      <4>1. lvm'.lvs = lvm.lvs /\ ~MustSnapshot(v) /\ lvm.lvs[Vol] # "none"
        BY <2>3, <3>3, <3>6, SettledFacts DEF MustSnapshot, MustExpand, MustCreate, Wanted
      <4> QED BY <2>1, <3>1, <4>1 DEF LVs
    <3>7. CASE MustSnapshot(v) /\ lvm' = Settled(m3, n)
      <4>1. lvm'.lvs = m3.lvs
        BY <3>4, <3>7, SettledFacts
      <4> QED BY <2>1, <3>1, <3>4, <3>7, <4>1 DEF LVs
    <3> QED BY <2>3, <3>5, <3>6, <3>7
  <2> QED BY <1>7, <2>2, <2>3 DEF CreateThinLv
<1>8. CASE ActivateThinLvs(n)
  <2>1. PICK l \in LVs :
          \/ lvm' = lvm
          \/ lvm.lvs[l] = "inactive" /\ lvm' = [lvm EXCEPT !.lvs[l] = "active", !.lock = n]
          \/ ~RightDevice(n, local[n], lvm, l) /\ local[n].spec[l] # "Active"
             /\ lvm' = Settled([lvm EXCEPT !.lvs[l] = "inactive"], n)
    BY <1>8 DEF ActivateThinLvs, Listed
  <2>2. \A k \in LVs : lvm'.lvs[k] = "none" <=> lvm.lvs[k] = "none"
    <3>1. CASE lvm.lvs[l] = "inactive" /\ lvm' = [lvm EXCEPT !.lvs[l] = "active", !.lock = n]
      BY <1>0, <3>1 DEF Lvm
    <3>2. CASE ~RightDevice(n, local[n], lvm, l) /\ local[n].spec[l] # "Active"
               /\ lvm' = Settled([lvm EXCEPT !.lvs[l] = "inactive"], n)
      <4>1. [lvm EXCEPT !.lvs[l] = "inactive"] \in Lvm
        BY <1>0 DEF Lvm
      <4>2. lvm.lvs[l] = "active"
        BY <3>2 DEF RightDevice, Device
      <4>3. lvm'.lvs = [lvm EXCEPT !.lvs[l] = "inactive"].lvs
        BY <3>2, <4>1, SettledFacts
      <4>4. [lvm EXCEPT !.lvs[l] = "inactive"].lvs = [lvm.lvs EXCEPT ![l] = "inactive"]
        BY <1>0 DEF Lvm
      <4> QED BY <1>0, <4>2, <4>3, <4>4
    <3> QED BY <2>1, <3>1, <3>2
  <2>3. pc'[n] # "record"
    BY <1>2, <1>3, <1>8 DEF ActivateThinLvs
  <2> QED BY <1>1, <2>2, <2>3
<1>9. CASE DeleteThinLvs(n)
  <2> DEFINE v == local[n]
             gone == {l \in Removed(v) : lvm.lvs[l] # "active"}
             after == [lvm EXCEPT !.lvs = [l \in LVs |-> IF l \in gone THEN "none" ELSE @[l]]]
  <2>1. lvm' \in {lvm, Settled(after, n), [after EXCEPT !.lock = n], after}
    BY <1>9 DEF DeleteThinLvs
  <2>2. after \in Lvm /\ \A l \in LVs : lvm.lvs[l] # "none" /\ after.lvs[l] = "none" => local[n].spec[l] = "Removed"
    BY <1>0 DEF Lvm, Removed
  <2>3. [after EXCEPT !.lock = n].lvs = after.lvs
    BY <2>2 DEF Lvm
  <2>4. pc[n] = "delete"
    BY <1>9 DEF DeleteThinLvs
  <2>5. pc'[n] # "record"
    BY <1>2, <1>9 DEF DeleteThinLvs
  <2> HIDE DEF after
  <2>6. Settled(after, n).lvs = after.lvs
    BY <2>2, SettledFacts
  <2>7. lvm'.lvs \in {lvm.lvs, after.lvs}
    BY <2>1, <2>3, <2>6
  <2> QED BY <2>2, <2>4, <2>5, <2>7
<1>10. CASE UnlockPool(n)
  <2>1. [lvm EXCEPT !.up = FALSE] \in Lvm /\ [lvm EXCEPT !.up = FALSE].lvs = lvm.lvs
    BY <1>0 DEF Lvm
  <2>2. lvm'.lvs = lvm.lvs
    BY <1>10, <2>1, SettledFacts DEF UnlockPool
  <2>3. pc'[n] # "record"
    BY <1>2, <1>10 DEF UnlockPool
  <2> QED BY <1>1, <2>2, <2>3
<1> QED BY <1>4, <1>5, <1>6, <1>7, <1>8, <1>9, <1>10 DEF NodeAct

\* what they write,
Reports(n) ==
    /\ n \in fresh /\ SameLists(local[n], pool)
    /\ pool'.spec = local[n].spec /\ pool'.phase = local[n].phase /\ pool'.refs = local[n].refs
    /\ \/ \A l \in LVs : pool'.status[l] = "none" <=> local[n].status[l] = "none"
       \/ /\ pc[n] = "record"
          /\ \A l \in LVs : pool'.status[l] = "none" <=>
                local[n].status[l] = "none" /\ l # IF MustSnapshot(local[n]) THEN Snap ELSE Vol
       \/ /\ pc[n] = "deleted"
          /\ \A l \in LVs : pool'.status[l] = "none" <=>
                local[n].status[l] = "none" \/ local[n].spec[l] = "Removed"

LEMMA NodeReports ==
    ASSUME TypeOK, CopyInv, NEW n \in Nodes, NodeAct(n)
    PROVE  pool' = pool \/ Reports(n)
<1>0. /\ n \in Procs /\ Vol \in LVs /\ Snap \in LVs /\ LVs = {Vol, Snap} /\ local[n] \in Pool
      /\ local[n].status \in [LVs -> {"none", "Inactive", "Active"}]
  BY ProcsFacts, PoolFields DEF TypeOK, LVs
<1>1. n \in fresh => SameLists(local[n], pool)
  <2>1. n \in fresh => Same(local[n], pool) \/ Lowered(local[n], pool)
    BY DEF CopyInv, FreshOK, FreshOf
  <2> QED BY <1>0, <2>1 DEF Same, Lowered, SameLists
<1>2. ASSUME NEW w, NEW p, Write(n, w, n \in fresh, p), pool' # pool,
             w.spec = local[n].spec, w.phase = local[n].phase, w.refs = local[n].refs,
             \A l \in LVs : w.status[l] = "none" <=> local[n].status[l] = "none"
      PROVE  Reports(n)
  BY <1>1, <1>2 DEF Write, Reports
<1>3. CASE ActivatePool(n) \/ DeactivatePool(n) \/ CreateThinLv(n) \/ DeleteThinLvs(n) \/ UnlockPool(n)
  BY <1>3 DEF ActivatePool, DeactivatePool, CreateThinLv, DeleteThinLvs, UnlockPool
<1>4. CASE RecordActive(n)
  <2> DEFINE w == [local[n] EXCEPT !.active = TRUE, !.statusNode = n]
  <2>1. pool' = pool \/ Write(n, w, n \in fresh, AfterPool(n, w, lvm))
    BY <1>4 DEF RecordActive
  <2>2. w.spec = local[n].spec /\ w.phase = local[n].phase /\ w.refs = local[n].refs /\ w.status = local[n].status
    BY <1>0 DEF Pool
  <2> HIDE DEF w
  <2> QED BY <1>2, <2>1, <2>2
<1>5. CASE RecordInactive(n)
  <2> DEFINE w == [local[n] EXCEPT !.active = FALSE, !.statusNode = None]
  <2>1. pool' = pool \/ Write(n, w, n \in fresh, AfterPool(n, w, lvm))
    BY <1>5 DEF RecordInactive
  <2>2. w.spec = local[n].spec /\ w.phase = local[n].phase /\ w.refs = local[n].refs /\ w.status = local[n].status
    BY <1>0 DEF Pool
  <2> HIDE DEF w
  <2> QED BY <1>2, <2>1, <2>2
<1>6. CASE RecordThinLv(n)
  <2> DEFINE v == local[n]
             l == IF MustSnapshot(v) THEN Snap ELSE Vol
             w == [v EXCEPT !.status[l] = IF @ = "none" THEN "Inactive" ELSE @,
                            !.have = IF l = Vol THEN lvm.size ELSE @]
  <2>1. pc[n] = "record" /\ Write(n, w, n \in fresh, ToCreate(n, w, lvm))
    BY <1>6 DEF RecordThinLv
  <2>2. w.spec = local[n].spec /\ w.phase = local[n].phase /\ w.refs = local[n].refs
        /\ w.status = [v.status EXCEPT ![l] = IF @ = "none" THEN "Inactive" ELSE @]
    BY <1>0 DEF Pool
  <2>3. \A k \in LVs : w.status[k] = "none" <=> v.status[k] = "none" /\ k # l
    BY <1>0, <2>2
  <2>4. l = IF MustSnapshot(v) THEN Snap ELSE Vol
    OBVIOUS
  <2> HIDE DEF w, l
  <2> QED BY <1>1, <2>1, <2>2, <2>3, <2>4 DEF Write, Reports
<1>7. CASE ActivateThinLvs(n)
  <2> DEFINE w(l) == [local[n] EXCEPT !.status[l] = IF local[n].spec[l] = "Active" THEN "Active" ELSE "Inactive"]
  <2>1. PICK l \in Listed(local[n]) : pool' = pool \/ Write(n, w(l), n \in fresh, ToActivate(n, w(l), lvm))
    BY <1>7 DEF ActivateThinLvs
  <2>2. /\ w(l).spec = local[n].spec /\ w(l).phase = local[n].phase /\ w(l).refs = local[n].refs
        /\ \A k \in LVs : w(l).status[k] = "none" <=> local[n].status[k] = "none"
    BY <1>0 DEF Pool, Listed
  <2> HIDE DEF w
  <2> QED BY <1>2, <2>1, <2>2
<1>8. CASE RecordDeleted(n)
  <2> DEFINE w == DropRemoved(local[n])
  <2>1. pc[n] = "deleted" /\ Write(n, w, n \in fresh, ToUnlock(n, w, lvm))
    BY <1>8 DEF RecordDeleted
  <2>2. /\ w.spec = local[n].spec /\ w.phase = local[n].phase /\ w.refs = local[n].refs
        /\ \A l \in LVs : w.status[l] = "none" <=> local[n].status[l] = "none" \/ local[n].spec[l] = "Removed"
    BY <1>0 DEF DropRemoved, Removed, Pool
  <2> HIDE DEF w
  <2> QED BY <1>1, <2>1, <2>2 DEF Write, Reports
<1> QED BY <1>3, <1>4, <1>5, <1>6, <1>7, <1>8 DEF NodeAct

\* and the copy they go on with.
GoesOn(n) ==
    \/ local'[n] = NoPool /\ pc'[n] = "idle"
    \/ local'[n] = pool' \/ Alike(local'[n], cache[n]) \/ Alike(local'[n], local[n])
NextStep(n) ==
    \/ pc'[n] \notin {"activate", "delete", "deleted"}
    \/ \E m : ToCreate(n, local'[n], m) = pc'[n]
    \/ pc[n] \in {"activate", "delete"} /\ SameLists(local'[n], local[n])

LEMMA NodeGoesOn ==
    ASSUME TypeOK, NEW n \in Nodes, NodeAct(n)
    PROVE  GoesOn(n) /\ NextStep(n)
<1>0. /\ n \in Procs /\ n \in Caches /\ Vol \in LVs /\ Snap \in LVs /\ LVs = {Vol, Snap}
      /\ local[n] \in Pool /\ cache[n] \in Pool /\ local \in [Procs -> Pool] /\ pc \in [Procs -> Pcs]
      /\ local[n].status \in [LVs -> {"none", "Inactive", "Active"}]
      /\ cache[n].status \in [LVs -> {"none", "Inactive", "Active"}]
  BY ProcsFacts, PoolFields DEF TypeOK, LVs, Pcs
<1>1. ASSUME Return(n) \/ Fail(n) PROVE GoesOn(n) /\ NextStep(n)
  BY <1>0, <1>1 DEF Return, Fail, Ends, GoesOn, NextStep
<1>2. ASSUME NEW v, NEW p, Continue(n, v, n \in fresh, p) \/ Continue(n, v, v = pool, p)
      PROVE  (GoesOn(n) /\ NextStep(n)) \/ (local'[n] = v /\ pc'[n] = p)
  BY <1>0, <1>1, <1>2 DEF Continue
<1>3. ASSUME NEW v, NEW p, Write(n, v, n \in fresh, p)
      PROVE  (GoesOn(n) /\ NextStep(n)) \/ (local'[n] = v /\ pool' = v /\ pc'[n] = p)
  BY <1>0, <1>1, <1>3 DEF Write, GoesOn, NextStep
<1>4. \A v, m : \/ AfterPool(n, v, m) \notin {"activate", "delete", "deleted"}
                \/ AfterPool(n, v, m) = ToCreate(n, v, m)
  BY DEF AfterPool
<1>5. \A v : Alike(v, v)
  BY DEF Alike, SameLists
<1>6. ASSUME NEW v, NEW m, local'[n] = v, pc'[n] = AfterPool(n, v, m) PROVE NextStep(n)
  BY <1>4, <1>6 DEF NextStep
<1>7. CASE ActivatePool(n)
  BY <1>1, <1>2, <1>5, <1>7 DEF ActivatePool, GoesOn, NextStep
<1>8. CASE RecordActive(n)
  <2> DEFINE w == [local[n] EXCEPT !.active = TRUE, !.statusNode = n]
  <2>1. Write(n, w, n \in fresh, AfterPool(n, w, lvm))
        \/ (w = local[n] /\ Continue(n, w, n \in fresh, AfterPool(n, w, lvm)))
    BY <1>8 DEF RecordActive
  <2> HIDE DEF w
  <2> QED BY <1>2, <1>3, <1>5, <1>6, <2>1 DEF GoesOn
<1>9. CASE DeactivatePool(n)
  <2> DEFINE v == cache[n]
             w == [v EXCEPT !.status = [l \in LVs |-> IF l \in Listed(v) THEN "Inactive" ELSE "none"]]
  <2>1. \/ Fail(n) \/ Continue(n, v, v = pool, AfterPool(n, v, lvm)) \/ Continue(n, w, v = pool, "down")
    BY <1>9 DEF DeactivatePool
  <2>2. Alike(w, v)
    BY <1>0 DEF Pool, Listed, Alike, SameLists
  <2> HIDE DEF w
  <2>3. CASE Continue(n, w, v = pool, "down")
    <3>1. local'[n] = w /\ pc'[n] = "down"
      BY <1>0, <2>3 DEF Continue
    <3> QED BY <2>2, <3>1 DEF GoesOn, NextStep
  <2> QED BY <1>1, <1>2, <1>5, <1>6, <2>1, <2>3 DEF GoesOn
<1>10. CASE RecordInactive(n)
  <2> DEFINE w == [local[n] EXCEPT !.active = FALSE, !.statusNode = None]
  <2>1. Write(n, w, n \in fresh, AfterPool(n, w, lvm))
        \/ (w = local[n] /\ Continue(n, w, n \in fresh, AfterPool(n, w, lvm)))
    BY <1>10 DEF RecordInactive
  <2> HIDE DEF w
  <2> QED BY <1>2, <1>3, <1>5, <1>6, <2>1 DEF GoesOn
<1>11. CASE CreateThinLv(n)
  <2>1. Fail(n) \/ Continue(n, local[n], n \in fresh, "record")
    BY <1>11 DEF CreateThinLv
  <2> QED BY <1>1, <1>2, <1>5, <2>1 DEF GoesOn, NextStep
<1>12. CASE RecordThinLv(n)
  <2> DEFINE v == local[n]
             l == IF MustSnapshot(v) THEN Snap ELSE Vol
             w == [v EXCEPT !.status[l] = IF @ = "none" THEN "Inactive" ELSE @,
                            !.have = IF l = Vol THEN lvm.size ELSE @]
  <2>1. Write(n, w, n \in fresh, ToCreate(n, w, lvm))
    BY <1>12 DEF RecordThinLv
  <2> HIDE DEF w
  <2>2. local'[n] = w /\ pool' = w /\ pc'[n] = ToCreate(n, w, lvm) => GoesOn(n) /\ NextStep(n)
    BY DEF GoesOn, NextStep
  <2> QED BY <1>3, <2>1, <2>2
<1>13. CASE ActivateThinLvs(n)
  <2> DEFINE w(l) == [local[n] EXCEPT !.status[l] = IF local[n].spec[l] = "Active" THEN "Active" ELSE "Inactive"]
  <2>1. pc[n] = "activate"
    BY <1>13 DEF ActivateThinLvs
  <2>2. PICK l \in Listed(local[n]) :
          \/ Fail(n) \/ Continue(n, local[n], n \in fresh, ToActivate(n, local[n], lvm'))
          \/ Write(n, w(l), n \in fresh, ToActivate(n, w(l), lvm))
    BY <1>13 DEF ActivateThinLvs
  <2>3. SameLists(w(l), local[n])
    BY <1>0 DEF Pool, Listed, SameLists
  <2> HIDE DEF w
  <2> QED BY <1>1, <1>2, <1>3, <1>5, <2>1, <2>2, <2>3 DEF GoesOn, NextStep, Alike
<1>14. CASE DeleteThinLvs(n)
  <2>1. pc[n] = "delete" /\ (Fail(n) \/ Continue(n, local[n], n \in fresh, "deleted"))
    BY <1>14 DEF DeleteThinLvs
  <2> QED BY <1>1, <1>2, <1>5, <2>1 DEF GoesOn, NextStep, Alike
<1>15. CASE RecordDeleted(n)
  <2>1. Write(n, DropRemoved(local[n]), n \in fresh, ToUnlock(n, DropRemoved(local[n]), lvm))
    BY <1>15 DEF RecordDeleted
  <2>2. ToUnlock(n, DropRemoved(local[n]), lvm) \notin {"activate", "delete", "deleted"}
    BY DEF ToUnlock
  <2> QED BY <1>3, <2>1, <2>2 DEF GoesOn, NextStep
<1>16. CASE UnlockPool(n)
  BY <1>1, <1>16 DEF UnlockPool
<1> QED BY <1>7, <1>8, <1>9, <1>10, <1>11, <1>12, <1>13, <1>14, <1>15, <1>16 DEF NodeAct

\* A node that has nothing to make goes on to remove, if Snap is not wanted or there.
LEMMA ReadyToRemove ==
    ASSUME NEW n, NEW v, NEW m, Coherent(v), ToCreate(n, v, m) \in {"activate", "delete", "deleted"}
    PROVE  Ready(v)
<1>1. ~(v.phase = "live" /\ MustSnapshot(v))
  BY DEF ToCreate
<1> QED BY <1>1 DEF Ready, Coherent, Wants, MustSnapshot, MustCreate, MustExpand, Wanted

\* What the leader's copies show stays so unless an owner's call is made.
Rests(l) == (pc'[l] = pc[l] /\ local'[l] = local[l]) \/ (pc'[l] = "idle" /\ local'[l] = NoPool)

LEMMA LateStays ==
    ASSUME Onward, NEW v, Late(v)
    PROVE  Late(v)'
BY DEF Onward, Late, VolForgotten, Wants

LEMMA HandedKept ==
    ASSUME UnmadeOK, CopiesSound, HandedOK, Onward, Rests(Vol), Rests(Snap),
           cache'[PoolCtl] \in {cache[PoolCtl], pool}, Ended(pool) => Ended(pool'),
           HandedOut' => HandedOut, own'[Vol] = "gone" => own[Vol] = "gone" \/ pc[Vol] = "finish"
    PROVE  HandedOK'
<1> SUFFICES ASSUME HandedOut, HandedOut' PROVE HandedOK'
  BY DEF HandedOK
<1>1. /\ VolThere /\ pc[Vol] # "add" /\ Cached.phase # "none"
      /\ Late(Cached) /\ Late(local[Vol]) /\ Late(local[Snap])
      /\ pc[Vol] = "finish" \/ own[Vol] = "gone" => VolForgotten \/ Ended(pool)
  BY DEF HandedOK
<1>2. pool.phase # "none" /\ Vol # Snap
  BY ProcsFacts DEF UnmadeOK, HandedOut
<1>3. Late(pool)
  BY <1>1, ProcsFacts DEF Late, VolThere, CopiesSound, Sound, Coherent, Covers, VolForgotten
<1>4. Late(NoPool)
  BY DEF Late, NoPool
<1>5. VolThere' /\ pc'[Vol] # "add"
  BY <1>1 DEF Onward, Rests
<1>6. ASSUME NEW v, v \in {pool, Cached, local[Vol], local[Snap], NoPool} PROVE Late(v)'
  BY <1>1, <1>3, <1>4, <1>6, LateStays
<1>7. Cached.phase' # "none" /\ Late(Cached)'
  <2>1. PICK v : v = cache'[PoolCtl]
    OBVIOUS
  <2>2. v.phase # "none" /\ Late(v)'
    BY <1>1, <1>2, <1>6, <2>1 DEF Cached
  <2> QED BY <2>1, <2>2 DEF Cached, Late, Wants
<1>8. Late(local[Vol])' /\ Late(local[Snap])'
  <2>1. PICK v, w : v = local'[Vol] /\ w = local'[Snap]
    OBVIOUS
  <2>2. Late(v)' /\ Late(w)'
    BY <1>6, <2>1 DEF Rests
  <2> QED BY <2>1, <2>2 DEF Late, Wants
<1>9. pc'[Vol] = "finish" \/ own'[Vol] = "gone" => VolForgotten' \/ Ended(pool')
  BY <1>1 DEF Rests, Onward, VolForgotten
<1> QED BY <1>5, <1>7, <1>8, <1>9 DEF HandedOK, Ended

LEMMA EndKept ==
    ASSUME EndOK, Onward, Rests(Vol), Rests(Snap), pool'.spec = pool.spec,
           Ended(pool) => Ended(pool'),
           Ended(pool') => Ended(pool) \/ (Vol \in deleting /\ (HandedOut => VolOver)),
           pc'[PoolCtl] = "rmfinal" => Ended(pool'),
           HandedOut' => HandedOut, own'[Vol] = "gone" => own[Vol] = "gone" \/ (Vol \in deleting /\ pc'[Vol] = "idle"),
           own'[Snap] = "absent" => own[Snap] = "absent"
    PROVE  EndOK'
<1>1. Ended(pool') => Vol \in deleting' /\ (HandedOut' => VolOver')
  BY DEF EndOK, Onward
<1>2. pc'[Vol] \in {"remove", "forget", "forgot", "drop", "finish"} \/ own'[Vol] = "gone" => Vol \in deleting'
  BY DEF EndOK, Onward, Rests
<1>3. pc'[Vol] \in {"drop", "forgot"} => local'[Vol].spec[Vol] = "none" /\ local'[Vol].phase # "none"
  BY DEF EndOK, Rests
<1>4. pc'[Vol] = "add" => Vol \in local'[Vol].refs
  BY DEF EndOK, Rests
<1>5. own'[Snap] = "absent" => pool'.spec[Snap] = "none" /\ local'[Snap] = NoPool /\ pc'[Snap] = "idle"
  BY DEF EndOK, Rests
<1>6. pc'[Snap] = "activate" => Wants(pool')
  BY DEF EndOK, Rests, Wants
<1>7. own'[Vol] = "gone" => pc'[Vol] = "idle"
  BY DEF EndOK, Rests
<1> QED BY <1>1, <1>2, <1>3, <1>4, <1>5, <1>6, <1>7 DEF EndOK, Ended, Wants

\* The node reconcilers keep the invariant.
LEMMA NodeOrigin ==
    ASSUME TypeOK, CoverInv, CopyInv, UnmadeOK, OriginInv, NEW n \in Nodes, NodeAct(n)
    PROVE  OriginInv'
<1>0. /\ n \in Procs /\ n \in Caches /\ Vol \in LVs /\ Snap \in LVs /\ LVs = {Vol, Snap} /\ Vol # Snap
      /\ Vol \in Procs /\ Snap \in Procs /\ PoolCtl \in Procs /\ n \notin {Vol, Snap, PoolCtl}
      /\ Nodes \subseteq Procs
  BY ProcsFacts DEF LVs
<1>1. /\ UNCHANGED <<own, deleting, label, cache>>
      /\ \A q \in Procs \ {n} : pc'[q] = pc[q] /\ local'[q] = local[q]
      /\ pool'.spec = pool.spec /\ pool'.phase = pool.phase
  BY NodeDoes
<1>2. /\ pc'[Vol] = pc[Vol] /\ local'[Vol] = local[Vol] /\ pc'[Snap] = pc[Snap] /\ local'[Snap] = local[Snap]
      /\ pc'[PoolCtl] = pc[PoolCtl]
  BY <1>0, <1>1
<1>3. /\ VolOver' = VolOver /\ SnapOver' = SnapOver /\ HandedOut' = HandedOut
      /\ Wants(pool') = Wants(pool) /\ Ended(pool') = Ended(pool)
  BY <1>1, <1>2 DEF VolOver, SnapOver, Retired, HandedOut, Wants, Ended
<1>4. Sound(local[n]) /\ Sound(pool) /\ Sound(cache[n]) /\ NodeReady(n)
  BY <1>0 DEF OriginInv, CopiesSound, NodesReady
<1>5. /\ lvm.lvs[Vol] # "none" => lvm'.lvs[Vol] # "none" \/ VolOver
      /\ lvm.lvs[Snap] # "none" => lvm'.lvs[Snap] # "none" \/ SnapOver
  BY <1>0, <1>4, NodeDevices DEF Sound, Recalls
<1>6. pool.status[Vol] # "none" => pool'.status[Vol] # "none" \/ VolOver
  <2>1. CASE Reports(n)
    BY <1>0, <1>4, <2>1 DEF Reports, SameLists, Sound, Recalls
  <2> QED BY <2>1, NodeReports
<1>7. Onward
  BY <1>1, <1>3, <1>5, <1>6 DEF Onward, VolMade, VolThere, SnapMade
<1>8. Sound(pool)'
  <2>1. PICK v : v = pool'
    OBVIOUS
  <2>2. Sound(v)'
    <3>1. CASE v = pool
      BY <1>4, <1>7, <3>1, SoundStays
    <3>2. CASE Reports(n)
      <4>1. PICK w : w = local[n]
        OBVIOUS
      <4>2. Sound(w) /\ Sound(w)'
        BY <1>4, <1>7, <4>1, SoundStays
      <4>3. /\ v.spec = w.spec /\ v.phase = w.phase /\ v.refs = w.refs
            /\ \/ \A l \in LVs : v.status[l] = "none" <=> w.status[l] = "none"
               \/ /\ pc[n] = "record"
                  /\ \A l \in LVs : v.status[l] = "none" <=>
                        w.status[l] = "none" /\ l # IF MustSnapshot(w) THEN Snap ELSE Vol
               \/ /\ pc[n] = "deleted"
                  /\ \A l \in LVs : v.status[l] = "none" <=> w.status[l] = "none" \/ w.spec[l] = "Removed"
        BY <2>1, <3>2, <4>1 DEF Reports
      <4>4. /\ pc[n] = "record" => ToMake(w) /\ (IF MustSnapshot(w) THEN SnapMade ELSE VolMade)
            /\ pc[n] = "deleted" => Ready(w)
        BY <1>0, <1>4, <4>1 DEF CoverInv, AllKnow, Knows, NodeReady
      <4>5. ToMake(w) => w.spec[IF MustSnapshot(w) THEN Snap ELSE Vol] \in {"Inactive", "Active"}
        BY DEF ToMake, MustCreate, MustExpand, MustSnapshot, Wanted
      <4>6. CASE \A l \in LVs : v.status[l] = "none" <=> w.status[l] = "none"
        <5>1. Alike(v, w)
          BY <4>3, <4>6 DEF Alike, SameLists
        <5>2. Sound(v)
          BY <4>2, <5>1, AlikeSound
        <5> QED BY <1>7, <5>2, SoundStays
      <4>7. CASE /\ pc[n] = "record"
                 /\ \A l \in LVs : v.status[l] = "none" <=>
                       w.status[l] = "none" /\ l # IF MustSnapshot(w) THEN Snap ELSE Vol
        <5>1. Coherent(v)
          BY <1>0, <4>2, <4>3, <4>4, <4>5, <4>7 DEF Sound, Coherent, Covers, Wants
        <5>2. v.status[Vol] # "none" => VolThere'
          <6>1. CASE w.status[Vol] # "none"
            BY <4>2, <6>1 DEF Sound, Recalls
          <6>2. CASE ~MustSnapshot(w)
            <7>1. VolMade' /\ pool'.status[Vol] # "none"
              BY <1>0, <1>7, <2>1, <4>4, <4>7, <6>2 DEF Onward
            <7> QED BY <7>1 DEF VolMade, VolThere
          <6> QED BY <1>0, <4>7, <6>1, <6>2
        <5>3. v.status[Snap] # "none" => SnapMade'
          <6>1. CASE w.status[Snap] # "none"
            BY <4>2, <6>1 DEF Sound, Recalls
          <6>2. CASE MustSnapshot(w)
            BY <1>7, <4>4, <4>7, <6>2 DEF Onward
          <6> QED BY <1>0, <4>7, <6>1, <6>2
        <5>4. Recalls(v)'
          BY <4>2, <4>3, <5>2, <5>3 DEF Sound, Recalls, Wants
        <5>5. Refers(v)'
          BY <4>2, <4>3 DEF Sound, Refers
        <5> QED BY <5>1, <5>4, <5>5 DEF Sound, Coherent, Covers, Wants
      <4>8. CASE /\ pc[n] = "deleted"
                 /\ \A l \in LVs : v.status[l] = "none" <=> w.status[l] = "none" \/ w.spec[l] = "Removed"
        <5>1. Coherent(v)
          BY <1>0, <4>2, <4>3, <4>4, <4>8 DEF Sound, Coherent, Covers, Wants, Ready
        <5>2. Recalls(v)'
          BY <1>0, <4>2, <4>3, <4>8 DEF Sound, Recalls, Wants
        <5>3. Refers(v)'
          BY <4>2, <4>3 DEF Sound, Refers
        <5> QED BY <5>1, <5>2, <5>3 DEF Sound, Coherent, Covers, Wants
      <4> QED BY <4>3, <4>6, <4>7, <4>8
    <3> QED BY <2>1, <3>1, <3>2, NodeReports
  <2> QED BY <2>1, <2>2 DEF Sound, Coherent, Covers, Recalls, Refers, Wants
<1>9. CopiesFrom
  <2> SUFFICES ASSUME NEW q \in Procs PROVE local'[q] = pool' \/ OldCopies(local'[q])
    BY <1>1 DEF CopiesFrom
  <2>1. CASE q = n
    BY <1>4, <2>1, NodeGoesOn DEF GoesOn, OldCopies
  <2>2. CASE q # n
    <3>1. local'[q] = local[q] /\ Sound(local[q])
      BY <1>1, <2>2 DEF OriginInv, CopiesSound
    <3> QED BY <3>1 DEF OldCopies, Alike, SameLists
  <2> QED BY <2>1, <2>2
<1>10. CopiesSound'
  BY <1>7, <1>8, <1>9, CopiesSoundKept DEF OriginInv
<1>11. NodesReady'
  <2> SUFFICES ASSUME NEW q \in Nodes
               PROVE  /\ pc'[q] \in {"activate", "delete", "deleted"} => Ready(local'[q])
                      /\ pc'[q] = "record" => IF MustSnapshot(local'[q]) THEN SnapMade' ELSE VolMade'
    BY DEF NodesReady, NodeReady, Ready, Wants, MustSnapshot, MustCreate, MustExpand, Wanted
  <2>1. CASE q # n
    BY <1>0, <1>1, <1>7, <2>1 DEF OriginInv, NodesReady, NodeReady, Onward
  <2>2. CASE q = n
    <3>1. ASSUME pc'[n] = "record" PROVE IF MustSnapshot(local'[n]) THEN SnapMade' ELSE VolMade'
      BY <3>1, NodeDevices DEF SnapMade, VolMade
    <3>2. ASSUME pc'[n] \in {"activate", "delete", "deleted"} PROVE Ready(local'[n])
      <4>1. PICK v : v = local'[n]
        OBVIOUS
      <4>2. Coherent(v)
        BY <1>0, <1>10, <4>1 DEF CopiesSound, Sound, Coherent, Covers, Wants
      <4>3. CASE \E m : ToCreate(n, v, m) = pc'[n]
        BY <3>2, <4>1, <4>2, <4>3, ReadyToRemove
      <4>4. CASE pc[n] \in {"activate", "delete"} /\ SameLists(v, local[n])
        BY <1>0, <1>4, <4>1, <4>4 DEF NodeReady, Ready, SameLists, Wants
      <4> QED BY <3>2, <4>1, <4>3, <4>4, NodeGoesOn DEF NextStep
    <3> QED BY <2>2, <3>1, <3>2
  <2> QED BY <2>1, <2>2
<1>12. HandedOK'
  BY <1>1, <1>2, <1>3, <1>7, HandedKept DEF OriginInv, Rests
<1>13. EndOK'
  BY <1>1, <1>2, <1>3, <1>7, EndKept DEF OriginInv, Rests, EndOK
<1>14. SnapshotSourceKept'
  <2> SUFFICES ASSUME Wants(pool), lvm'.lvs[Snap] = "none" PROVE lvm'.lvs[Vol] # "none"
    BY <1>3 DEF SnapshotSourceKept, Wants
  <2>1. ~SnapOver /\ lvm.lvs[Snap] = "none"
    BY <1>5 DEF SnapOver, Wants
  <2>2. lvm.lvs[Vol] # "none"
    BY <2>1 DEF OriginInv, SnapshotSourceKept, Wants
  <2>3. ASSUME pc[n] = "delete", local[n].spec[Vol] = "Removed" PROVE FALSE
    BY <1>4, <2>1, <2>3 DEF Sound, Recalls, NodeReady, Ready, SnapMade
  <2> QED BY <1>0, <2>2, <2>3, NodeDevices
<1> QED BY <1>10, <1>11, <1>12, <1>13, <1>14 DEF OriginInv

\* What an owner's copy shows at the step it goes on with, and what becomes of the object.
LEMMA OwnerShows ==
    ASSUME TypeOK, CopyInv, NEW l \in LVs, OwnerCall(l)
    PROVE  /\ \/ OwnerTo(l, local'[l], pc'[l])
              \/ /\ pc'[l] = "add" /\ local'[l] = NewPool /\ pool' = NewPool
                 /\ l = Vol /\ At(Vol, "create") /\ pool.phase = "none"
           /\ \/ pool' = pool \/ Request(l, pool') \/ OwnerDeletes(l)
              \/ pool' = NewPool /\ pool.phase = "none" /\ l = Vol /\ At(Vol, "create")
<1>1. OwnerTakes(l)
  BY OwnerDoes
<1>2. \A v : OwnerTo(l, v, "idle")
  BY DEF OwnerTo
<1>3. CASE OwnerReads(l)
  BY <1>2, <1>3 DEF OwnerReads, Reads, Stopped, Went
<1>4. CASE OwnerWrites(l)
  <2>1. PICK v, b, p : Writes(l, v, b, p) /\ (b => OwnerTo(l, v, p) /\ Request(l, v))
    BY <1>4 DEF OwnerWrites
  <2> QED BY <1>2, <2>1 DEF Writes, Stopped, Went
<1>5. CASE OwnerMakes(l)
  BY <1>2, <1>5 DEF OwnerMakes, Writes, Stopped, Went
<1>6. CASE OwnerDeletes(l)
  <2>1. \A v : OwnerTo(l, v, pc'[l])
    BY <1>6 DEF OwnerDeletes, OwnerTo
  <2> QED BY <1>6, <2>1
<1> QED BY <1>1, <1>3, <1>4, <1>5, <1>6 DEF OwnerTakes

\* Calls that return or write.
LEMMA CallDoes ==
    ASSUME TypeOK, NEW c \in Procs, NEW old, NEW v, NEW b, NEW p
    PROVE  /\ Return(c) \/ Fail(c) => pc'[c] = "idle"
           /\ Continue(c, v, b, p) => pc'[c] = "idle" \/ (pc'[c] = p /\ local'[c] = v)
           /\ Write(c, v, b, p) =>
                 /\ pc'[c] = "idle" \/ (pc'[c] = p /\ local'[c] = v /\ pool' = v /\ b)
                 /\ pool' = pool \/ (pool' = v /\ b)
           /\ UpdateThinPoolLv(c, old, v, b, p) =>
                 /\ pc'[c] \in {"idle", p}
                 /\ pool' = pool \/ (pool' = Recalc(v) /\ b)
<1>1. Return(c) \/ Fail(c) => pc'[c] = "idle"
  BY DEF Return, Fail, Ends, TypeOK
<1>2. \A w : Continue(c, w, b, p) => pc'[c] = "idle" \/ (pc'[c] = p /\ local'[c] = w)
  BY <1>1 DEF Continue, TypeOK
<1>3. \A w : Write(c, w, b, p) =>
                 /\ pc'[c] = "idle" \/ (pc'[c] = p /\ local'[c] = w /\ pool' = w /\ b)
                 /\ pool' = pool \/ (pool' = w /\ b)
  BY <1>1 DEF Write, TypeOK
<1>4. UpdateThinPoolLv(c, old, v, b, p) =>
                 /\ pc'[c] \in {"idle", p}
                 /\ pool' = pool \/ (pool' = Recalc(v) /\ b)
  BY <1>2, <1>3 DEF UpdateThinPoolLv
<1> QED BY <1>1, <1>2, <1>3, <1>4

\* What the reconciler of Vol finds on its way.
LEMMA VolShows ==
    ASSUME TypeOK, CopyInv, UnmadeOK, OwnerCall(Vol)
    PROVE  /\ pc'[Vol] = "ready" => Exists(Cached) /\ Cached.status[Vol] # "none" /\ At(Vol, "create")
           /\ pc'[Vol] = "drop" => Exists(Cached) /\ local'[Vol] = Cached
           /\ pc'[Vol] = "forgot" => local'[Vol].phase # "none"
           /\ pc'[Vol] = "finish" => ~Exists(Cached) \/ pc[Vol] \in {"drop", "forgot"}
<1>0. /\ Vol \in LVs /\ Vol \in Procs /\ Vol # Snap /\ leader \in Nodes /\ local[Vol] \in Pool /\ Cached \in Pool
      /\ pc[Vol] # "retry"
  BY ProcsFacts DEF TypeOK, Cached, NodePc, PoolPc, OwnerPc
<1>2. CASE CreateBlob
  <2>1. CASE pool.phase # "none" /\ Exists(Cached)
    <3>1. pc'[Vol] \in {"idle", IF VolExists(Cached) THEN "ready" ELSE "idle"}
      BY <1>0, <1>2, <2>1, CallDoes DEF CreateBlob
    <3> QED BY <1>2, <2>1, <3>1 DEF CreateBlob, VolExists
  <2>2. CASE ~(pool.phase # "none" /\ Exists(Cached))
    <3>1. pc'[Vol] \in {"idle", "add"}
      BY <1>0, <1>2, <2>2, CallDoes DEF CreateBlob
    <3> QED BY <3>1
  <2> QED BY <2>1, <2>2
<1>3. CASE CreateBlobInNewPool
  <2>1. pc'[Vol] = "idle"
    BY <1>0, <1>3, CallDoes DEF CreateBlobInNewPool
  <2> QED BY <2>1
<1>4. CASE DeactivateBlob(Vol)
  <2>1. pc'[Vol] \in {"idle", "remove", "retry"}
    <3>1. pc'[Vol] \in {"idle", "remove"} \/ pc'[Vol] \in {"idle", Pending(Vol)}
      BY <1>0, <1>4, CallDoes DEF DeactivateBlob
    <3> QED BY <3>1 DEF Pending
  <2> QED BY <2>1
<1>5. CASE RemoveBlob(Vol)
  <2>1. CASE ~Exists(Cached)
    <3>1. pc'[Vol] \in {"idle", "finish"}
      BY <1>0, <1>5, <2>1, CallDoes DEF RemoveBlob
    <3> QED BY <2>1, <3>1
  <2>2. CASE Exists(Cached) /\ Cached.spec[Vol] = "none"
    <3>1. pc'[Vol] = "idle" \/ (pc'[Vol] = "drop" /\ local'[Vol] = Cached)
      BY <1>0, <1>5, <2>2, CallDoes DEF RemoveBlob
    <3> QED BY <2>2, <3>1
  <2>3. CASE Exists(Cached) /\ Cached.spec[Vol] # "none"
    <3>1. pc'[Vol] \in {"idle", AfterRequest(Vol, Cached)}
      BY <1>0, <1>5, <2>3, CallDoes DEF RemoveBlob
    <3>2. pc'[Vol] \in {"idle", "forget", "retry"}
      BY <3>1 DEF AfterRequest, Pending
    <3> QED BY <3>2
  <2> QED BY <2>1, <2>2, <2>3
<1>6. CASE ForgetRemovedThinLv(Vol)
  <2> DEFINE v == [local[Vol] EXCEPT !.spec[Vol] = "none"]
  <2>1. pc[Vol] = "forget" /\ Write(Vol, Recalc(v), Vol \in fresh, "forgot")
    BY <1>6 DEF ForgetRemovedThinLv
  <2>2. v \in Pool /\ v.phase = local[Vol].phase
    BY <1>0 DEF Pool
  <2>3. Recalc(v).phase = local[Vol].phase
    BY <1>0, <2>2, RecalcFacts
  <2> HIDE DEF v
  <2>4. pc'[Vol] = "idle" \/ (pc'[Vol] = "forgot" /\ local'[Vol].phase = local[Vol].phase /\ Vol \in fresh)
    <3>1. Writes(Vol, Recalc(v), Vol \in fresh, "forgot")
      BY <1>0, <2>1, WriteWrites
    <3> QED BY <2>3, <3>1 DEF Writes, Stopped, Went
  <2>5. Vol \in fresh => local[Vol].phase = pool.phase
    BY <1>0, ProcsFacts DEF CopyInv, FreshOK, FreshOf, Same
  <2>6. pool.phase # "none"
    BY <2>1 DEF UnmadeOK
  <2> QED BY <2>4, <2>5, <2>6
<1>7. CASE DropReference(Vol)
  <2>1. pc[Vol] \in {"drop", "forgot"}
    BY <1>7 DEF DropReference
  <2>2. pc'[Vol] \in {"idle", "finish"}
    <3>1. CASE pc' = [pc EXCEPT ![Vol] = "finish"] \/ pc' = [pc EXCEPT ![Vol] = "idle"]
      BY <1>0, <3>1 DEF TypeOK
    <3>2. CASE \/ Continue(Vol, local[Vol], FALSE, "finish")
               \/ \E v, b : Write(Vol, v, b, "finish") \/ UpdateThinPoolLv(Vol, local[Vol], v, b, "finish")
      BY <1>0, <3>2, CallDoes
    <3> QED BY <1>7, <3>1, <3>2 DEF DropReference
  <2> QED BY <2>1, <2>2
<1> QED BY <1>0, <1>2, <1>3, <1>4, <1>5, <1>6, <1>7 DEF OwnerCall

\* An owner's call starts from a copy that is the object, if its Update succeeds, and
\* lets go of no reference to Vol but Vol's own, when Vol is not in Spec.
Refines(l, old) ==
    /\ old.phase = pool.phase /\ old.spec = pool.spec
    /\ l = Vol /\ pc[Vol] = "add" => old = local[Vol]
    /\ Vol \in old.refs /\ Vol \notin pool'.refs =>
          l = Vol /\ pc[Vol] \in {"drop", "forgot"} /\ old = local[Vol] /\ pool'.spec = old.spec

LEMMA OwnerRefs ==
    ASSUME TypeOK, CopyInv, NEW l \in LVs, OwnerCall(l), Request(l, pool'), pool' # pool
    PROVE  \E old \in {Cached, local[l]} : Refines(l, old)
<1>0. /\ l \in Procs /\ Vol \in LVs /\ Snap \in LVs /\ Vol # Snap /\ leader \in Nodes
      /\ local[l] \in Pool /\ Cached \in Pool /\ l \notin Nodes
  BY ProcsFacts DEF TypeOK, Cached
<1>a. \A v \in Pool : AddVol(v) \in Pool /\ AddVol(v).refs = v.refs
  <2> SUFFICES ASSUME NEW v \in Pool PROVE AddVol(v) \in Pool /\ AddVol(v).refs = v.refs
    OBVIOUS
  <2>1. AddVol(v) \in Pool
    BY <1>0, RequestTypes DEF TypeOK
  <2>2. AddVol(v).refs = v.refs
    BY DEF AddVol, Pool
  <2> QED BY <2>1, <2>2
<1>1. l \in fresh => local[l].spec = pool.spec /\ local[l].phase = pool.phase
  BY <1>0 DEF CopyInv, FreshOK, FreshOf, Same
<1>2. ASSUME NEW c, NEW old, NEW v \in Pool, NEW b, NEW p, c = l, UpdateThinPoolLv(c, old, v, b, p)
      PROVE  b /\ pool'.refs = v.refs /\ pool'.spec = v.spec
  BY <1>0, <1>2, CallDoes, RecalcFacts
<1>b. \A w, b, p : Write(l, w, b, p) => pool' = w /\ b
  BY <1>0, CallDoes
<1>3. CASE l = Vol /\ CreateBlob
  <2>1. CASE Write(Vol, NewPool, TRUE, "add") /\ pool.phase = "none"
    <3>1. pool' = NewPool
      BY <1>3, <1>b, <2>1
    <3> QED BY <2>1, <3>1 DEF Request, NewPool
  <2>2. CASE UpdateThinPoolLv(Vol, Cached, AddVol(Cached), CachedIsFresh, IF VolExists(Cached) THEN "ready" ELSE "idle")
    <3>1. AddVol(Cached) \in Pool /\ AddVol(Cached).refs = Cached.refs
      BY <1>0, <1>a
    <3>2. CachedIsFresh /\ pool'.refs = AddVol(Cached).refs
      BY <1>2, <1>3, <2>2, <3>1
    <3>3. pc[Vol] # "add"
      BY <1>3, AtFacts DEF CreateBlob, CopyInv
    <3> QED BY <1>3, <3>1, <3>2, <3>3 DEF CachedIsFresh, Refines
  <2> QED BY <1>3, <2>1, <2>2 DEF CreateBlob
<1>4. CASE l = Vol /\ CreateBlobInNewPool
  <2>1. AddVol(local[Vol]) \in Pool /\ AddVol(local[Vol]).refs = local[Vol].refs
    BY <1>0, <1>4, <1>a
  <2>2. Vol \in fresh /\ pool'.refs = AddVol(local[Vol]).refs
    <3>1. Write(l, Recalc(AddVol(local[Vol])), Vol \in fresh, "idle")
      BY <1>4 DEF CreateBlobInNewPool, UpdateThinPoolLv
    <3>2. Writes(l, Recalc(AddVol(local[Vol])), Vol \in fresh, "idle")
      BY <1>0, <3>1, WriteWrites
    <3>3. Recalc(AddVol(local[Vol])).refs = AddVol(local[Vol]).refs
      BY <1>0, <2>1, RecalcFacts
    <3> QED BY <3>2, <3>3 DEF Writes
  <2> QED BY <1>1, <1>4, <2>1, <2>2 DEF Refines
<1>5. CASE l = Snap /\ SnapshotBlob
  <2> DEFINE v == [Cached EXCEPT !.refs = @ \cup {Snap},
                            !.spec[Snap] = IF @ = "none" THEN "Inactive" ELSE @]
  <2>1. v \in Pool /\ v.refs = Cached.refs \cup {Snap}
    BY <1>0 DEF Pool
  <2>2. \E p : UpdateThinPoolLv(l, Cached, v, CachedIsFresh, p)
    BY <1>5 DEF SnapshotBlob
  <2> HIDE DEF v
  <2>3. CachedIsFresh /\ pool'.refs = v.refs
    BY <1>2, <2>1, <2>2
  <2> QED BY <1>0, <1>5, <2>1, <2>3 DEF CachedIsFresh, Refines
<1>6. CASE l = Snap /\ ActivateBlobForCloneSource
  <2> DEFINE v == [Cached EXCEPT !.refs = @ \cup {Snap}, !.spec[Snap] = "Active"]
  <2>1. v \in Pool /\ v.refs = Cached.refs \cup {Snap}
    BY <1>0 DEF Pool
  <2>2. \E p : UpdateThinPoolLv(l, Cached, v, CachedIsFresh, p)
    BY <1>6 DEF ActivateBlobForCloneSource
  <2> HIDE DEF v
  <2>3. CachedIsFresh /\ pool'.refs = v.refs
    BY <1>2, <2>1, <2>2
  <2> QED BY <1>0, <1>6, <2>1, <2>3 DEF CachedIsFresh, Refines
<1>7. CASE DeactivateBlob(l)
  <2> DEFINE v == [Cached EXCEPT !.spec[l] = IF @ = "Active" THEN "Inactive" ELSE @]
  <2>1. v \in Pool /\ v.refs = Cached.refs
    BY <1>0 DEF Pool
  <2>2. \E p : UpdateThinPoolLv(l, Cached, v, CachedIsFresh, p)
    BY <1>7 DEF DeactivateBlob
  <2>3. At(l, "off")
    BY <1>7 DEF DeactivateBlob
  <2> HIDE DEF v
  <2>4. CachedIsFresh /\ pool'.refs = v.refs
    BY <1>2, <2>1, <2>2
  <2>5. l = Vol => pc[Vol] # "add"
    BY <2>3, AtFacts DEF CopyInv
  <2> QED BY <2>1, <2>4, <2>5 DEF CachedIsFresh, Refines
<1>8. CASE RemoveBlob(l)
  <2> DEFINE v == [Cached EXCEPT !.spec[l] = "Removed"]
  <2>1. v \in Pool /\ v.refs = Cached.refs
    BY <1>0 DEF Pool
  <2>2. \E p : UpdateThinPoolLv(l, Cached, v, CachedIsFresh, p)
    BY <1>8 DEF RemoveBlob
  <2>3. At(l, "remove")
    BY <1>8 DEF RemoveBlob
  <2> HIDE DEF v
  <2>4. CachedIsFresh /\ pool'.refs = v.refs
    BY <1>2, <2>1, <2>2
  <2>5. l = Vol => pc[Vol] # "add"
    BY <2>3, AtFacts DEF CopyInv
  <2> QED BY <2>1, <2>4, <2>5 DEF CachedIsFresh, Refines
<1>9. CASE ForgetRemovedThinLv(l)
  <2> DEFINE v == [local[l] EXCEPT !.spec[l] = "none"]
  <2>1. v \in Pool /\ v.refs = local[l].refs
    BY <1>0 DEF Pool
  <2>2. pc[l] = "forget" /\ Write(l, Recalc(v), l \in fresh, "forgot")
    BY <1>9 DEF ForgetRemovedThinLv
  <2> HIDE DEF v
  <2>3. Recalc(v).refs = v.refs
    BY <1>0, <2>1, RecalcFacts
  <2>4. PICK w : w = Recalc(v)
    OBVIOUS
  <2>5. l \in fresh /\ pool'.refs = v.refs
    <3>1. Write(l, w, l \in fresh, "forgot")
      BY <2>2, <2>4
    <3>2. Writes(l, w, l \in fresh, "forgot")
      BY <1>0, <3>1, WriteWrites
    <3>3. pool' = w /\ l \in fresh
      BY <3>2 DEF Writes
    <3> QED BY <2>3, <2>4, <3>3
  <2> QED BY <1>1, <2>1, <2>2, <2>5 DEF Refines
<1>10. CASE DropReference(l)
  <2> DEFINE v == [local[l] EXCEPT !.refs = @ \ {l}]
  <2>1. v \in Pool /\ v.refs = local[l].refs \ {l} /\ v.spec = local[l].spec
    BY <1>0 DEF Pool
  <2>2. pc[l] \in {"drop", "forgot"}
    BY <1>10 DEF DropReference
  <2>3. CASE pool' = [pool EXCEPT !.phase = "deleting"] /\ Exists(pool)
    <3>1. pool'.phase = "deleting" /\ pool \in Pool
      BY <2>3 DEF TypeOK, Pool
    <3>2. pool.phase = "deleting"
      BY <3>1 DEF Request
    <3>3. pool' = pool
      BY <2>3, <3>1, <3>2 DEF Pool
    <3> QED BY <3>3
  <2>4. CASE Write(l, Recalc(v), l \in fresh, "finish") \/ UpdateThinPoolLv(l, local[l], v, l \in fresh, "finish")
    <3> HIDE DEF v
    <3>1. Recalc(v).refs = v.refs /\ Recalc(v).spec = v.spec
      BY <1>0, <2>1, RecalcFacts
    <3>2. CASE Write(l, Recalc(v), l \in fresh, "finish")
      <4>1. PICK w : w = Recalc(v)
        OBVIOUS
      <4>2. Write(l, w, l \in fresh, "finish")
        BY <3>2, <4>1
      <4>3. Writes(l, w, l \in fresh, "finish")
        BY <1>0, <4>2, WriteWrites
      <4>4. pool' = w /\ l \in fresh
        BY <4>3 DEF Writes
      <4> QED BY <1>0, <1>1, <2>1, <2>2, <3>1, <4>1, <4>4 DEF Refines, LVs
    <3>3. CASE UpdateThinPoolLv(l, local[l], v, l \in fresh, "finish")
      <4>1. l \in fresh /\ pool'.refs = v.refs /\ pool'.spec = v.spec
        BY <1>2, <2>1, <3>3
      <4> QED BY <1>0, <1>1, <2>1, <2>2, <4>1 DEF Refines, LVs
    <3> QED BY <2>4, <3>2, <3>3
  <2> QED BY <1>10, <2>3, <2>4 DEF DropReference
<1> QED BY <1>3, <1>4, <1>5, <1>6, <1>7, <1>8, <1>9, <1>10 DEF OwnerCall

\* What an owner's call does to Spec.
VolChange ==
    \/ pool.spec[Vol] = "none" /\ pool'.spec[Vol] = "Inactive" /\ (pc[Vol] = "add" \/ Vol \notin deleting)
    \/ pool.spec[Vol] # "none" /\ pool'.spec[Vol] = "Removed" /\ Vol \in deleting
    \/ pool'.spec[Vol] = "none" /\ Vol \in deleting
SnapChange ==
    \/ /\ pool.spec[Snap] = "none" /\ pool'.spec[Snap] = "Inactive" /\ SourceFound(pool)
       /\ ~Retired /\ own[Snap] # "absent"
    \/ pool'.spec[Snap] \in {"Active", "Inactive"} /\ Wants(pool) /\ ~SnapOver
    \/ pool'.spec[Snap] \in {"Removed", "none"} /\ Retired /\ pc'[Snap] # "activate"

LEMMA OwnerChanges ==
    ASSUME TypeOK, CopyInv, UnmadeOK, EndOK, NEW l \in LVs, OwnerCall(l)
    PROVE  /\ pool'.spec[Vol] = pool.spec[Vol] \/ (l = Vol /\ VolChange)
           /\ pool'.spec[Snap] = pool.spec[Snap] \/ (l = Snap /\ SnapChange)
           /\ pool'.status = pool.status /\ (pool.phase # "none" => pool'.phase # "none")
           /\ pool'.phase = pool.phase \/ (pool = NoPool /\ pool' = NewPool) \/ OwnerDeletes(l)
<1>0. /\ Vol \in LVs /\ Snap \in LVs /\ Vol # Snap /\ pool \in Pool
      /\ pool.spec \in [LVs -> {"none", "Inactive", "Active", "Removed"}]
  BY ProcsFacts, PoolFields DEF TypeOK
<1>1. CASE pool' = NewPool /\ pool.phase = "none"
  <2>1. pool = NoPool
    BY <1>1 DEF UnmadeOK
  <2>2. NewPool.spec = NoPool.spec /\ NewPool.status = NoPool.status
    BY DEF NewPool, NoPool
  <2> QED BY <1>1, <2>1, <2>2
<1>2. CASE OwnerDeletes(l)
  <2>1. pool'.spec = pool.spec /\ pool'.status = pool.status /\ pool'.phase = "deleting"
    BY <1>0, <1>2 DEF OwnerDeletes, Pool
  <2> QED BY <1>2, <2>1
<1>3. CASE Request(l, pool')
  <2>1. pool'.status = pool.status /\ pool'.phase = pool.phase
    BY <1>3 DEF Request
  <2>2. PICK s : Asks(l, s) /\ pool'.spec = [pool.spec EXCEPT ![l] = s]
    BY <1>3 DEF Request, AsksIn
  <2>3. \A k \in LVs : k # l => pool'.spec[k] = pool.spec[k]
    BY <1>0, <2>2
  <2>4. pool'.spec[l] = s
    BY <1>0, <2>2
  <2>5. CASE l = Vol
    <3>1. pool.spec[Vol] # "Active"
      BY DEF CopyInv, VolOff
    <3>2. /\ At(Vol, "create") => Vol \notin deleting
          /\ At(Vol, "remove") \/ pc[Vol] = "forget" => Vol \in deleting
      BY AtFacts DEF CopyInv, EndOK
    <3>3. s = pool.spec[Vol] \/ VolChange
      BY <1>0, <2>2, <2>4, <2>5, <3>1, <3>2 DEF Asks, VolChange
    <3> QED BY <1>0, <2>1, <2>3, <2>4, <2>5, <3>3
  <2>6. CASE l = Snap
    <3>1. At(Snap, "snapshot") => ~Retired /\ own[Snap] # "absent"
      BY AtFacts DEF CopyInv
    <3>2. At(Snap, "remove") \/ pc[Snap] = "forget" => Retired
      BY AtFacts DEF CopyInv, TargetOK, Retired
    <3>3. PICK v : OwnerTo(Snap, v, pc'[Snap]) \/ l = Vol
      BY <2>6, OwnerLeaves
    <3>4. Retired => pc'[Snap] # "activate"
      BY <1>0, <2>6, <3>1, <3>3 DEF OwnerTo
    <3>5. pool.spec[Snap] = "Active" \/ pc[Snap] = "activate" => Wants(pool) /\ ~SnapOver
      BY DEF EndOK, Wants, SnapOver
    <3>6. s = pool.spec[Snap] \/ SnapChange
      BY <1>0, <2>2, <2>4, <2>6, <3>1, <3>2, <3>4, <3>5 DEF Asks, SnapChange
    <3> QED BY <1>0, <2>1, <2>3, <2>4, <2>6, <3>6
  <2> QED BY <2>5, <2>6 DEF LVs
<1> QED BY <1>1, <1>2, <1>3, OwnerShows

\* And to the steps of the owners' reconcilers.
LEMMA OwnerGoesOn ==
    ASSUME TypeOK, CopyInv, UnmadeOK, EndOK, NEW l \in LVs, OwnerCall(l)
    PROVE  /\ l = Vol \/ (pc'[Vol] = pc[Vol] /\ local'[Vol] = local[Vol])
           /\ l = Snap \/ (pc'[Snap] = pc[Snap] /\ local'[Snap] = local[Snap])
           /\ pc'[PoolCtl] = pc[PoolCtl]
           /\ l = Vol /\ pc'[Vol] = "add" => Vol \notin deleting /\ pool = NoPool /\ local'[Vol] = NewPool
           /\ l = Vol /\ pc'[Vol] = "ready" =>
                 Vol \notin deleting /\ own[Vol] # "gone" /\ Exists(Cached) /\ Cached.status[Vol] # "none"
                 /\ local'[Vol].status[Vol] # "none"
           /\ l = Vol /\ pc'[Vol] \in {"remove", "forget", "forgot", "drop", "finish"} => Vol \in deleting
           /\ l = Vol /\ pc'[Vol] \in {"drop", "forgot"} =>
                 local'[Vol].spec[Vol] = "none" /\ local'[Vol].phase # "none"
           /\ l = Vol /\ pc'[Vol] = "finish" => ~Exists(Cached) \/ pc[Vol] \in {"drop", "forgot"}
           /\ l = Snap /\ pc'[Snap] = "activate" => ~Retired /\ local'[Snap].spec[Snap] # "none"
           /\ own[Snap] = "absent" => l = Vol
           /\ own[Vol] = "gone" => l = Snap
<1>0. /\ Vol \in LVs /\ Snap \in LVs /\ LVs = {Vol, Snap} /\ Vol # Snap /\ l \in Procs
      /\ Vol \in Procs /\ Snap \in Procs /\ PoolCtl \in Procs /\ PoolCtl # l
      /\ pc'[Vol] # "retry"
  <2>1. pc' \in [Procs -> {"idle"} \cup NodePc \cup PoolPc \cup OwnerPc]
    BY OwnerCallTypes DEF TypeOK
  <2> QED BY <2>1, ProcsFacts DEF LVs, NodePc, PoolPc, OwnerPc
<1>1. \A q \in Procs \ {l} : pc'[q] = pc[q] /\ local'[q] = local[q]
  BY OwnerLeaves
<1>2. /\ l = Vol \/ (pc'[Vol] = pc[Vol] /\ local'[Vol] = local[Vol])
      /\ l = Snap \/ (pc'[Snap] = pc[Snap] /\ local'[Snap] = local[Snap])
      /\ pc'[PoolCtl] = pc[PoolCtl]
  BY <1>0, <1>1
<1>3. \/ OwnerTo(l, local'[l], pc'[l])
      \/ /\ pc'[l] = "add" /\ local'[l] = NewPool
         /\ l = Vol /\ At(Vol, "create") /\ pool.phase = "none"
  BY OwnerShows
<1>4. /\ At(Vol, "create") => Vol \notin deleting /\ own[Vol] # "gone"
      /\ At(Vol, "off") \/ At(Vol, "remove") => Vol \in deleting
      /\ pc[Vol] \in {"remove", "forget", "forgot", "drop", "finish"} => Vol \in deleting
  BY AtFacts DEF CopyInv, EndOK
<1>5. ASSUME l = Vol
      PROVE  /\ pc'[Vol] = "add" => Vol \notin deleting /\ pool = NoPool /\ local'[Vol] = NewPool
             /\ pc'[Vol] = "ready" =>
                   Vol \notin deleting /\ own[Vol] # "gone" /\ local'[Vol].status[Vol] # "none"
             /\ pc'[Vol] \in {"remove", "forget", "forgot", "drop", "finish"} => Vol \in deleting
             /\ pc'[Vol] \in {"drop", "forgot"} => local'[Vol].spec[Vol] = "none"
  BY <1>0, <1>3, <1>4, <1>5 DEF OwnerTo, UnmadeOK
<1>6. ASSUME l = Vol
      PROVE  /\ pc'[Vol] = "ready" => Exists(Cached) /\ Cached.status[Vol] # "none"
             /\ pc'[Vol] \in {"drop", "forgot"} => local'[Vol].phase # "none"
             /\ pc'[Vol] = "finish" => ~Exists(Cached) \/ pc[Vol] \in {"drop", "forgot"}
  <2>1. OwnerCall(Vol)
    BY <1>6
  <2> QED BY <2>1, VolShows DEF Exists
<1>7. ASSUME l = Snap, pc'[Snap] = "activate" PROVE ~Retired /\ local'[Snap].spec[Snap] # "none"
  <2>1. At(Snap, "snapshot") /\ local'[Snap].spec[Snap] # "none"
    BY <1>0, <1>3, <1>7 DEF OwnerTo
  <2> QED BY <2>1, AtFacts DEF CopyInv
<1>8. ASSUME own[Snap] = "absent" PROVE l = Vol
  <2>1. pc[Snap] = "idle" /\ \A p : p # "idle" => ~At(Snap, p)
    BY <1>0, <1>8 DEF EndOK, At, Starts, OwnerPcOf
  <2>2. ~OwnerCall(Snap)
    BY <1>0, <2>1 DEF OwnerCall, SnapshotBlob, ActivateBlobForCloneSource, DeactivateBlob, RemoveBlob,
       ForgetRemovedThinLv, DropReference
  <2> QED BY <1>0, <2>2
<1>9. ASSUME own[Vol] = "gone" PROVE l = Snap
  <2>1. pc[Vol] = "idle" /\ \A p : p # "idle" => ~At(Vol, p)
    BY <1>0, <1>9 DEF EndOK, At, Starts, OwnerPcOf
  <2>2. ~OwnerCall(Vol)
    BY <1>0, <2>1 DEF OwnerCall, CreateBlob, CreateBlobInNewPool, DeactivateBlob, RemoveBlob,
       ForgetRemovedThinLv, DropReference
  <2> QED BY <1>0, <2>2
<1> QED BY <1>2, <1>5, <1>6, <1>7, <1>8, <1>9

LEMMA OwnerOnward ==
    ASSUME TypeOK, CopyInv, UnmadeOK, EndOK, NEW l \in LVs, OwnerCall(l)
    PROVE  Onward
<1>0. /\ pool.spec[Vol] \in {"none", "Inactive", "Active", "Removed"}
      /\ pool.spec[Snap] \in {"none", "Inactive", "Active", "Removed"}
  BY ProcsFacts, PoolFields DEF TypeOK
<1>1. UNCHANGED <<lvm, own, deleting>>
  BY OwnerLeaves
<1>2. /\ pool'.spec[Vol] = pool.spec[Vol] \/ (l = Vol /\ VolChange)
      /\ pool'.spec[Snap] = pool.spec[Snap] \/ (l = Snap /\ SnapChange)
      /\ pool'.status = pool.status
  BY OwnerChanges
<1>3. /\ pc'[Vol] = "add" => pc[Vol] = "add" \/ Vol \notin deleting
      /\ pc'[Snap] = "activate" => pc[Snap] = "activate" \/ ~Retired
  BY OwnerGoesOn
<1>4. VolOver => VolOver' /\ (pool.spec[Vol] = "none" => pool'.spec[Vol] = "none")
  BY <1>1, <1>2, <1>3 DEF VolOver, VolChange
<1>5. SnapOver => SnapOver'
  BY <1>1, <1>2, <1>3 DEF SnapOver, Retired, SnapChange, Wants
<1>6. Wants(pool) => Wants(pool') \/ SnapOver'
  BY <1>1, <1>2 DEF SnapOver, Retired, SnapChange, Wants
<1>7. Wants(pool') => Wants(pool) \/ ~VolOver
  BY <1>2 DEF Wants, SnapChange, VolOver, SourceFound
<1> QED BY <1>1, <1>2, <1>4, <1>5, <1>6, <1>7 DEF Onward, VolMade, VolThere, SnapMade

\* The object stays one that tells no lies.
LEMMA OwnerSound ==
    ASSUME TypeOK, CoverInv, CopyInv, UnmadeOK, OriginInv, NEW l \in LVs, OwnerCall(l)
    PROVE  Sound(pool)'
<1>0. /\ Vol \in LVs /\ Snap \in LVs /\ LVs = {Vol, Snap} /\ Vol # Snap /\ l \in Procs
      /\ pool.spec[Vol] \in {"none", "Inactive", "Active", "Removed"}
      /\ pool.spec[Snap] \in {"none", "Inactive", "Active", "Removed"}
      /\ pool.phase \in {"none", "live", "deleting", "gone"} /\ pool \in Pool
  BY ProcsFacts, PoolFields DEF TypeOK, LVs
<1>1. UNCHANGED <<lvm, own, deleting>>
  BY OwnerLeaves
<1>2. /\ pool'.spec[Vol] = pool.spec[Vol] \/ (l = Vol /\ VolChange)
      /\ pool'.spec[Snap] = pool.spec[Snap] \/ (l = Snap /\ SnapChange)
      /\ pool'.status = pool.status
      /\ pool'.phase = pool.phase \/ (pool = NoPool /\ pool' = NewPool) \/ OwnerDeletes(l)
  BY OwnerChanges DEF OriginInv
<1>3. Onward
  BY OwnerOnward DEF OriginInv
<1>4. Sound(pool) /\ Sound(Cached) /\ Sound(local[l])
  BY <1>0, ProcsFacts DEF OriginInv, CopiesSound, Cached
<1>5. VolOver \/ own[Snap] = "absent" \/ (pool.status[Vol] # "none" /\ lvm.lvs[Vol] # "none")
  BY DEF OriginInv, HandedOK, HandedOut, VolThere
<1>6. own[Snap] = "absent" => pool.spec[Snap] = "none" /\ l = Vol
  BY OwnerGoesOn DEF OriginInv, EndOK
<1>7. Covers(pool')
  <2>1. SpecCoversStatus'
    BY OwnerCover DEF CoverInv
  <2> QED BY <2>1 DEF SpecCoversStatus, Covers
<1>8. Wants(pool') /\ pool'.status[Snap] = "none" => pool'.status[Vol] # "none"
  <2>1. Wants(pool) => (pool.status[Snap] = "none" => pool.status[Vol] # "none")
    BY <1>4 DEF Sound, Coherent
  <2>2. Wants(pool') => Wants(pool) \/ (l = Snap /\ SourceFound(pool) /\ own[Snap] # "absent")
    BY <1>2 DEF Wants, SnapChange
  <2> QED BY <1>2, <1>5, <2>1, <2>2 DEF VolOver, SourceFound
<1>9. pool'.phase # "live" /\ pool'.spec[Vol] = "Removed" => ~Wants(pool')
  <2> SUFFICES ASSUME pool'.phase # "live", pool'.spec[Vol] = "Removed", Wants(pool') PROVE FALSE
    OBVIOUS
  <2>1. Wants(pool)
    BY <1>0, <1>2 DEF Wants, SnapChange, SourceFound
  <2>2. HandedOut
    BY <1>6, <2>1 DEF Wants, HandedOut
  <2>3. ~OwnerDeletes(l)
    <3> SUFFICES ASSUME OwnerDeletes(l) PROVE FALSE
      OBVIOUS
    <3>1. Late(local[l]) /\ local[l].phase # "none" /\ local[l].spec[Vol] = "none"
      BY <1>0, <2>2 DEF OwnerDeletes, Empty, OriginInv, HandedOK
    <3>2. pool.spec[Vol] = "none" /\ pool'.spec = pool.spec
      BY <1>0, <3>1 DEF Late, VolForgotten, OwnerDeletes, Pool
    <3> QED BY <3>2
  <2>4. pool' # NewPool
    BY DEF NewPool, NoPool
  <2>5. pool.phase # "live" /\ pool.phase # "none"
    <3>1. pool'.phase = pool.phase
      BY <1>2, <2>3, <2>4
    <3>2. NoPool.spec[Snap] = "none"
      BY <1>0 DEF NoPool
    <3> QED BY <2>1, <3>1, <3>2 DEF UnmadeOK, Wants
  <2>6. VolOver
    BY <1>0, <2>2, <2>5 DEF OriginInv, EndOK, Ended
  <2>7. pool.spec[Vol] = "none"
    BY <1>4, <2>1, <2>5, <2>6 DEF Sound, Coherent, VolOver
  <2> QED BY <1>2, <2>7 DEF VolChange
<1>10. Coherent(pool')
  BY <1>7, <1>8, <1>9 DEF Coherent
<1>11. Recalls(pool)'
  <2>1. pool'.spec[Vol] = "Removed" => VolOver'
    <3>1. CASE pool.spec[Vol] = "Removed"
      BY <1>3, <1>4, <3>1 DEF Sound, Recalls, Onward
    <3>2. CASE pool.spec[Vol] # "Removed" /\ pool'.spec[Vol] = "Removed"
      <4>1. l = Vol /\ Vol \in deleting
        BY <1>2, <3>2 DEF VolChange
      <4>2. pc'[Vol] # "add"
        BY <4>1, OwnerGoesOn DEF OriginInv
      <4> QED BY <1>1, <3>2, <4>1, <4>2 DEF VolOver
    <3> QED BY <3>1, <3>2
  <2>2. pool'.spec[Snap] = "Removed" => SnapOver'
    <3>1. CASE pool.spec[Snap] = "Removed"
      BY <1>3, <1>4, <3>1 DEF Sound, Recalls, Onward
    <3>2. CASE pool.spec[Snap] # "Removed" /\ pool'.spec[Snap] = "Removed"
      BY <1>1, <1>2, <3>2 DEF SnapChange, SnapOver, Retired
    <3> QED BY <3>1, <3>2
  <2>3. pool'.spec[Snap] # "none" => Wants(pool') \/ SnapOver'
    BY <1>0, <1>2, <2>2 DEF SnapChange, Wants
  <2>4. /\ pool'.status[Vol] # "none" => VolThere'
        /\ pool'.status[Snap] # "none" => SnapMade'
    BY <1>2, <1>3, <1>4 DEF Sound, Recalls, Onward
  <2> QED BY <2>1, <2>2, <2>3, <2>4 DEF Recalls, Wants
<1>12. Refers(pool)'
  <2> SUFFICES ASSUME pool'.phase # "none", Vol \notin pool'.refs
               PROVE  own[Vol] = "gone" \/ (Vol \in deleting /\ pool'.spec[Vol] = "none")
    BY <1>1 DEF Refers
  <2>1. CASE pool' = pool
    BY <1>4, <2>1 DEF Sound, Refers
  <2>2. CASE OwnerDeletes(l)
    <3>1. pool'.refs = pool.refs /\ pool'.spec = pool.spec /\ pool.phase # "none"
      BY <1>0, <2>2 DEF OwnerDeletes, Exists, Pool
    <3> QED BY <1>4, <3>1 DEF Sound, Refers
  <2>3. CASE pool' = NewPool
    BY <2>3 DEF NewPool
  <2>4. CASE Request(l, pool') /\ pool' # pool
    <3>1. PICK old \in {Cached, local[l]} : Refines(l, old)
      BY <2>4, OwnerRefs
    <3>2. old.phase # "none" /\ old.spec = pool.spec
      BY <2>4, <3>1 DEF Refines, Request
    <3>3. CASE Vol \in old.refs
      <4>1. pc[Vol] \in {"drop", "forgot"} /\ pool'.spec = local[Vol].spec
        BY <3>1, <3>3 DEF Refines
      <4>2. Vol \in deleting /\ local[Vol].spec[Vol] = "none"
        BY <4>1 DEF OriginInv, EndOK
      <4> QED BY <4>1, <4>2
    <3>4. CASE Vol \notin old.refs
      <4>1. own[Vol] = "gone" \/ (Vol \in deleting /\ pool.spec[Vol] = "none")
        BY <1>4, <3>1, <3>2, <3>4 DEF Sound, Refers
      <4>2. l = Vol => pc[Vol] # "add"
        BY <3>1, <3>4 DEF Refines, OriginInv, EndOK
      <4> QED BY <1>2, <4>1, <4>2 DEF VolChange
    <3> QED BY <3>3, <3>4
  <2> QED BY <2>1, <2>2, <2>3, <2>4, OwnerShows
<1> QED BY <1>10, <1>11, <1>12 DEF Sound, Coherent, Covers, Wants

\* What the owners' calls leave behind keeps the invariant.
LEMMA OwnerOrigin ==
    ASSUME TypeOK, CoverInv, CopyInv, UnmadeOK, OriginInv, NEW l \in LVs, OwnerCall(l)
    PROVE  OriginInv'
<1>0. /\ Vol \in LVs /\ Snap \in LVs /\ LVs = {Vol, Snap} /\ Vol # Snap /\ l \in Procs /\ l \notin Nodes
      /\ Vol \in Procs /\ Snap \in Procs /\ Nodes \subseteq Procs /\ PoolCtl \in Caches
      /\ Cached.phase \in {"none", "live", "deleting", "gone"}
  BY ProcsFacts, PoolFields DEF LVs, TypeOK, Cached
<1>1. /\ UNCHANGED <<lvm, own, deleting, cache>>
      /\ \A q \in Procs \ {l} : pc'[q] = pc[q] /\ local'[q] = local[q]
      /\ local'[l] \in {Cached, local[l], NoPool, pool'}
  BY OwnerLeaves
<1>2. /\ pool'.spec[Vol] = pool.spec[Vol] \/ (l = Vol /\ VolChange)
      /\ pool'.spec[Snap] = pool.spec[Snap] \/ (l = Snap /\ SnapChange)
      /\ pool'.status = pool.status /\ (pool.phase # "none" => pool'.phase # "none")
      /\ pool'.phase = pool.phase \/ (pool = NoPool /\ pool' = NewPool) \/ OwnerDeletes(l)
  BY OwnerChanges DEF OriginInv
<1>3. Onward
  BY OwnerOnward DEF OriginInv
<1>4. Sound(pool)'
  BY OwnerSound
<1>5. CopiesFrom
  <2> SUFFICES ASSUME NEW q \in Procs PROVE local'[q] = pool' \/ OldCopies(local'[q])
    BY <1>1 DEF CopiesFrom
  <2>1. Sound(Cached) /\ Sound(local[q])
    BY <1>0 DEF OriginInv, CopiesSound, Cached
  <2>2. local'[q] \in {Cached, local[q], NoPool, pool'}
    BY <1>1
  <2>3. \A v : Alike(v, v)
    BY DEF Alike, SameLists
  <2> QED BY <2>1, <2>2, <2>3 DEF OldCopies
<1>6. CopiesSound'
  BY <1>3, <1>4, <1>5, CopiesSoundKept DEF OriginInv
<1>7. NodesReady'
  <2> SUFFICES ASSUME NEW n \in Nodes
               PROVE  /\ pc'[n] \in {"activate", "delete", "deleted"} => Ready(local'[n])
                      /\ pc'[n] = "record" => IF MustSnapshot(local'[n]) THEN SnapMade' ELSE VolMade'
    BY DEF NodesReady, NodeReady, Ready, Wants, MustSnapshot, MustCreate, MustExpand, Wanted
  <2>1. pc'[n] = pc[n] /\ local'[n] = local[n]
    BY <1>0, <1>1
  <2> QED BY <1>3, <2>1 DEF OriginInv, NodesReady, NodeReady, Onward
<1>8. /\ l = Vol \/ (pc'[Vol] = pc[Vol] /\ local'[Vol] = local[Vol])
      /\ l = Snap \/ (pc'[Snap] = pc[Snap] /\ local'[Snap] = local[Snap])
      /\ pc'[PoolCtl] = pc[PoolCtl]
      /\ l = Vol /\ pc'[Vol] = "add" => Vol \notin deleting /\ pool = NoPool /\ local'[Vol] = NewPool
      /\ l = Vol /\ pc'[Vol] = "ready" =>
            Vol \notin deleting /\ own[Vol] # "gone" /\ Exists(Cached) /\ Cached.status[Vol] # "none"
            /\ local'[Vol].status[Vol] # "none"
      /\ l = Vol /\ pc'[Vol] \in {"remove", "forget", "forgot", "drop", "finish"} => Vol \in deleting
      /\ l = Vol /\ pc'[Vol] \in {"drop", "forgot"} =>
            local'[Vol].spec[Vol] = "none" /\ local'[Vol].phase # "none"
      /\ l = Vol /\ pc'[Vol] = "finish" => ~Exists(Cached) \/ pc[Vol] \in {"drop", "forgot"}
      /\ l = Snap /\ pc'[Snap] = "activate" => ~Retired /\ local'[Snap].spec[Snap] # "none"
      /\ own[Snap] = "absent" => l = Vol
      /\ own[Vol] = "gone" => l = Snap
  BY OwnerGoesOn DEF OriginInv
<1>9. Ended(pool) => Ended(pool')
  <2>1. NoPool.phase = "none"
    BY DEF NoPool
  <2>2. OwnerDeletes(l) => pool'.phase = "deleting"
    BY DEF OwnerDeletes, TypeOK, Pool
  <2> QED BY <1>2, <2>1, <2>2 DEF Ended
<1>10. HandedOut => VolThere /\ Cached.phase # "none" /\ Late(Cached) /\ Late(local[Vol]) /\ Late(local[Snap])
  BY DEF OriginInv, HandedOK
<1>11. HandedOut' => HandedOut \/ (l = Vol /\ pc'[Vol] = "ready")
  BY <1>1, <1>8 DEF HandedOut
<1>12. HandedOK'
  <2> SUFFICES ASSUME HandedOut' PROVE HandedOK'
    BY DEF HandedOK
  <2>1. VolThere'
    <3>1. CASE HandedOut
      BY <1>3, <1>10, <3>1 DEF Onward
    <3>2. CASE l = Vol /\ pc'[Vol] = "ready"
      <4>1. Sound(Cached) /\ Cached.status[Vol] # "none"
        BY <1>0, <1>8, <3>2 DEF OriginInv, CopiesSound, Cached
      <4> QED BY <1>3, <4>1 DEF Sound, Recalls, Onward
    <3> QED BY <1>11, <3>1, <3>2
  <2>2. Cached' = Cached /\ Cached.phase # "none"
    BY <1>1, <1>8, <1>10, <1>11 DEF Cached, Exists
  <2>3. ASSUME NEW v, Sound(v), v.status[Vol] # "none" PROVE Late(v)'
    BY <1>0, <2>3 DEF Late, Sound, Coherent, Covers
  <2>4. Late(pool)'
    BY <1>0, <1>4, <2>1 DEF Late, VolThere, Sound, Coherent, Covers, VolForgotten
  <2>5. Late(NoPool)'
    BY DEF Late, NoPool
  <2>6. CASE HandedOut
    <3>1. ASSUME NEW v, v \in {Cached, local[Vol], local[Snap], NoPool} PROVE Late(v)'
      BY <1>3, <1>10, <2>5, <2>6, <3>1, LateStays
    <3>2. Late(Cached)' /\ Late(local[Vol])' /\ Late(local[Snap])'
      <4>1. PICK v, w : v = local'[Vol] /\ w = local'[Snap]
        OBVIOUS
      <4>2. v \in {Cached, local[Vol], NoPool, pool'} /\ w \in {Cached, local[Snap], NoPool, pool'}
        BY <1>0, <1>1, <4>1
      <4>3. Late(pool)' => (v = pool' => Late(v)') /\ (w = pool' => Late(w)')
        BY DEF Late, Wants
      <4>4. Late(v)' /\ Late(w)'
        BY <2>4, <3>1, <4>2, <4>3
      <4>5. PICK u : u = Cached
        OBVIOUS
      <4>6. Late(u)'
        BY <3>1, <4>5
      <4> QED BY <2>2, <4>1, <4>4, <4>5, <4>6 DEF Late, Wants
    <3>3. pc'[Vol] # "add"
      BY <1>0, <1>8, <1>10, <2>6 DEF OriginInv, HandedOK, UnmadeOK, Cached, NoPool
    <3>4. pc'[Vol] = "finish" \/ own'[Vol] = "gone" => VolForgotten' \/ Ended(pool')
      <4>1. VolForgotten => VolForgotten'
        BY <1>3 DEF Onward, VolForgotten
      <4>2. pc[Vol] = "finish" \/ own[Vol] = "gone" => VolForgotten \/ Ended(pool)
        BY <2>6 DEF OriginInv, HandedOK
      <4>3. ~Exists(Cached) => Ended(pool)
        BY <1>0, <1>10, <2>6 DEF Exists, Ended, CopyInv, LvmOK, Cached
      <4>4. pc[Vol] \in {"drop", "forgot"} => VolForgotten
        BY <1>10, <2>6 DEF OriginInv, EndOK, Late
      <4> QED BY <1>1, <1>8, <1>9, <4>1, <4>2, <4>3, <4>4
    <3> QED BY <2>1, <2>2, <3>2, <3>3, <3>4 DEF HandedOK, Ended
  <2>7. CASE ~HandedOut /\ l = Vol /\ pc'[Vol] = "ready"
    <3>1. Late(Cached)' /\ Late(local[Vol])' /\ Late(local[Snap])'
      <4>1. PICK v, w, u : v = local'[Vol] /\ w = local'[Snap] /\ u = Cached
        OBVIOUS
      <4>2. w = NoPool
        BY <1>0, <1>8, <2>7, <4>1 DEF HandedOut, OriginInv, EndOK
      <4>3. Late(w)'
        BY <2>5, <4>2
      <4>4. v.spec[Vol] # "none" /\ u.spec[Vol] # "none"
        BY <1>0, <1>6, <1>8, <2>2, <2>7, <4>1 DEF CopiesSound, Sound, Coherent, Covers, Cached
      <4> QED BY <2>2, <4>1, <4>3, <4>4 DEF Late, Wants
    <3> QED BY <1>1, <1>8, <2>1, <2>2, <2>7, <3>1 DEF HandedOK
  <2> QED BY <1>11, <2>6, <2>7
<1>13. EndOK'
  <2>0. EndOK
    BY DEF OriginInv
  <2>1. Ended(pool') => Vol \in deleting' /\ (HandedOut' => VolOver')
    <3>1. CASE Ended(pool)
      BY <1>1, <1>3, <1>8, <1>11, <2>0, <3>1 DEF EndOK, Onward
    <3>2. CASE OwnerDeletes(l)
      <4>1. local[l].phase # "none" /\ local[l].spec[Vol] = "none" /\ pool.phase # "none" /\ pool'.spec = pool.spec
        BY <1>0, <3>2 DEF OwnerDeletes, Empty, Exists, TypeOK, Pool
      <4>2. pc'[Vol] # "ready" \/ l # Vol
        BY <3>2 DEF OwnerDeletes
      <4>3. HandedOut => VolForgotten
        BY <1>0, <1>10, <4>1 DEF Late
      <4>4. Vol \in deleting
        <5>1. l = Vol => pc[Vol] \in {"drop", "forgot"}
          BY <3>2 DEF OwnerDeletes
        <5>2. l = Snap => HandedOut
          BY <1>0, <1>8 DEF HandedOut
        <5> QED BY <1>0, <2>0, <4>3, <5>1, <5>2 DEF EndOK, VolForgotten, VolOver
      <4> QED BY <1>1, <1>3, <1>11, <4>2, <4>3, <4>4 DEF Onward, VolForgotten
    <3>3. CASE pool' = NewPool
      BY <3>3 DEF NewPool, Ended
    <3> QED BY <1>2, <3>1, <3>2, <3>3 DEF Ended
  <2>2. pc'[PoolCtl] = "rmfinal" => Ended(pool')
    BY <1>8, <1>9, <2>0 DEF EndOK
  <2>3. pc'[Vol] \in {"remove", "forget", "forgot", "drop", "finish"} \/ own'[Vol] = "gone" => Vol \in deleting'
    BY <1>1, <1>8, <2>0 DEF EndOK
  <2>4. pc'[Vol] \in {"drop", "forgot"} => local'[Vol].spec[Vol] = "none" /\ local'[Vol].phase # "none"
    BY <1>8, <2>0 DEF EndOK
  <2>5. pc'[Vol] = "add" => Vol \in local'[Vol].refs
    BY <1>8, <2>0 DEF EndOK, NewPool, NoPool
  <2>6. own'[Snap] = "absent" => pool'.spec[Snap] = "none" /\ local'[Snap] = NoPool /\ pc'[Snap] = "idle"
    BY <1>0, <1>1, <1>2, <1>8, <2>0 DEF EndOK
  <2>7. pc'[Snap] = "activate" => Wants(pool')
    <3>1. CASE l = Snap
      <4>1. ASSUME pc'[Snap] = "activate" PROVE Recalls(local[Snap])' /\ local'[Snap].spec[Snap] # "none" /\ ~Retired'
        BY <1>0, <1>1, <1>6, <1>8, <3>1, <4>1 DEF CopiesSound, Sound, Retired
      <4> QED BY <4>1 DEF Recalls, SnapOver
    <3>2. CASE l = Vol
      BY <1>0, <1>2, <1>8, <2>0, <3>2 DEF EndOK, Wants
    <3> QED BY <1>0, <3>1, <3>2
  <2>8. own'[Vol] = "gone" => pc'[Vol] = "idle"
    BY <1>0, <1>1, <1>8, <2>0 DEF EndOK
  <2> QED BY <2>1, <2>2, <2>3, <2>4, <2>5, <2>6, <2>7, <2>8 DEF EndOK, Ended, Wants
<1>14. SnapshotSourceKept'
  <2> SUFFICES ASSUME Wants(pool'), lvm.lvs[Snap] = "none" PROVE lvm.lvs[Vol] # "none"
    BY <1>1 DEF SnapshotSourceKept, Wants
  <2>1. CASE Wants(pool)
    BY <2>1 DEF OriginInv, SnapshotSourceKept, Wants
  <2>2. CASE ~Wants(pool)
    <3>1. SourceFound(pool) /\ own[Snap] # "absent"
      BY <1>2, <2>2 DEF Wants, SnapChange
    <3> QED BY <1>10, <3>1 DEF HandedOut, VolThere, VolOver, SourceFound
  <2> QED BY <2>1, <2>2
<1> QED BY <1>6, <1>7, <1>12, <1>13, <1>14 DEF OriginInv

\* Steps that ask for nothing and make or remove no thin LV: the pool may be deleted by
\* them only after Vol was forgotten.
LEMMA SteadyOrigin ==
    ASSUME TypeOK, UnmadeOK, OriginInv,
           pool'.spec = pool.spec, pool'.status = pool.status,
           pool'.phase \in {"none", "live", "deleting", "gone"},
           pool'.phase = "none" => pool.phase = "none", Refers(pool)',
           Ended(pool) => Ended(pool'),
           Ended(pool') => Ended(pool) \/ (Vol \in deleting /\ (HandedOut => VolForgotten)),
           \A k \in LVs : lvm'.lvs[k] = "none" <=> lvm.lvs[k] = "none",
           deleting \subseteq deleting', Retired => Retired',
           own[Vol] = "gone" => own'[Vol] = "gone",
           own'[Vol] = "gone" => own[Vol] = "gone" \/ (pc[Vol] = "finish" /\ pc'[Vol] = "idle"),
           own'[Snap] = "absent" => own[Snap] = "absent", HandedOut' => HandedOut,
           \A q \in Procs : q # PoolCtl => Rests(q),
           local'[PoolCtl] \in {local[PoolCtl], Cached, NoPool}, pc'[PoolCtl] = "rmfinal" => Ended(pool'),
           \A c \in Caches : cache'[c] \in {cache[c], pool}
    PROVE  OriginInv'
<1>0. /\ Vol \in LVs /\ Snap \in LVs /\ Vol # Snap /\ PoolCtl \in Caches /\ PoolCtl \in Procs
      /\ Rests(Vol) /\ Rests(Snap) /\ \A n \in Nodes : n \in Procs /\ Rests(n)
  BY ProcsFacts
<1>1. /\ VolOver => VolOver'
      /\ SnapOver => SnapOver'
      /\ Wants(pool') = Wants(pool)
  BY <1>0 DEF VolOver, SnapOver, Rests, Wants
<1>2. Onward
  BY <1>0, <1>1 DEF Onward, VolMade, VolThere, SnapMade
<1>3. Sound(pool)
  BY DEF OriginInv, CopiesSound
<1>4. pool'.phase # "live" /\ pool.spec[Vol] = "Removed" => ~Wants(pool)
  <2>1. CASE pool.phase # "live"
    BY <1>3, <2>1 DEF Sound, Coherent
  <2>2. CASE pool.phase = "live" /\ pool'.phase # "live"
    <3>1. Ended(pool') /\ ~Ended(pool)
      BY <2>2 DEF Ended
    <3>2. CASE HandedOut
      BY <3>1, <3>2 DEF VolForgotten
    <3>3. CASE ~HandedOut
      BY <3>3 DEF HandedOut, OriginInv, EndOK, Wants
    <3> QED BY <3>2, <3>3
  <2> QED BY <2>1, <2>2
<1>5. Sound(pool)'
  <2>1. Recalls(pool)'
    BY <1>2, <1>3 DEF Sound, Recalls, Onward, Wants
  <2>2. Coherent(pool)'
    BY <1>3, <1>4 DEF Sound, Coherent, Covers, Wants
  <2> QED BY <2>1, <2>2 DEF Sound
<1>6. CopiesFrom
  <2> SUFFICES ASSUME NEW q \in Procs PROVE local'[q] = pool' \/ OldCopies(local'[q])
    BY DEF CopiesFrom
  <2>1. Sound(Cached) /\ Sound(local[q])
    BY <1>0 DEF OriginInv, CopiesSound, Cached
  <2>2. local'[q] \in {Cached, local[q], NoPool}
    BY DEF Rests
  <2>3. \A v : Alike(v, v)
    BY DEF Alike, SameLists
  <2> QED BY <2>1, <2>2, <2>3 DEF OldCopies
<1>7. CopiesSound'
  BY <1>2, <1>5, <1>6, CopiesSoundKept DEF OriginInv
<1>8. NodesReady'
  <2> SUFFICES ASSUME NEW n \in Nodes
               PROVE  /\ pc'[n] \in {"activate", "delete", "deleted"} => Ready(local'[n])
                      /\ pc'[n] = "record" => IF MustSnapshot(local'[n]) THEN SnapMade' ELSE VolMade'
    BY DEF NodesReady, NodeReady, Ready, Wants, MustSnapshot, MustCreate, MustExpand, Wanted
  <2> QED BY <1>0, <1>2 DEF OriginInv, NodesReady, NodeReady, Onward, Rests
<1>9. HandedOK'
  BY <1>0, <1>2, HandedKept DEF OriginInv
<1>10. EndOK'
  <2>1. VolForgotten => VolOver
    BY DEF VolForgotten
  <2>2. pc[Vol] = "finish" => Vol \in deleting
    BY DEF OriginInv, EndOK
  <2> QED BY <1>0, <1>2, <2>1, <2>2, EndKept DEF OriginInv
<1>11. SnapshotSourceKept'
  BY <1>0 DEF OriginInv, SnapshotSourceKept
<1> QED BY <1>7, <1>8, <1>9, <1>10, <1>11 DEF OriginInv

\* What the reconciler of the thin pool goes on with, and which copy it writes.
LEMMA PoolCtlGoesOn ==
    ASSUME TypeOK, CopyInv, PoolCtlStep
    PROVE  /\ lvm'.lvs = lvm.lvs /\ local'[PoolCtl] \in {Cached, NoPool}
           /\ pc'[PoolCtl] = "rmfinal" => Ended(Cached)
           /\ pool'.phase = pool.phase \/ pc[PoolCtl] = "rmfinal"
           /\ \/ pool' = pool
              \/ /\ local[PoolCtl].spec = pool.spec /\ local[PoolCtl].phase = pool.phase
                 /\ pool'.refs = local[PoolCtl].refs
<1>0. /\ PoolCtl \in Procs /\ PoolCtl \notin Nodes /\ Cached \in Pool /\ local[PoolCtl] \in Pool /\ lvm \in Lvm
  BY ProcsFacts DEF TypeOK, Cached
<1>1. CASE CreatePoolLv \/ RemovePoolLv
  <2>1. pool' = pool
    BY <1>1 DEF CreatePoolLv, RemovePoolLv
  <2>2. PICK p \in {"mkstatus", "rmfinal"} :
          /\ Continue(PoolCtl, Cached, CachedIsFresh, p) \/ Fail(PoolCtl)
          /\ p = "rmfinal" => MayRemovePool(Cached)
    BY <1>1 DEF CreatePoolLv, RemovePoolLv, Cached, CachedIsFresh
  <2>3. Reads(PoolCtl, Cached, CachedIsFresh, p)
    BY <1>0, <2>1, <2>2, ContinueReads, EndsDo DEF Reads
  <2>4. lvm'.lvs = lvm.lvs
    BY <1>0, <1>1 DEF CreatePoolLv, RemovePoolLv, Lvm
  <2> QED BY <2>1, <2>2, <2>3, <2>4 DEF Reads, Stopped, Went, MayRemovePool, Ended
<1>2. CASE SetPoolAvailable \/ RemovePoolFinalizer
  <2>1. PICK v : /\ Write(PoolCtl, v, PoolCtl \in fresh, "idle") /\ lvm' = lvm
                 /\ v.refs = local[PoolCtl].refs
                 /\ v.phase = local[PoolCtl].phase \/ pc[PoolCtl] = "rmfinal"
    <3> DEFINE a == [local[PoolCtl] EXCEPT !.avail = TRUE]
               g == [local[PoolCtl] EXCEPT !.phase = "gone"]
    <3>1. a.refs = local[PoolCtl].refs /\ a.phase = local[PoolCtl].phase /\ g.refs = local[PoolCtl].refs
      BY <1>0 DEF Pool
    <3>2. \/ Write(PoolCtl, a, PoolCtl \in fresh, "idle") /\ lvm' = lvm
          \/ Write(PoolCtl, g, PoolCtl \in fresh, "idle") /\ lvm' = lvm /\ pc[PoolCtl] = "rmfinal"
      BY <1>2 DEF SetPoolAvailable, RemovePoolFinalizer
    <3> HIDE DEF a, g
    <3> QED BY <3>1, <3>2
  <2>3. Writes(PoolCtl, v, PoolCtl \in fresh, "idle")
    BY <1>0, <2>1, WriteWrites
  <2>4. PoolCtl \in fresh => local[PoolCtl].spec = pool.spec /\ local[PoolCtl].phase = pool.phase
    BY <1>0 DEF CopyInv, FreshOK, FreshOf, Same
  <2>5. pc'[PoolCtl] = "idle" /\ local'[PoolCtl] = NoPool
    BY <1>0, <2>1 DEF Write, Fail, Ends, TypeOK
  <2>6. pool' = pool \/ (pool' = v /\ PoolCtl \in fresh)
    BY <2>3 DEF Writes
  <2> QED BY <2>1, <2>4, <2>5, <2>6
<1> QED BY <1>1, <1>2 DEF PoolCtlStep

\* The reconciler of the thin pool removes it only when it is deleted.
LEMMA PoolCtlOrigin ==
    ASSUME TypeOK, CopyInv, UnmadeOK, OriginInv, PoolCtlStep
    PROVE  OriginInv'
<1>0. PoolCtl \in Procs /\ PoolCtl \in Caches /\ Vol \in LVs
  BY ProcsFacts
<1>1. /\ UNCHANGED <<cache, own, deleting>>
      /\ \A q \in Procs \ {PoolCtl} : pc'[q] = pc[q] /\ local'[q] = local[q]
      /\ pool'.spec = pool.spec /\ pool'.status = pool.status /\ pool'.phase \in {pool.phase, "gone"}
  BY PoolCtlDoes
<1>2. /\ lvm'.lvs = lvm.lvs /\ local'[PoolCtl] \in {Cached, NoPool}
      /\ pc'[PoolCtl] = "rmfinal" => Ended(Cached)
      /\ pool'.phase = pool.phase \/ pc[PoolCtl] = "rmfinal"
      /\ \/ pool' = pool
         \/ /\ local[PoolCtl].spec = pool.spec /\ local[PoolCtl].phase = pool.phase
            /\ pool'.refs = local[PoolCtl].refs
  BY PoolCtlGoesOn
<1>3. pc[PoolCtl] = "rmfinal" => Ended(pool)
  BY DEF OriginInv, EndOK
<1>4. Ended(pool') = Ended(pool) /\ (pool'.phase = "none" => pool.phase = "none")
      /\ pool'.phase \in {"none", "live", "deleting", "gone"} /\ (pool.phase = "none" => pool'.phase = "none")
  BY <1>1, <1>2, <1>3 DEF Ended, TypeOK, Pool
<1>5. Refers(pool)'
  <2>1. Refers(pool) /\ Refers(local[PoolCtl])
    BY <1>0 DEF OriginInv, CopiesSound, Sound
  <2> QED BY <1>1, <1>2, <1>4, <2>1 DEF Refers
<1>6. pc'[PoolCtl] = "rmfinal" => Ended(pool')
  BY <1>2, <1>4 DEF CopyInv, LvmOK, Cached
<1>7. \A q \in Procs : q # PoolCtl => Rests(q)
  BY <1>1 DEF Rests
<1>8. Retired => Retired'
  BY <1>1 DEF Retired
<1>9. HandedOut' => HandedOut
  BY <1>1, ProcsFacts DEF HandedOut
<1> QED BY <1>1, <1>2, <1>4, <1>5, <1>6, <1>7, <1>8, <1>9, SteadyOrigin

\* The garbage collector deletes the pool only when Vol has done with it.
LEMMA CollectOrigin ==
    ASSUME TypeOK, UnmadeOK, OriginInv, GarbageCollect
    PROVE  OriginInv'
<1>0. PoolCtl \in Procs /\ PoolCtl \in Caches /\ Vol \in LVs /\ pool \in Pool
  BY ProcsFacts DEF TypeOK
<1> DEFINE left == {l \in pool.refs : own[l] # "gone"}
<1>1. /\ UNCHANGED <<cache, local, pc, lvm, own, deleting>> /\ Exists(pool)
      /\ \/ pool' = [pool EXCEPT !.refs = left]
         \/ left = {} /\ pool.phase = "live" /\ pool' = [pool EXCEPT !.phase = "deleting"]
  BY DEF GarbageCollect, ownerVars
<1>2. /\ pool'.spec = pool.spec /\ pool'.status = pool.status
      /\ pool.phase # "none" /\ pool'.phase \in {"live", "deleting"}
      /\ \/ pool'.phase = pool.phase /\ pool'.refs = left
         \/ left = {} /\ pool.phase = "live" /\ pool'.refs = pool.refs
  BY <1>0, <1>1 DEF Pool, Exists
<1>3. Refers(pool)
  BY DEF OriginInv, CopiesSound, Sound
<1>4. Refers(pool)'
  BY <1>1, <1>2, <1>3 DEF Refers
<1>5. left = {} /\ pool.phase = "live" => Vol \in deleting /\ (HandedOut => VolForgotten)
  <2> SUFFICES ASSUME left = {}, pool.phase = "live" PROVE Vol \in deleting /\ (HandedOut => VolForgotten)
    OBVIOUS
  <2>1. CASE own[Vol] = "gone"
    BY <2>1 DEF OriginInv, EndOK, HandedOK, Ended
  <2>2. CASE own[Vol] # "gone"
    <3>1. Vol \in deleting /\ pool.spec[Vol] = "none"
      BY <1>3, <2>2 DEF Refers
    <3> QED BY <3>1 DEF OriginInv, HandedOK, VolForgotten, VolOver
  <2> QED BY <2>1, <2>2
<1> HIDE DEF left
<1>6. Ended(pool) => Ended(pool')
  BY <1>2 DEF Ended
<1>7. Ended(pool') => Ended(pool) \/ (Vol \in deleting /\ (HandedOut => VolForgotten))
  BY <1>2, <1>5 DEF Ended
<1>8. pc'[PoolCtl] = "rmfinal" => Ended(pool')
  BY <1>1, <1>6 DEF OriginInv, EndOK
<1>9. /\ \A q \in Procs : q # PoolCtl => Rests(q)
      /\ Retired => Retired'
      /\ HandedOut' => HandedOut
  BY <1>1 DEF Rests, Retired, HandedOut
<1> QED BY <1>1, <1>2, <1>4, <1>6, <1>7, <1>8, <1>9, SteadyOrigin

\* Steps that end reconciles leave the object as it is.
LEMMA EndsOrigin ==
    ASSUME TypeOK, UnmadeOK, OriginInv, OnlyEnds,
           \A k \in LVs : lvm'.lvs[k] = "none" <=> lvm.lvs[k] = "none",
           deleting \subseteq deleting', Retired => Retired',
           own[Vol] = "gone" => own'[Vol] = "gone",
           own'[Vol] = "gone" => own[Vol] = "gone" \/ (pc[Vol] = "finish" /\ pc'[Vol] = "idle"),
           own'[Snap] = "absent" => own[Snap] = "absent",
           own'[Vol] = "ready" \/ own'[Snap] # "absent" => HandedOut
    PROVE  OriginInv'
<1>0. PoolCtl \in Procs /\ PoolCtl \in Caches /\ Vol \in LVs /\ Vol \in Procs
  BY ProcsFacts
<1>1. /\ pool' = pool /\ \A q \in Procs : Rests(q)
      /\ \A c \in Caches : cache'[c] \in {cache[c], pool}
      /\ pool.phase \in {"none", "live", "deleting", "gone"}
  BY PoolFields DEF OnlyEnds, Rests, TypeOK
<1>2. Refers(pool)'
  BY <1>1 DEF OriginInv, CopiesSound, Sound, Refers
<1>3. HandedOut' => HandedOut
  BY <1>0, <1>1 DEF HandedOut, Rests
<1>4. local'[PoolCtl] \in {local[PoolCtl], NoPool} /\ pc'[PoolCtl] \in {pc[PoolCtl], "idle"}
  BY <1>0, <1>1 DEF Rests
<1>5. pc'[PoolCtl] = "rmfinal" => Ended(pool)
  BY <1>4 DEF OriginInv, EndOK
<1> QED BY <1>1, <1>2, <1>3, <1>4, <1>5, SteadyOrigin DEF Ended

LEMMA OtherOrigin ==
    ASSUME TypeOK, CopyInv, UnmadeOK, OriginInv, Next, OtherStep
    PROVE  OriginInv'
<1>0. /\ Vol \in LVs /\ Snap \in LVs /\ LVs = {Vol, Snap} /\ Vol # Snap /\ Vol \in Procs /\ Snap \in Procs
      /\ own \in [LVs -> {"absent", "wanted", "labelled", "copied", "ready", "gone"}]
      /\ own[Vol] \in {"wanted", "ready", "gone"}
  BY ProcsFacts DEF LVs, TypeOK, CopyInv, OwnersOn
<1>1. OnlyEnds /\ lvm' = lvm
  BY OtherDoes
<1>2. Retired => Retired'
  BY TargetSteps
<1>3. deleting \subseteq deleting'
  BY DEF OtherStep, NothingToDo, BlobReady, FinishOwner, LabelTarget, WatchEvent, StartDd, FinishDd, CancelDd,
     RequestSnap, Expand, Delete, ownerVars
<1>4. /\ own[Vol] = "gone" => pc[Vol] = "idle"
      /\ own[Snap] = "absent" => pc[Snap] = "idle"
      /\ pc[Vol] = "finish" => Vol \in deleting
  BY DEF OriginInv, EndOK
<1>5. CASE own' = own
  BY <1>1, <1>2, <1>3, <1>5, EndsOrigin DEF HandedOut
<1>6. CASE BlobReady(Vol) \/ FinishOwner(Vol)
  <2>1. ~(FinishOwner(Vol) /\ pc[Vol] # "finish")
    BY <1>0 DEF FinishOwner, At, OwnerPcOf
  <2>2. /\ BlobReady(Vol) => pc[Vol] = "ready" /\ own' = [own EXCEPT ![Vol] = "ready"]
        /\ FinishOwner(Vol) => own' = [own EXCEPT ![Vol] = "gone"]
    BY <1>4, <2>1 DEF BlobReady, FinishOwner
  <2>3. pc'[Vol] = "idle"
    BY <1>0, <1>6 DEF BlobReady, FinishOwner, Return, Ends, TypeOK
  <2>4. own'[Snap] = own[Snap]
    BY <1>0, <1>6, <2>2
  <2>5. \/ pc[Vol] = "ready" /\ own'[Vol] = "ready"
        \/ pc[Vol] = "finish" /\ own'[Vol] = "gone"
    BY <1>0, <1>6, <2>1, <2>2
  <2> QED BY <1>1, <1>2, <1>3, <1>4, <2>3, <2>4, <2>5, EndsOrigin DEF HandedOut
<1>7. CASE \E s : own' = [own EXCEPT ![Snap] = s] /\ s # "absent" /\ HandedOut
  <2>1. own'[Vol] = own[Vol] /\ own'[Snap] # "absent"
    BY <1>0, <1>7
  <2> QED BY <1>1, <1>2, <1>3, <1>7, <2>1, EndsOrigin DEF HandedOut
<1>8. CASE BlobReady(Snap) \/ FinishOwner(Snap)
  <2>1. own[Snap] # "absent"
    BY <1>0, <1>4, <1>8 DEF BlobReady, FinishOwner, At, OwnerPcOf
  <2>2. \E s : own' = [own EXCEPT ![Snap] = s] /\ s # "absent"
    BY <1>8 DEF BlobReady, FinishOwner
  <2> QED BY <1>7, <2>1, <2>2 DEF HandedOut
<1>9. CASE LabelTarget \/ FinishDd \/ RequestSnap
  <2>1. HandedOut
    BY <1>4, <1>9 DEF LabelTarget, FinishDd, RequestSnap, HandedOut, CopyInv, TargetOK
  <2>2. own' = own \/ \E s : own' = [own EXCEPT ![Snap] = s] /\ s # "absent"
    BY <1>9 DEF LabelTarget, FinishDd, RequestSnap
  <2> QED BY <1>5, <1>7, <2>1, <2>2
<1>10. CASE \/ \E c \in Procs : NothingToDo(c)
            \/ \E c \in Caches : WatchEvent(c)
            \/ StartDd \/ CancelDd
            \/ \E s \in 2..MaxSize : Expand(s)
            \/ \E l \in LVs : Delete(l)
  BY <1>5, <1>10 DEF NothingToDo, WatchEvent, StartDd, CancelDd, Expand, Delete, ownerVars
<1> QED BY <1>0, <1>6, <1>8, <1>9, <1>10 DEF OtherStep

LEMMA FaultOrigin ==
    ASSUME TypeOK, UnmadeOK, OriginInv, NEW n \in Nodes, Fault(n)
    PROVE  OriginInv'
<1>1. OnlyEnds /\ UNCHANGED <<own, deleting>>
  BY FaultDoes
<1>2. \A k \in LVs : lvm'.lvs[k] = "none" <=> lvm.lvs[k] = "none"
  <2>1. CASE lvm' = lvm
    BY <2>1
  <2>2. CASE RebootNode(n)
    BY <2>2 DEF RebootNode, TypeOK, Lvm
  <2> QED BY <2>1, <2>2 DEF Fault, RestartNode, Election
<1> QED BY <1>1, <1>2, EndsOrigin DEF Retired, HandedOut

LEMMA InitOrigin == Init => OriginInv
<1> SUFFICES ASSUME Init PROVE OriginInv
  OBVIOUS
<1>0. /\ Vol \in LVs /\ Snap \in LVs /\ LVs \subseteq Procs /\ Nodes \subseteq Procs /\ PoolCtl \in Procs
      /\ Vol # Snap
  BY ProcsFacts
<1>1. /\ pool = NoPool /\ (\A q \in Procs : local[q] = NoPool /\ pc[q] = "idle")
      /\ \A c \in Caches : cache[c] = NoPool
      /\ own[Vol] = "wanted" /\ own[Snap] = "absent"
  BY <1>0 DEF Init
<1>2. NoPool.phase = "none" /\ NoPool.spec[Snap] = "none"
  BY <1>0 DEF NoPool
<1>3. CopiesSound
  BY <1>1, NoPoolSound DEF CopiesSound
<1>4. NodesReady
  BY <1>0, <1>1 DEF NodesReady, NodeReady
<1>5. HandedOK
  BY <1>0, <1>1 DEF HandedOK, HandedOut
<1>6. EndOK
  BY <1>0, <1>1, <1>2 DEF EndOK, Ended
<1>7. SnapshotSourceKept
  BY <1>1, <1>2 DEF SnapshotSourceKept
<1> QED BY <1>3, <1>4, <1>5, <1>6, <1>7 DEF OriginInv

LEMMA OriginKept ==
    ASSUME TypeOK, CoverInv, CopyInv, UnmadeOK, OriginInv, [Next]_vars
    PROVE  UnmadeOK' /\ OriginInv'
<1>1. CASE UNCHANGED vars
  <2>1. UnmadeOK'
    BY <1>1 DEF vars, reconcileVars, ownerVars, UnmadeOK
  <2>2. CopiesSound'
    BY <1>1 DEF vars, reconcileVars, ownerVars, OriginInv, CopiesSound, Sound, Coherent, Covers, Recalls, Refers,
       Wants, VolOver, SnapOver, Retired, VolThere, SnapMade
  <2>3. NodesReady' /\ SnapshotSourceKept'
    BY <1>1 DEF vars, reconcileVars, ownerVars, OriginInv, NodesReady, NodeReady, Ready, Wants, SnapMade, VolMade,
       VolOver, SnapOver, Retired, MustSnapshot, MustCreate, MustExpand, Wanted, SnapshotSourceKept
  <2>4. HandedOK' /\ EndOK'
    BY <1>1 DEF vars, reconcileVars, ownerVars, OriginInv, HandedOK, HandedOut, VolThere, VolOver, Cached, Late,
       VolForgotten, Wants, Ended, EndOK
  <2> QED BY <2>1, <2>2, <2>3, <2>4 DEF OriginInv
<1>2. CASE Next
  <2>1. UnmadeOK'
    BY <1>2, UnmadeKept
  <2>2. OriginInv'
    BY <1>2, StepKinds, NodeOrigin, OwnerOrigin, PoolCtlOrigin, CollectOrigin, OtherOrigin, FaultOrigin
       DEF NodeAct, PoolCtlStep, OtherStep
  <2> QED BY <2>1, <2>2
<1> QED BY <1>1, <1>2

\* A snapshot that is in Spec has its source's thin LV until a node has made it: though
\* SnapshotBlob finds the source in a cache that may be old, and the source may be
\* deleted, with its pool, before any node comes to make the snapshot. So lvcreate never
\* meets a missing origin. Nothing is assumed about faults or the order of deletions.
THEOREM SourceIsKept == Spec => []SnapshotSourceKept
<1>1. Init => TypeOK /\ CoverInv /\ CopyInv /\ UnmadeOK /\ OriginInv
  <2>1. Init => CoverInv
    BY ProcsFacts DEF Init, CoverInv, FreshCopies, AllKnow, SpecCoversStatus, Knows, NoPool
  <2> QED BY <2>1, InitTypes, InitCopies, InitSource, InitOrigin DEF SourceInv
<1>2. TypeOK /\ CoverInv /\ CopyInv /\ UnmadeOK /\ OriginInv /\ [Next]_vars
         => (TypeOK /\ CoverInv /\ CopyInv /\ UnmadeOK /\ OriginInv)'
  <2> SUFFICES ASSUME TypeOK, CoverInv, CopyInv, UnmadeOK, OriginInv, [Next]_vars
               PROVE  TypeOK' /\ CoverInv' /\ CopyInv' /\ UnmadeOK' /\ OriginInv'
    OBVIOUS
  <2> QED BY TypesKept, CoverKept, CopiesKept, OriginKept
<1>3. OriginInv => SnapshotSourceKept
  BY DEF OriginInv
<1> QED BY <1>1, <1>2, <1>3, PTL DEF Spec
=============================================================================
