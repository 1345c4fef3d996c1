-------------------------- MODULE ThinAttachProofs --------------------------
(***************************************************************************)
(* Proofs about ThinAttach, for every number of nodes, copies of any age   *)
(* and any number of restarts, terminations and crashes: its types, and,   *)
(* as long as no clone is made of the volume, that it implements           *)
(* SharedDisk and keeps what NodeStageVolume has promised.                 *)
(***************************************************************************)
EXTENDS ThinAttach, SequenceTheorems, TLAPS

-----------------------------------------------------------------------------
(* Lists of nodes. *)

NoTwice(s) == \A i, j \in 1..Len(s) : s[i] = s[j] => i = j

\* AppendUnique adds a node.
LEMMA AppendFacts ==
    ASSUME NEW S, NEW s \in Seq(S), NEW e \in S, NoTwice(s)
    PROVE  LET r == IF Contains(s, e) THEN s ELSE Append(s, e)
           IN  /\ r \in Seq(S) /\ NoTwice(r)
               /\ \A m : Contains(r, m) <=> Contains(s, m) \/ m = e
<1>1. CASE Contains(s, e)
  BY <1>1
<1>2. CASE ~Contains(s, e)
  <2> DEFINE r == Append(s, e)
  <2>1. /\ r \in Seq(S) /\ Len(r) = Len(s) + 1 /\ Len(s) \in Nat
        /\ \A i \in 1..Len(s) : r[i] = s[i]
        /\ r[Len(s) + 1] = e
    OBVIOUS
  <2> HIDE DEF r
  <2>2. NoTwice(r)
    BY <1>2, <2>1 DEF NoTwice, Contains
  <2>3. \A m : Contains(r, m) <=> Contains(s, m) \/ m = e
    BY <1>2, <2>1 DEF Contains
  <2> QED BY <1>2, <2>1, <2>2, <2>3 DEF r
<1> QED BY <1>1, <1>2

\* RemoveAll takes a node out of a list that names none twice.
LEMMA RemoveFacts ==
    ASSUME NEW S, NEW s \in Seq(S), NEW e, NoTwice(s)
    PROVE  LET r == RemoveFirst(s, e)
           IN  /\ r \in Seq(S) /\ NoTwice(r) /\ Len(s) - Len(r) \in Nat
               /\ \A m : Contains(r, m) <=> Contains(s, m) /\ m # e
<1>1. CASE ~Contains(s, e)
  <2>1. RemoveFirst(s, e) = s
    BY <1>1 DEF RemoveFirst, Contains
  <2>2. Len(s) - Len(s) \in Nat
    OBVIOUS
  <2> QED BY <1>1, <2>1, <2>2
<1>2. CASE Contains(s, e)
  <2>1. PICK k \in 1..Len(s) : s[k] = e
    BY <1>2 DEF Contains
  <2>2. {i \in 1..Len(s) : s[i] = e} = {k}
    BY <2>1 DEF NoTwice
  <2>3. Min({k}) = k
    <3>1. \A x, y \in {k} : x <= y
      BY <2>1
    <3> QED BY <3>1 DEF Min
  <2>4. RemoveFirst(s, e) = RemoveAt(s, k)
    BY <2>1, <2>2, <2>3 DEF RemoveFirst, SelectInSeq
  <2> DEFINE a == SubSeq(s, 1, k - 1)
             b == SubSeq(s, k + 1, Len(s))
             r == a \o b
  <2>5. /\ a \in Seq(S) /\ Len(a) = k - 1
        /\ \A i \in 1..(k - 1) : a[i] = s[i]
    BY <2>1, SubSeqProperties, ElementOfSeq
  <2>6. /\ b \in Seq(S) /\ Len(b) = Len(s) - k
        /\ \A i \in 1..(Len(s) - k) : b[i] = s[k + i]
    BY <2>1, SubSeqProperties, ElementOfSeq
  <2> HIDE DEF a, b
  <2>7. /\ r \in Seq(S) /\ Len(r) = Len(s) - 1
        /\ \A i \in 1..(Len(s) - 1) : r[i] = IF i < k THEN s[i] ELSE s[i + 1]
    <3>1. /\ r \in Seq(S) /\ Len(r) = Len(a) + Len(b)
          /\ \A i \in 1..(Len(a) + Len(b)) : r[i] = IF i <= Len(a) THEN a[i] ELSE b[i - Len(a)]
      BY <2>5, <2>6, ConcatProperties
    <3>2. Len(s) \in Nat /\ k \in 1..Len(s)
      BY <2>1
    <3>3. Len(r) = Len(s) - 1
      BY <2>5, <2>6, <3>1, <3>2
    <3> HIDE DEF r
    <3>4. Len(a) + Len(b) = Len(s) - 1
      BY <2>5, <2>6, <3>2
    <3>5. ASSUME NEW i \in 1..(Len(s) - 1)
          PROVE  r[i] = IF i < k THEN s[i] ELSE s[i + 1]
      <4>0. i \in 1..(Len(a) + Len(b)) /\ r[i] = IF i <= Len(a) THEN a[i] ELSE b[i - Len(a)]
        BY <3>1, <3>4
      <4>1. CASE i < k
        BY <2>5, <3>2, <4>0, <4>1
      <4>2. CASE i >= k
        <5>1. r[i] = b[i - (k - 1)]
          BY <2>5, <3>2, <4>0, <4>2
        <5>2. i - (k - 1) \in 1..(Len(s) - k) /\ k + (i - (k - 1)) = i + 1
          BY <3>2, <4>2
        <5>3. b[i - (k - 1)] = s[k + (i - (k - 1))]
          BY <2>6, <5>2
        <5> QED BY <4>2, <5>1, <5>2, <5>3, <3>2
      <4>3. i < k \/ i >= k
        BY <3>2
      <4> QED BY <4>1, <4>2, <4>3
    <3> QED BY <3>1, <3>3, <3>5
  <2>8. r = RemoveFirst(s, e)
    BY <2>4 DEF a, b, RemoveAt
  <2> HIDE DEF r
  <2>9. NoTwice(r)
    <3> DEFINE at(i) == IF i < k THEN i ELSE i + 1
    <3>1. \A i \in 1..(Len(s) - 1) : at(i) \in 1..Len(s)
      BY <2>1
    <3>2. \A i \in 1..(Len(s) - 1) : r[i] = s[at(i)]
      <4> SUFFICES ASSUME NEW i \in 1..(Len(s) - 1) PROVE r[i] = s[at(i)]
        OBVIOUS
      <4>1. r[i] = IF i < k THEN s[i] ELSE s[i + 1]
        BY <2>7
      <4> QED BY <4>1
    <3>3. \A i, j \in 1..(Len(s) - 1) : at(i) = at(j) => i = j
      BY <2>1
    <3> HIDE DEF at
    <3>4. \A i, j \in 1..(Len(s) - 1) : r[i] = r[j] => i = j
      BY <3>1, <3>2, <3>3 DEF NoTwice
    <3> QED BY <2>7, <3>4 DEF NoTwice
  <2>10. ASSUME NEW m PROVE Contains(r, m) <=> Contains(s, m) /\ m # e
    <3>1. ASSUME Contains(r, m) PROVE Contains(s, m) /\ m # e
      <4>1. PICK i \in 1..(Len(s) - 1) : r[i] = m
        BY <2>7, <3>1 DEF Contains
      <4>2. PICK j \in 1..Len(s) : j # k /\ s[j] = m
        BY <2>1, <2>7, <4>1
      <4> QED BY <2>1, <4>2 DEF Contains, NoTwice
    <3>2. ASSUME Contains(s, m), m # e PROVE Contains(r, m)
      <4>1. PICK i \in 1..Len(s) : s[i] = m
        BY <3>2 DEF Contains
      <4>2. i < k \/ i > k
        BY <2>1, <3>2, <4>1
      <4>3. CASE i < k
        BY <2>1, <2>7, <4>1, <4>3 DEF Contains
      <4>4. CASE i > k
        <5>1. i - 1 \in 1..Len(r) /\ r[i - 1] = m
          BY <2>1, <2>7, <4>1, <4>4
        <5> QED BY <5>1 DEF Contains
      <4> QED BY <4>2, <4>3, <4>4
    <3> QED BY <3>1, <3>2
  <2>11. Len(s) - Len(r) \in Nat
    BY <2>7
  <2> QED BY <2>7, <2>8, <2>9, <2>10, <2>11
<1> QED BY <1>1, <1>2

-----------------------------------------------------------------------------
(* Types. *)

\* The objects and the copies of them.
CopyTypes ==
    /\ vol \in Volume /\ pool \in Pool /\ exports \in [Nodes -> Export]
    /\ seen \in [Nodes -> Copies] /\ xseen \in [Nodes -> Export] /\ pseen \in [Nodes -> Pool]

\* The devices.
DeviceTypes ==
    /\ lvm \in [lock: Names, on: BOOLEAN] /\ (lvm.on => lvm.lock # None)
    /\ dm \in [Nodes -> Wrappers] /\ conn \in [Nodes -> SUBSET Nodes]
    /\ dead \in [Nodes -> SUBSET Nodes] /\ \A n \in Nodes : dead[n] \subseteq conn[n]
    /\ qsd \subseteq Nodes /\ crashed \subseteq Nodes

\* What processes, users and bounds add.
ProcessTypes ==
    /\ joining \subseteq Nodes /\ publishing \subseteq Nodes /\ checkup \subseteq Nodes /\ shut \subseteq Nodes
    /\ csi \in [Nodes -> {"out", "staging", "in", "cancelling", "unstaging"}]

CountTypes ==
    /\ stages \in 0..MaxStages /\ clones \in 0..MaxClones
    /\ restarts \in 0..MaxRestarts /\ terms \in 0..MaxTerms /\ crashes \in 0..MaxCrashes

\* No list names a node twice, which is what RemoveAll and InterestedNodes count on.
Lists == NoTwice(vol.attach) /\ \A n \in Nodes : NoTwice(seen[n].vol.attach)

TypeInv == TypeOK /\ Lists

\* The parts make up the type invariant.
LEMMA TypeParts ==
    /\ TypeInv => CopyTypes /\ Lists /\ DeviceTypes /\ ProcessTypes /\ CountTypes
    /\ CopyTypes' /\ Lists' /\ DeviceTypes' /\ ProcessTypes' /\ CountTypes' /\ cleared' \subseteq Nodes
        => TypeInv'
BY DEF TypeInv, TypeOK, CopyTypes, DeviceTypes, ProcessTypes, CountTypes

\* A node reads copies that have their types.
LEMMA CopyFacts ==
    ASSUME CopyTypes, NEW n \in Nodes
    PROVE  /\ seen[n].vol \in Volume /\ seen[n].pool \in Pool /\ seen[n].exp \in [Nodes -> Export]
           /\ xseen[n] \in Export /\ pseen[n] \in Pool /\ exports[n] \in Export
           /\ \A h \in Nodes : seen[n].exp[h] \in Export
BY DEF CopyTypes, Copies

\* The fields of the objects.
LEMMA VolumeFields ==
    ASSUME NEW v \in Volume
    PROVE  /\ v.attach \in Seq(Nodes) /\ v.attached \subseteq Nodes
           /\ v.export \in Names /\ v.size \in 1..MaxSize
BY DEF Volume

LEMMA PoolFields ==
    ASSUME NEW q \in Pool
    PROVE  /\ q.spec \in {"Inactive", "Active"} /\ q.status \in {"Inactive", "Active"}
           /\ q.node \in Names /\ q.statusNode \in Names
           /\ q.want \in 1..MaxSize /\ q.size \in 1..MaxSize /\ q.clone \in BOOLEAN
BY DEF Pool

LEMMA ExportFields ==
    ASSUME NEW e \in Export
    PROVE  /\ e.phase \in {"none", "live", "deleting"} /\ e.path \in BOOLEAN
           /\ e.clients \subseteq Nodes /\ e.uri \in BOOLEAN /\ e.avail \in BOOLEAN
           /\ e.size \in 0..MaxSize
BY DEF Export

\* The null values have their types.
LEMMA NullTypes == NoExport \in Export /\ NoWrappers \in Wrappers
<1>1. 0 \in 0..MaxSize
  BY BoundsAssumption
<1> QED BY <1>1 DEF NoExport, Export, NoWrappers, Wrappers

\* The export that a node sees is an export.
LEMMA ExportSeenType ==
    ASSUME CopyTypes, NEW n \in Nodes
    PROVE  ExportSeen(n) \in Export
<1>1. seen[n].vol.export \in Names
  BY CopyFacts, VolumeFields
<1> QED BY <1>1, CopyFacts, NullTypes DEF ExportSeen, Names

\* recalcActiveOnNode keeps the type.
LEMMA RecalcType ==
    ASSUME NEW n \in Nodes, NEW q \in Pool
    PROVE  Recalc(n, q) \in Pool /\ Recalc(n, q).clone = q.clone
<1> DEFINE k == IF ~NeedsActivation(q) THEN None ELSE IF q.node = None THEN n ELSE q.node
<1>1. Recalc(n, q) = [q EXCEPT !.node = k]
  BY DEF Recalc
<1>2. k \in Names
  BY PoolFields DEF Names
<1> HIDE DEF k
<1> QED BY <1>1, <1>2 DEF Pool

\* The list that the clean-up leaves behind. Without a pin it is the one of Spec; with a
\* pin the name is gone, so that to take it out again changes nothing.
LEMMA ListFacts ==
    ASSUME CopyTypes, Lists, NEW n \in Nodes
    PROVE  /\ AttachToNodes(n) \in Seq(Names)
           /\ InterestedNodes(seen[n].pool, AttachToNodes(n)) \in Seq(Names)
           /\ ~Pinned(seen[n].pool) =>
                 /\ AttachToNodes(n) = seen[n].vol.attach
                 /\ InterestedNodes(seen[n].pool, AttachToNodes(n)) = seen[n].vol.attach
           /\ Pinned(seen[n].pool) => InterestedNodes(seen[n].pool, AttachToNodes(n)) # <<>>
<1> DEFINE s == seen[n].vol.attach
           q == seen[n].pool
           r == RemoveFirst(s, q.node)
           pad == [i \in 1..(Len(s) - Len(r)) |-> None]
<1>1. s \in Seq(Nodes) /\ s \in Seq(Names) /\ NoTwice(s)
  <2>1. s \in Seq(Nodes) /\ NoTwice(s)
    BY CopyFacts, VolumeFields DEF Lists
  <2>2. Nodes \subseteq Names
    BY DEF Names
  <2> HIDE DEF s
  <2> QED BY <2>1, <2>2
<1>2. q \in Pool /\ q.node \in Names
  BY CopyFacts, PoolFields
<1>3. CASE ~Pinned(q)
  <2>1. AttachToNodes(n) = s
    BY <1>3 DEF AttachToNodes, Mangled
  <2>2. InterestedNodes(q, s) = s
    BY <1>3 DEF InterestedNodes
  <2> QED BY <1>1, <1>3, <2>1, <2>2
<1>4. CASE Pinned(q)
  <2> HIDE DEF s, q
  <2>1. /\ r \in Seq(Names) /\ Len(s) - Len(r) \in Nat
        /\ \A m : Contains(r, m) <=> Contains(s, m) /\ m # q.node
    BY <1>1, RemoveFacts
  <2> HIDE DEF r
  <2>2. pad \in Seq(Names) /\ \A i \in 1..Len(pad) : pad[i] = None
    BY <2>1 DEF Names
  <2>3. Mangled(q, s) = r \o pad
    BY <1>4 DEF Mangled, Others, r
  <2> HIDE DEF pad
  <2>4. r \o pad \in Seq(Names) /\ ~Contains(r \o pad, q.node)
    <3>1. /\ r \o pad \in Seq(Names)
          /\ \A i \in 1..Len(r \o pad) : (r \o pad)[i] \in {r[j] : j \in 1..Len(r)} \cup {pad[j] : j \in 1..Len(pad)}
      BY <2>1, <2>2
    <3>2. q.node # None /\ ~Contains(r, q.node)
      BY <1>4, <2>1 DEF Pinned
    <3> QED BY <2>2, <3>1, <3>2 DEF Contains
  <2>5. AttachToNodes(n) \in {s, r \o pad}
    BY <2>3 DEF AttachToNodes, s, q
  <2>6. RemoveFirst(AttachToNodes(n), q.node) \in Seq(Names)
    <3>1. RemoveFirst(s, q.node) \in Seq(Names)
      BY <2>1 DEF r
    <3>2. RemoveFirst(r \o pad, q.node) = r \o pad
      BY <2>4 DEF RemoveFirst, Contains
    <3> QED BY <2>4, <2>5, <3>1, <3>2
  <2>7. InterestedNodes(q, AttachToNodes(n)) = <<q.node>> \o RemoveFirst(AttachToNodes(n), q.node)
    BY <1>4 DEF InterestedNodes, Others
  <2> DEFINE t == RemoveFirst(AttachToNodes(n), q.node)
  <2>8. t \in Seq(Names)
    BY <2>6
  <2> HIDE DEF t
  <2>9. <<q.node>> \o t \in Seq(Names) /\ <<q.node>> \o t # <<>>
    BY <1>2, <2>8
  <2>10. InterestedNodes(q, AttachToNodes(n)) \in Seq(Names) /\ InterestedNodes(q, AttachToNodes(n)) # <<>>
    BY <2>7, <2>9 DEF t
  <2>11. AttachToNodes(n) \in Seq(Names)
    BY <1>1, <2>4, <2>5
  <2> QED BY <1>4, <2>10, <2>11 DEF q
<1> QED BY <1>3, <1>4

\* A node that finds itself in the list has a list, and is in the one of Spec.
LEMMA OwnName ==
    ASSUME CopyTypes, Lists, NEW n \in Nodes, Contains(AttachToNodes(n), n)
    PROVE  /\ AttachToNodes(n) # <<>>
           /\ InterestedNodes(seen[n].pool, AttachToNodes(n)) # <<>>
<1>1. AttachToNodes(n) # <<>>
  BY DEF Contains
<1> QED BY <1>1, ListFacts

\* What the claim and the release write.
LEMMA ClaimedType ==
    ASSUME CopyTypes, Lists, NEW n \in Nodes, Contains(AttachToNodes(n), n)
    PROVE  ClaimedPool(n) \in Pool /\ ClaimedPool(n).clone = seen[n].pool.clone
<1> DEFINE q == seen[n].pool
           nodes == InterestedNodes(q, AttachToNodes(n))
           p == [q EXCEPT !.spec = "Active", !.node = Head(nodes)]
<1>1. q \in Pool
  BY CopyFacts
<1>2. nodes \in Seq(Names) /\ nodes # <<>>
  BY ListFacts, OwnName
<1>3. ClaimedPool(n) = Recalc(n, p)
  BY DEF ClaimedPool
<1> HIDE DEF q, nodes
<1>4. Head(nodes) \in Names
  BY <1>2
<1>5. p \in Pool /\ p.clone = q.clone
  BY <1>1, <1>4 DEF Pool
<1> HIDE DEF p
<1> QED BY <1>3, <1>5, RecalcType DEF q

LEMMA ReleasedType ==
    ASSUME CopyTypes, Lists, NEW n \in Nodes
    PROVE  ReleasedPool(n) \in Pool /\ ReleasedPool(n).clone = seen[n].pool.clone
<1> DEFINE q == seen[n].pool
           nodes == InterestedNodes(q, AttachToNodes(n))
           state == IF AttachToNodes(n) = <<>> THEN "Inactive" ELSE q.spec
           node == IF nodes = <<>> THEN None ELSE Head(nodes)
           p == [q EXCEPT !.spec = state, !.node = node]
<1>1. q \in Pool
  BY CopyFacts
<1>2. nodes \in Seq(Names)
  BY ListFacts
<1>3. CASE n \in {q.statusNode, q.node}
  <2>1. ReleasedPool(n) = Recalc(n, p)
    BY <1>3 DEF ReleasedPool
  <2> HIDE DEF q, nodes
  <2>2. node \in Names /\ state \in {"Inactive", "Active"}
    BY <1>1, <1>2, PoolFields DEF Names
  <2> HIDE DEF node, state
  <2>3. p \in Pool /\ p.clone = q.clone
    BY <1>1, <2>2 DEF Pool
  <2> HIDE DEF p
  <2> QED BY <2>1, <2>3, RecalcType DEF q
<1>4. CASE n \notin {q.statusNode, q.node}
  <2>1. ReleasedPool(n) = q
    BY <1>4 DEF ReleasedPool
  <2> QED BY <1>1, <2>1
<1> QED BY <1>3, <1>4

\* What updateStatusAttachedToNodes writes.
LEMMA RecordedType ==
    ASSUME CopyTypes, NEW n \in Nodes, NEW attached
    PROVE  LET w == RecordedVolume(n, attached)
           IN  /\ w \in Volume /\ w.attach = seen[n].vol.attach
               /\ attached => w.attached = seen[n].vol.attached \cup {n}
               /\ ~attached => w.attached = seen[n].vol.attached \ {n}
<1> DEFINE v == seen[n].vol
           q == seen[n].pool
           size == IF IsActiveOn(n, q) /\ q.size > v.size THEN q.size ELSE v.size
<1>1. v \in Volume /\ v.attached \subseteq Nodes /\ size \in 1..MaxSize
  BY CopyFacts, VolumeFields, PoolFields
<1>2. attached => RecordedVolume(n, attached) = [v EXCEPT !.attached = v.attached \cup {n}, !.size = size]
  BY DEF RecordedVolume
<1>3. ~attached => RecordedVolume(n, attached) = [v EXCEPT !.attached = v.attached \ {n}]
  BY DEF RecordedVolume
<1> HIDE DEF v, size
<1>4. LET w == [v EXCEPT !.attached = v.attached \cup {n}, !.size = size]
      IN  w \in Volume /\ w.attach = v.attach /\ w.attached = v.attached \cup {n}
  BY <1>1 DEF Volume
<1>5. LET w == [v EXCEPT !.attached = v.attached \ {n}]
      IN  w \in Volume /\ w.attach = v.attach /\ w.attached = v.attached \ {n}
  BY <1>1 DEF Volume
<1> QED BY <1>2, <1>3, <1>4, <1>5 DEF v

\* The wrappers to be loaded: on the thin LV, or on the NBD device of the export's host.
LEMMA TargetType ==
    ASSUME CopyTypes, NEW n \in Nodes
    PROVE  /\ Target(n) \in Wrappers
           /\ Target(n).lower \in {"none", "lv", seen[n].vol.export}
           /\ Target(n).lower = "none" <=> Target(n) = NoWrappers
           /\ Target(n).lower \notin {"none", "lv"} => seen[n].vol.export \in Nodes
           /\ Target(n).lower # "none" => Target(n).live
<1> DEFINE q == seen[n].pool
           e == ExportSeen(n)
           h == seen[n].vol.export
<1>1. q.size \in 0..MaxSize /\ e \in Export /\ h \in Names /\ e.size \in 0..MaxSize
  BY CopyFacts, PoolFields, ExportSeenType, ExportFields, VolumeFields
<1>2. e.uri => h \in Nodes /\ h \notin {"none", "lv"}
  BY <1>1, TablesAssumption DEF ExportSeen, NoExport, Names
<1>3. NoWrappers \in Wrappers /\ NoWrappers.lower = "none"
  BY NullTypes DEF NoWrappers
<1>4. \/ Target(n) = [lower |-> "lv", live |-> TRUE, size |-> q.size]
      \/ e.uri /\ Target(n) = [lower |-> h, live |-> TRUE, size |-> e.size]
      \/ Target(n) = NoWrappers
  BY DEF Target
<1> HIDE DEF q, e, h
<1>5. CASE Target(n) = [lower |-> "lv", live |-> TRUE, size |-> q.size]
  <2>1. Target(n) \in Wrappers
    BY <1>1, <1>5 DEF Wrappers
  <2>2. Target(n).lower = "lv" /\ Target(n).live
    BY <1>5
  <2> QED BY <1>3, <2>1, <2>2
<1>6. CASE e.uri /\ Target(n) = [lower |-> h, live |-> TRUE, size |-> e.size]
  <2>1. Target(n) \in Wrappers
    BY <1>1, <1>2, <1>6 DEF Wrappers
  <2>2. Target(n).lower = h /\ Target(n).live /\ h \in Nodes /\ h # "none"
    BY <1>2, <1>6
  <2> QED BY <1>3, <2>1, <2>2 DEF h
<1>7. CASE Target(n) = NoWrappers
  BY <1>3, <1>7
<1> QED BY <1>4, <1>5, <1>6, <1>7

-----------------------------------------------------------------------------
(* What is known of a node where an effect is due. *)

LEMMA CleanupFacts ==
    ASSUME CopyTypes, NEW n \in Nodes
    PROVE  /\ CleanupDue(n) \in {"none", "clear", "suspend", "leave", "stop", "delete", "wait"}
           /\ CleanupDue(n) = "suspend" => dm[n].lower # "none"
           /\ CleanupDue(n) = "leave" => IsSuspended(n)
<1>1. CASE seen[n].vol.export = None
  <2>1. ExportSeen(n).phase = "none" /\ ~Releases(n)
    BY <1>1 DEF ExportSeen, NoExport, Releases
  <2> QED BY <1>1, <2>1 DEF CleanupDue
<1>2. CASE seen[n].vol.export # None /\ ExportSeen(n).phase = "none"
  <2>1. ~Releases(n)
    BY <1>2 DEF Releases
  <2> QED BY <1>2, <2>1 DEF CleanupDue
<1>3. CASE seen[n].vol.export # None /\ ExportSeen(n).phase # "none"
  <2>1. CASE Releases(n) /\ ~IsSuspended(n)
    <3>1. CleanupDue(n) = "suspend"
      BY <1>3, <2>1 DEF CleanupDue
    <3>2. dm[n].lower # "none"
      BY <2>1 DEF IsSuspended
    <3> QED BY <3>1, <3>2
  <2>2. CASE Releases(n) /\ IsSuspended(n) /\ n \in ExportSeen(n).clients
    BY <1>3, <2>2 DEF CleanupDue
  <2>3. CASE ~(Releases(n) /\ (n \in ExportSeen(n).clients \/ ~IsSuspended(n)))
    <3>1. CleanupDue(n) \in {"none", "stop", "delete", "wait"}
      BY <1>3, <2>3 DEF CleanupDue
    <3> QED BY <3>1
  <2> QED BY <2>1, <2>2, <2>3
<1> QED BY <1>1, <1>2, <1>3

LEMMA AttachFacts ==
    ASSUME CopyTypes, NEW n \in Nodes
    PROVE  /\ AttachDue(n) \in {"claim", "wait", "resume", "join", "connect", "record", "export", "none"}
           /\ AttachDue(n) # "claim" => dm[n].lower # "none"
           /\ AttachDue(n) = "resume" => Target(n).lower = "lv"
<1>1. CASE dm[n].lower = "none" \/ ClaimedPool(n) # seen[n].pool
  BY <1>1 DEF AttachDue
<1>2. CASE ~(dm[n].lower = "none" \/ ClaimedPool(n) # seen[n].pool)
  <2>1. AttachDue(n) \in {"wait", "resume", "join", "connect", "record", "export", "none"}
    BY <1>2 DEF AttachDue
  <2>2. AttachDue(n) = "resume" => Target(n).lower = "lv"
    BY <1>2 DEF AttachDue
  <2> QED BY <1>2, <2>1, <2>2
<1> QED BY <1>1, <1>2

LEMMA DetachFacts ==
    ASSUME NEW n \in Nodes
    PROVE  /\ DetachDue(n) \in {"remove", "release", "wait", "record", "export", "none"}
           /\ DetachDue(n) # "remove" => dm[n].lower = "none"
<1>1. CASE dm[n].lower # "none"
  BY <1>1 DEF DetachDue
<1>2. CASE dm[n].lower = "none"
  BY <1>2 DEF DetachDue
<1> QED BY <1>1, <1>2

\* The node is inside ConnectClient, or the effect is one of the three parts.
LEMMA DueFacts ==
    ASSUME CopyTypes, NEW n \in Nodes
    PROVE  \/ n \in joining /\ VolumeDue(n) = "connect"
           \/ /\ n \notin joining
              /\ VolumeDue(n) \in {"clear", "suspend", "leave", "stop", "delete", "wait"}
              /\ VolumeDue(n) = "suspend" => dm[n].lower # "none"
              /\ VolumeDue(n) = "leave" => IsSuspended(n)
           \/ /\ n \notin joining /\ Contains(AttachToNodes(n), n)
              /\ VolumeDue(n) \in {"claim", "wait", "resume", "join", "connect", "record", "export", "none"}
              /\ VolumeDue(n) # "claim" => dm[n].lower # "none"
              /\ VolumeDue(n) = "resume" => Target(n).lower = "lv"
           \/ /\ n \notin joining /\ ~Contains(AttachToNodes(n), n)
              /\ VolumeDue(n) \in {"remove", "release", "wait", "record", "export", "none"}
              /\ VolumeDue(n) # "remove" => dm[n].lower = "none"
<1>1. CASE n \in joining
  BY <1>1 DEF VolumeDue
<1>2. CASE n \notin joining /\ CleanupDue(n) # "none"
  <2>1. VolumeDue(n) = CleanupDue(n)
    BY <1>2 DEF VolumeDue
  <2> QED BY <1>2, <2>1, CleanupFacts
<1>3. CASE n \notin joining /\ CleanupDue(n) = "none" /\ Contains(AttachToNodes(n), n)
  <2>1. VolumeDue(n) = AttachDue(n)
    BY <1>3 DEF VolumeDue
  <2> QED BY <1>3, <2>1, AttachFacts
<1>4. CASE n \notin joining /\ CleanupDue(n) = "none" /\ ~Contains(AttachToNodes(n), n)
  <2>1. VolumeDue(n) = DetachDue(n)
    BY <1>4 DEF VolumeDue
  <2> QED BY <1>4, <2>1, DetachFacts
<1> QED BY <1>1, <1>2, <1>3, <1>4

-----------------------------------------------------------------------------
(* Updates and refreshes of copies. *)

\* A reconciler's Update, and the refresh of a copy, replace one object's copies by values
\* of its type.
LEMMA SeenVolumeFacts ==
    ASSUME CopyTypes, Lists, NEW n \in Nodes, NEW v \in Volume, NoTwice(v.attach),
           seen' = [seen EXCEPT ![n].vol = v]
    PROVE  /\ seen' \in [Nodes -> Copies]
           /\ \A m \in Nodes : NoTwice(seen'[m].vol.attach)
           /\ \A m \in Nodes : seen'[m].vol = IF m = n THEN v ELSE seen[m].vol
           /\ \A m \in Nodes : seen'[m].pool = seen[m].pool
<1>1. \A m \in Nodes : seen[m] \in Copies
  BY DEF CopyTypes
<1>2. seen' \in [Nodes -> Copies]
  BY <1>1 DEF CopyTypes, Copies
<1>3. \A m \in Nodes : seen'[m].vol = IF m = n THEN v ELSE seen[m].vol
  BY <1>1 DEF CopyTypes, Copies
<1>4. \A m \in Nodes : seen'[m].pool = seen[m].pool
  BY <1>1 DEF CopyTypes, Copies
<1> QED BY <1>2, <1>3, <1>4 DEF Lists

LEMMA SeenPoolFacts ==
    ASSUME CopyTypes, Lists, NEW n \in Nodes, NEW q \in Pool,
           seen' = [seen EXCEPT ![n].pool = q]
    PROVE  /\ seen' \in [Nodes -> Copies]
           /\ \A m \in Nodes : seen'[m].vol = seen[m].vol
           /\ \A m \in Nodes : seen'[m].pool = IF m = n THEN q ELSE seen[m].pool
<1>1. \A m \in Nodes : seen[m] \in Copies
  BY DEF CopyTypes
<1>2. seen' \in [Nodes -> Copies]
  BY <1>1 DEF CopyTypes, Copies
<1>3. \A m \in Nodes : seen'[m].vol = seen[m].vol
  BY <1>1 DEF CopyTypes, Copies
<1>4. \A m \in Nodes : seen'[m].pool = IF m = n THEN q ELSE seen[m].pool
  BY <1>1 DEF CopyTypes, Copies
<1> QED BY <1>2, <1>3, <1>4

LEMMA SeenExportFacts ==
    ASSUME CopyTypes, Lists, NEW n \in Nodes, NEW h, NEW e, h \in Nodes => e \in Export,
           seen' = [seen EXCEPT ![n].exp[h] = e]
    PROVE  /\ seen' \in [Nodes -> Copies]
           /\ \A m \in Nodes : seen'[m].vol = seen[m].vol
           /\ \A m \in Nodes : seen'[m].pool = seen[m].pool
<1>1. \A m \in Nodes : seen[m] \in Copies /\ seen[m].exp \in [Nodes -> Export]
  BY DEF CopyTypes, Copies
<1> DEFINE x == [seen[n].exp EXCEPT ![h] = e]
<1>2. x \in [Nodes -> Export]
  BY <1>1
<1>3. seen' = [seen EXCEPT ![n] = [seen[n] EXCEPT !.exp = x]]
  BY DEF CopyTypes
<1> HIDE DEF x
<1>4. seen' \in [Nodes -> Copies]
  <2>1. [seen[n] EXCEPT !.exp = x] \in Copies
    BY <1>1, <1>2 DEF Copies
  <2> QED BY <1>3, <2>1 DEF CopyTypes
<1>5. \A m \in Nodes : seen'[m].vol = seen[m].vol
  BY <1>1, <1>3 DEF CopyTypes, Copies
<1>6. \A m \in Nodes : seen'[m].pool = seen[m].pool
  BY <1>1, <1>3 DEF CopyTypes, Copies
<1> QED BY <1>4, <1>5, <1>6

LEMMA UpdateVolumeFacts ==
    ASSUME CopyTypes, Lists, NEW n \in Nodes, NEW v \in Volume, v.attach = seen[n].vol.attach,
           UpdateVolume(n, v), UNCHANGED <<pool, exports, xseen, pseen>>
    PROVE  /\ CopyTypes' /\ Lists'
           /\ vol = seen[n].vol /\ vol' = v
           /\ \A m \in Nodes : seen'[m].vol.attach = seen[m].vol.attach
           /\ \A m \in Nodes : seen'[m].pool = seen[m].pool
<1>1. vol = seen[n].vol /\ vol' = v /\ NoTwice(v.attach)
  BY DEF UpdateVolume, Lists
<1>2. CASE seen' = [seen EXCEPT ![n].vol = v]
  <2>1. /\ seen' \in [Nodes -> Copies]
        /\ \A m \in Nodes : NoTwice(seen'[m].vol.attach)
        /\ \A m \in Nodes : seen'[m].vol = IF m = n THEN v ELSE seen[m].vol
        /\ \A m \in Nodes : seen'[m].pool = seen[m].pool
    BY <1>1, <1>2, SeenVolumeFacts
  <2> QED BY <1>1, <2>1 DEF CopyTypes, Lists
<1>3. CASE UNCHANGED seen
  BY <1>1, <1>3 DEF CopyTypes, Lists
<1> QED BY <1>2, <1>3 DEF UpdateVolume

LEMMA UpdatePoolFacts ==
    ASSUME CopyTypes, Lists, NEW n \in Nodes, NEW q \in Pool, q.clone = seen[n].pool.clone,
           UpdatePool(n, q), UNCHANGED <<vol, exports, xseen, pseen>>
    PROVE  /\ CopyTypes' /\ Lists'
           /\ pool = seen[n].pool /\ pool' = q
           /\ \A m \in Nodes : seen'[m].vol = seen[m].vol
           /\ \A m \in Nodes : seen'[m].pool.clone = seen[m].pool.clone
<1>1. pool = seen[n].pool /\ pool' = q
  BY DEF UpdatePool
<1>2. CASE seen' = [seen EXCEPT ![n].pool = q]
  <2>1. /\ seen' \in [Nodes -> Copies]
        /\ \A m \in Nodes : seen'[m].vol = seen[m].vol
        /\ \A m \in Nodes : seen'[m].pool = IF m = n THEN q ELSE seen[m].pool
    BY <1>2, SeenPoolFacts
  <2> QED BY <1>1, <2>1 DEF CopyTypes, Lists
<1>3. CASE UNCHANGED seen
  BY <1>1, <1>3 DEF CopyTypes, Lists
<1> QED BY <1>2, <1>3 DEF UpdatePool

LEMMA UpdateExportFacts ==
    ASSUME CopyTypes, Lists, NEW n \in Nodes, NEW h, NEW e, h \in Nodes => e \in Export,
           UpdateExport(n, h, e), UNCHANGED <<vol, pool, xseen, pseen>>
    PROVE  /\ CopyTypes' /\ Lists'
           /\ \A m \in Nodes : seen'[m].vol = seen[m].vol
           /\ \A m \in Nodes : seen'[m].pool = seen[m].pool
<1>1. exports' \in [Nodes -> Export]
  BY DEF CopyTypes, UpdateExport
<1>2. CASE seen' = [seen EXCEPT ![n].exp[h] = e]
  <2>1. /\ seen' \in [Nodes -> Copies]
        /\ \A m \in Nodes : seen'[m].vol = seen[m].vol
        /\ \A m \in Nodes : seen'[m].pool = seen[m].pool
    BY <1>2, SeenExportFacts
  <2> QED BY <1>1, <2>1 DEF CopyTypes, Lists
<1>3. CASE UNCHANGED seen
  BY <1>1, <1>3 DEF CopyTypes, Lists
<1> QED BY <1>2, <1>3 DEF UpdateExport

\* A client enters or leaves the list of an export's clients.
LEMMA ClientsType ==
    ASSUME CopyTypes, NEW n \in Nodes, NEW h \in Nodes
    PROVE  /\ [seen[n].exp[h] EXCEPT !.clients = @ \cup {n}] \in Export
           /\ [seen[n].exp[h] EXCEPT !.clients = @ \ {n}] \in Export
<1>1. seen[n].exp[h] \in Export
  BY CopyFacts
<1> QED BY <1>1 DEF Export

-----------------------------------------------------------------------------
(* Every step keeps the types. *)

\* The effects of the Volume reconciler keep the types.
LEMMA VolumeTypes ==
    ASSUME CopyTypes, Lists, DeviceTypes, ProcessTypes, CountTypes,
           NEW n \in Nodes, NEW due, due = VolumeDue(n), VolumeEffect(n, due)
    PROVE  CopyTypes' /\ Lists' /\ DeviceTypes' /\ ProcessTypes' /\ CountTypes'
<1>1. CASE Suspend(n, due)
  <2>1. CopyTypes' /\ Lists'
    BY <1>1 DEF Suspend, objects, copies, CopyTypes, Lists
  <2>2. DeviceTypes'
    <3>1. dm[n] \in Wrappers
      BY DEF DeviceTypes
    <3>2. [dm[n] EXCEPT !.lower = "zero", !.live = FALSE] \in Wrappers
      BY <3>1 DEF Wrappers
    <3>3. dm' = [dm EXCEPT ![n] = [dm[n] EXCEPT !.lower = "zero", !.live = FALSE]]
      BY <1>1 DEF Suspend, DeviceTypes
    <3> QED BY <1>1, <3>2, <3>3 DEF Suspend, DeviceTypes
  <2>3. ProcessTypes' /\ CountTypes'
    BY <1>1 DEF Suspend, counts, ProcessTypes, CountTypes
  <2> QED BY <2>1, <2>2, <2>3
<1>2. CASE LeaveExport(n, due)
  <2>1. CopyTypes' /\ Lists'
    <3> DEFINE h == seen[n].vol.export
               e == [seen[n].exp[h] EXCEPT !.clients = @ \ {n}]
    <3>1. h \in Nodes => e \in Export
      BY ClientsType
    <3>2. UpdateExport(n, h, e) \/ UNCHANGED <<exports, seen>>
      BY <1>2 DEF LeaveExport
    <3>3. UNCHANGED <<vol, pool, xseen, pseen>>
      BY <1>2 DEF LeaveExport
    <3> HIDE DEF h, e
    <3>4. CASE UpdateExport(n, h, e)
      BY <3>1, <3>3, <3>4, UpdateExportFacts
    <3>5. CASE UNCHANGED <<exports, seen>>
      BY <3>3, <3>5 DEF CopyTypes, Lists
    <3> QED BY <3>2, <3>4, <3>5
  <2>2. DeviceTypes'
    BY <1>2 DEF LeaveExport, DeviceTypes
  <2>3. ProcessTypes' /\ CountTypes'
    BY <1>2 DEF LeaveExport, counts, ProcessTypes, CountTypes
  <2> QED BY <2>1, <2>2, <2>3
<1>3. CASE RequestStop(n, due)
  <2>1. CopyTypes' /\ Lists'
    <3> DEFINE e == [seen[n].exp[n] EXCEPT !.path = FALSE]
    <3>1. e \in Export
      <4>1. seen[n].exp[n] \in Export
        BY CopyFacts
      <4> QED BY <4>1 DEF Export
    <3>2. UpdateExport(n, n, e) /\ UNCHANGED <<vol, pool, xseen, pseen>>
      BY <1>3 DEF RequestStop
    <3> HIDE DEF e
    <3> QED BY <3>1, <3>2, UpdateExportFacts
  <2>2. DeviceTypes'
    BY <1>3 DEF RequestStop, devices, DeviceTypes
  <2>3. ProcessTypes' /\ CountTypes'
    BY <1>3 DEF RequestStop, counts, ProcessTypes, CountTypes
  <2> QED BY <2>1, <2>2, <2>3
<1>4. CASE DeleteExport(n, due)
  <2>1. CopyTypes' /\ Lists'
    <3>1. exports[n] \in Export /\ [exports[n] EXCEPT !.phase = "deleting"] \in Export
      BY CopyFacts DEF Export
    <3>2. exports' = [exports EXCEPT ![n] = [exports[n] EXCEPT !.phase = "deleting"]]
      BY <1>4 DEF DeleteExport, CopyTypes
    <3> QED BY <1>4, <3>1, <3>2 DEF DeleteExport, copies, CopyTypes, Lists
  <2>2. DeviceTypes'
    BY <1>4 DEF DeleteExport, devices, DeviceTypes
  <2>3. ProcessTypes' /\ CountTypes'
    BY <1>4 DEF DeleteExport, counts, ProcessTypes, CountTypes
  <2> QED BY <2>1, <2>2, <2>3
<1>5. CASE ClearExport(n, due)
  <2>1. CopyTypes' /\ Lists'
    <3> DEFINE v == [seen[n].vol EXCEPT !.export = None]
    <3>1. v \in Volume /\ v.attach = seen[n].vol.attach
      <4>1. seen[n].vol \in Volume
        BY CopyFacts
      <4> QED BY <4>1 DEF Volume, Names
    <3>2. UpdateVolume(n, v) /\ UNCHANGED <<pool, exports, xseen, pseen>>
      BY <1>5 DEF ClearExport
    <3> HIDE DEF v
    <3> QED BY <3>1, <3>2, UpdateVolumeFacts
  <2>2. DeviceTypes'
    BY <1>5 DEF ClearExport, devices, DeviceTypes
  <2>3. ProcessTypes' /\ CountTypes'
    BY <1>5 DEF ClearExport, counts, ProcessTypes, CountTypes
  <2> QED BY <2>1, <2>2, <2>3
<1>6. CASE Attach(n, due)
  <2>1. CopyTypes' /\ Lists'
    <3>1. ClaimedPool(n) \in Pool /\ ClaimedPool(n).clone = seen[n].pool.clone
      <4>1. Contains(AttachToNodes(n), n)
        BY <1>6, DueFacts DEF Attach
      <4> QED BY <4>1, ClaimedType
    <3>2. UpdatePool(n, ClaimedPool(n)) \/ UNCHANGED <<pool, seen>>
      BY <1>6 DEF Attach
    <3>3. UNCHANGED <<vol, exports, xseen, pseen>>
      BY <1>6 DEF Attach
    <3>4. CASE UpdatePool(n, ClaimedPool(n))
      BY <3>1, <3>3, <3>4, UpdatePoolFacts
    <3>5. CASE UNCHANGED <<pool, seen>>
      BY <3>3, <3>5 DEF CopyTypes, Lists
    <3> QED BY <3>2, <3>4, <3>5
  <2>2. DeviceTypes'
    <3> DEFINE w == IF dm[n].lower # "none" THEN dm[n]
                    ELSE [lower |-> "zero", live |-> TRUE, size |-> seen[n].pool.size]
    <3>1. seen[n].pool.size \in 0..MaxSize /\ dm[n] \in Wrappers
      BY CopyFacts, PoolFields DEF DeviceTypes
    <3>2. w \in Wrappers
      BY <3>1 DEF Wrappers
    <3>3. dm' = [dm EXCEPT ![n] = w] /\ UNCHANGED <<lvm, conn, dead, qsd, crashed>>
      BY <1>6 DEF Attach, DeviceTypes
    <3> HIDE DEF w
    <3> QED BY <3>2, <3>3 DEF DeviceTypes
  <2>3. ProcessTypes' /\ CountTypes'
    BY <1>6 DEF Attach, counts, ProcessTypes, CountTypes
  <2> QED BY <2>1, <2>2, <2>3
<1>7. CASE JoinExport(n, due)
  <2>1. CopyTypes' /\ Lists'
    <3> DEFINE h == seen[n].vol.export
               e == [seen[n].exp[h] EXCEPT !.clients = @ \cup {n}]
    <3>1. h \in Nodes => e \in Export
      BY ClientsType
    <3>2. UpdateExport(n, h, e) /\ UNCHANGED <<vol, pool, xseen, pseen>>
      BY <1>7 DEF JoinExport
    <3> HIDE DEF h, e
    <3> QED BY <3>1, <3>2, UpdateExportFacts
  <2>2. DeviceTypes'
    BY <1>7 DEF JoinExport, devices, DeviceTypes
  <2>3. ProcessTypes' /\ CountTypes'
    BY <1>7 DEF JoinExport, counts, ProcessTypes, CountTypes
  <2> QED BY <2>1, <2>2, <2>3
<1>8. CASE ConnectClient(n, due)
  <2>1. CopyTypes' /\ Lists'
    <3> DEFINE h == seen[n].vol.export
               e == [seen[n].exp[h] EXCEPT !.clients = @ \ {n}]
    <3>1. h \in Nodes => e \in Export
      BY ClientsType
    <3>2. UpdateExport(n, h, e) \/ UNCHANGED <<exports, seen>>
      BY <1>8 DEF ConnectClient
    <3>3. UNCHANGED <<vol, pool, xseen, pseen>>
      BY <1>8 DEF ConnectClient
    <3> HIDE DEF h, e
    <3>4. CASE UpdateExport(n, h, e)
      BY <3>1, <3>3, <3>4, UpdateExportFacts
    <3>5. CASE UNCHANGED <<exports, seen>>
      BY <3>3, <3>5 DEF CopyTypes, Lists
    <3> QED BY <3>2, <3>4, <3>5
  <2>2. DeviceTypes'
    <3> DEFINE h == seen[n].vol.export
               w == [lower |-> h, live |-> TRUE, size |-> seen[n].exp[h].size]
    <3>1. CASE h \in conn[n] \cup qsd
      <4>1. h \in Nodes
        BY <3>1 DEF DeviceTypes
      <4>2. w \in Wrappers
        BY <4>1, CopyFacts, ExportFields DEF Wrappers
      <4>3. /\ conn' = [conn EXCEPT ![n] = conn[n] \cup {h}] /\ dm' = [dm EXCEPT ![n] = w]
            /\ UNCHANGED <<lvm, dead, qsd, crashed>>
        BY <1>8, <3>1 DEF ConnectClient, DeviceTypes
      <4> HIDE DEF h, w
      <4> QED BY <4>1, <4>2, <4>3 DEF DeviceTypes
    <3>2. CASE h \notin conn[n] \cup qsd
      <4>1. UNCHANGED <<lvm, dm, conn, dead, qsd, crashed>>
        BY <1>8, <3>2 DEF ConnectClient
      <4> QED BY <4>1 DEF DeviceTypes
    <3> QED BY <3>1, <3>2
  <2>3. ProcessTypes' /\ CountTypes'
    BY <1>8 DEF ConnectClient, counts, ProcessTypes, CountTypes
  <2> QED BY <2>1, <2>2, <2>3
<1>9. CASE Resume(n, due)
  <2>1. CopyTypes' /\ Lists'
    BY <1>9 DEF Resume, objects, copies, CopyTypes, Lists
  <2>2. DeviceTypes'
    BY <1>9, TargetType DEF Resume, DeviceTypes
  <2>3. ProcessTypes' /\ CountTypes'
    BY <1>9 DEF Resume, counts, ProcessTypes, CountTypes
  <2> QED BY <2>1, <2>2, <2>3
<1>10. CASE RemoveWrappers(n, due)
  <2>1. CopyTypes' /\ Lists'
    BY <1>10 DEF RemoveWrappers, objects, copies, CopyTypes, Lists
  <2>2. DeviceTypes'
    BY <1>10, NullTypes DEF RemoveWrappers, DeviceTypes
  <2>3. ProcessTypes' /\ CountTypes'
    BY <1>10 DEF RemoveWrappers, counts, ProcessTypes, CountTypes
  <2> QED BY <2>1, <2>2, <2>3
<1>11. CASE ReleasePool(n, due)
  <2>1. CopyTypes' /\ Lists'
    <3>1. UpdatePool(n, ReleasedPool(n)) /\ UNCHANGED <<vol, exports, xseen, pseen>>
      BY <1>11 DEF ReleasePool
    <3> QED BY <3>1, ReleasedType, UpdatePoolFacts
  <2>2. DeviceTypes'
    BY <1>11 DEF ReleasePool, devices, DeviceTypes
  <2>3. ProcessTypes' /\ CountTypes'
    BY <1>11 DEF ReleasePool, counts, ProcessTypes, CountTypes
  <2> QED BY <2>1, <2>2, <2>3
<1>12. CASE RecordStatus(n, due)
  <2>1. CopyTypes' /\ Lists'
    <3> DEFINE v == RecordedVolume(n, Contains(AttachToNodes(n), n))
    <3>1. v \in Volume /\ v.attach = seen[n].vol.attach
      BY RecordedType
    <3>2. UpdateVolume(n, v) /\ UNCHANGED <<pool, exports, xseen, pseen>>
      BY <1>12 DEF RecordStatus
    <3> HIDE DEF v
    <3> QED BY <3>1, <3>2, UpdateVolumeFacts
  <2>2. DeviceTypes'
    BY <1>12 DEF RecordStatus, devices, DeviceTypes
  <2>3. ProcessTypes' /\ CountTypes'
    BY <1>12 DEF RecordStatus, counts, ProcessTypes, CountTypes
  <2> QED BY <2>1, <2>2, <2>3
<1>13. CASE CreateExport(n, due)
  <2>1. CopyTypes' /\ Lists'
    <3> DEFINE e == [NoExport EXCEPT !.phase = "live", !.path = TRUE, !.size = seen[n].pool.size]
    <3>1. e \in Export
      <4>1. seen[n].pool.size \in 0..MaxSize
        BY CopyFacts, PoolFields
      <4> QED BY <4>1, NullTypes DEF Export
    <3>2. exports' = [exports EXCEPT ![n] = e] /\ UNCHANGED <<vol, pool, seen, xseen, pseen>>
      BY <1>13 DEF CreateExport, copies
    <3> HIDE DEF e
    <3> QED BY <3>1, <3>2 DEF CopyTypes, Lists
  <2>2. DeviceTypes'
    BY <1>13 DEF CreateExport, devices, DeviceTypes
  <2>3. ProcessTypes' /\ CountTypes'
    BY <1>13 DEF CreateExport, counts, ProcessTypes, CountTypes
  <2> QED BY <2>1, <2>2, <2>3
<1>14. CASE NameExport(n, due)
  <2>1. CopyTypes' /\ Lists'
    <3> DEFINE v == [seen[n].vol EXCEPT !.export = n]
    <3>1. v \in Volume /\ v.attach = seen[n].vol.attach
      <4>1. seen[n].vol \in Volume
        BY CopyFacts
      <4> QED BY <4>1 DEF Volume, Names
    <3>2. UpdateVolume(n, v) /\ UNCHANGED <<pool, exports, xseen, pseen>>
      BY <1>14 DEF NameExport
    <3> HIDE DEF v
    <3> QED BY <3>1, <3>2, UpdateVolumeFacts
  <2>2. DeviceTypes'
    BY <1>14 DEF NameExport, devices, DeviceTypes
  <2>3. ProcessTypes' /\ CountTypes'
    BY <1>14 DEF NameExport, counts, ProcessTypes, CountTypes
  <2> QED BY <2>1, <2>2, <2>3
<1> QED BY <1>1, <1>2, <1>3, <1>4, <1>5, <1>6, <1>7, <1>8, <1>9, <1>10, <1>11, <1>12, <1>13, <1>14 DEF VolumeEffect

\* The update of a node's own export, and of the pool by its reconciler.
LEMMA OwnExportFacts ==
    ASSUME CopyTypes, Lists, NEW n \in Nodes, NEW e \in Export,
           UpdateOwnExport(n, e), UNCHANGED <<vol, pool, seen, pseen>>
    PROVE  CopyTypes' /\ Lists'
<1>1. exports' \in [Nodes -> Export] /\ xseen' \in [Nodes -> Export]
  BY DEF CopyTypes, UpdateOwnExport
<1> QED BY <1>1 DEF CopyTypes, Lists

LEMMA OwnPoolFacts ==
    ASSUME CopyTypes, Lists, NEW n \in Nodes, NEW q \in Pool, q.clone = pseen[n].clone,
           UpdateOwnPool(n, q), UNCHANGED <<vol, exports, seen, xseen>>
    PROVE  CopyTypes' /\ Lists' /\ pool'.clone = pool.clone
<1>1. pool' = q /\ pseen[n] = pool /\ pseen' \in [Nodes -> Pool]
  BY DEF CopyTypes, UpdateOwnPool
<1> QED BY <1>1 DEF CopyTypes, Lists

\* The end of a server keeps the types of the connections.
LEMMA CutTypes ==
    ASSUME DeviceTypes, NEW h \in Nodes, Cut(h)
    PROVE  /\ qsd' \subseteq Nodes /\ dead' \in [Nodes -> SUBSET Nodes]
           /\ \A m \in Nodes : dead'[m] \subseteq conn[m]
BY DEF DeviceTypes, Cut

\* The effects of the NBDExport reconciler keep the types.
LEMMA ExportTypes ==
    ASSUME CopyTypes, Lists, DeviceTypes, ProcessTypes, CountTypes,
           NEW n \in Nodes, NEW due, ExportEffect(n, due)
    PROVE  CopyTypes' /\ Lists' /\ DeviceTypes' /\ ProcessTypes' /\ CountTypes'
<1>1. CASE DegradeExport(n, due)
  <2>1. CopyTypes' /\ Lists'
    <3> DEFINE e == [xseen[n] EXCEPT !.avail = FALSE]
    <3>1. e \in Export
      <4>1. xseen[n] \in Export
        BY CopyFacts
      <4> QED BY <4>1, NullTypes DEF Export
    <3>2. UpdateOwnExport(n, e) /\ UNCHANGED <<vol, pool, seen, pseen>>
      BY <1>1 DEF DegradeExport
    <3> HIDE DEF e
    <3> QED BY <3>1, <3>2, OwnExportFacts
  <2>2. DeviceTypes'
    BY <1>1 DEF DegradeExport, devices, DeviceTypes
  <2>3. ProcessTypes' /\ CountTypes'
    BY <1>1 DEF DegradeExport, counts, ProcessTypes, CountTypes
  <2> QED BY <2>1, <2>2, <2>3
<1>2. CASE StartExport(n, due)
  <2>1. CopyTypes' /\ Lists'
    BY <1>2 DEF StartExport, objects, copies, CopyTypes, Lists
  <2>2. DeviceTypes'
    BY <1>2 DEF StartExport, DeviceTypes
  <2>3. ProcessTypes' /\ CountTypes'
    BY <1>2 DEF StartExport, counts, ProcessTypes, CountTypes
  <2> QED BY <2>1, <2>2, <2>3
<1>3. CASE PublishExport(n)
  <2>1. CopyTypes' /\ Lists'
    <3> DEFINE e == [xseen[n] EXCEPT !.uri = TRUE, !.avail = TRUE]
    <3>1. e \in Export
      <4>1. xseen[n] \in Export
        BY CopyFacts
      <4> QED BY <4>1 DEF Export
    <3>2. UpdateOwnExport(n, e) \/ UNCHANGED <<exports, xseen>>
      BY <1>3 DEF PublishExport
    <3>3. UNCHANGED <<vol, pool, seen, pseen>>
      BY <1>3 DEF PublishExport
    <3> HIDE DEF e
    <3>4. CASE UpdateOwnExport(n, e)
      BY <3>1, <3>3, <3>4, OwnExportFacts
    <3>5. CASE UNCHANGED <<exports, xseen>>
      BY <3>3, <3>5 DEF CopyTypes, Lists
    <3> QED BY <3>2, <3>4, <3>5
  <2>2. DeviceTypes'
    BY <1>3 DEF PublishExport, devices, DeviceTypes
  <2>3. ProcessTypes' /\ CountTypes'
    BY <1>3 DEF PublishExport, counts, ProcessTypes, CountTypes
  <2> QED BY <2>1, <2>2, <2>3
<1>4. CASE CheckHealth(n, due)
  <2>1. CopyTypes' /\ Lists'
    <3> DEFINE e == [xseen[n] EXCEPT !.avail = FALSE]
    <3>1. e \in Export
      <4>1. xseen[n] \in Export
        BY CopyFacts
      <4> QED BY <4>1 DEF Export
    <3>2. UpdateOwnExport(n, e) \/ UNCHANGED <<exports, xseen>>
      BY <1>4 DEF CheckHealth
    <3>3. UNCHANGED <<vol, pool, seen, pseen>>
      BY <1>4 DEF CheckHealth
    <3> HIDE DEF e
    <3>4. CASE UpdateOwnExport(n, e)
      BY <3>1, <3>3, <3>4, OwnExportFacts
    <3>5. CASE UNCHANGED <<exports, xseen>>
      BY <3>3, <3>5 DEF CopyTypes, Lists
    <3> QED BY <3>2, <3>4, <3>5
  <2>2. DeviceTypes'
    BY <1>4 DEF CheckHealth, devices, DeviceTypes
  <2>3. ProcessTypes' /\ CountTypes'
    BY <1>4 DEF CheckHealth, counts, ProcessTypes, CountTypes
  <2> QED BY <2>1, <2>2, <2>3
<1>5. CASE StopExport(n, due)
  <2>1. CopyTypes' /\ Lists'
    BY <1>5 DEF StopExport, objects, copies, CopyTypes, Lists
  <2>2. DeviceTypes'
    <3>1. Cut(n)
      BY <1>5 DEF StopExport
    <3>2. UNCHANGED <<lvm, dm, conn>> /\ crashed' \subseteq Nodes
      BY <1>5 DEF StopExport, DeviceTypes
    <3> QED BY <3>1, <3>2, CutTypes DEF DeviceTypes
  <2>3. ProcessTypes' /\ CountTypes'
    BY <1>5 DEF StopExport, counts, ProcessTypes, CountTypes
  <2> QED BY <2>1, <2>2, <2>3
<1>6. CASE RemoveFinalizer(n, due)
  <2>1. CopyTypes' /\ Lists'
    <3> DEFINE e == NoExport
    <3>1. e \in Export
      <4>1. xseen[n] \in Export
        BY CopyFacts
      <4> QED BY <4>1, NullTypes DEF Export
    <3>2. UpdateOwnExport(n, e) /\ UNCHANGED <<vol, pool, seen, pseen>>
      BY <1>6 DEF RemoveFinalizer
    <3> HIDE DEF e
    <3> QED BY <3>1, <3>2, OwnExportFacts
  <2>2. DeviceTypes'
    BY <1>6 DEF RemoveFinalizer, devices, DeviceTypes
  <2>3. ProcessTypes' /\ CountTypes'
    BY <1>6 DEF RemoveFinalizer, counts, ProcessTypes, CountTypes
  <2> QED BY <2>1, <2>2, <2>3
<1> QED BY <1>1, <1>2, <1>3, <1>4, <1>5, <1>6 DEF ExportEffect

\* The effects of the ThinPoolLv reconciler keep the types.
LEMMA PoolTypes ==
    ASSUME CopyTypes, Lists, DeviceTypes, ProcessTypes, CountTypes,
           NEW n \in Nodes, NEW due, PoolEffect(n, due)
    PROVE  CopyTypes' /\ Lists' /\ DeviceTypes' /\ ProcessTypes' /\ CountTypes'
<1>1. CASE ActivatePool(n, due)
  <2>1. CopyTypes' /\ Lists'
    <3> DEFINE q == [pseen[n] EXCEPT !.statusNode = n]
    <3>1. q \in Pool /\ q.clone = pseen[n].clone
      <4>1. pseen[n] \in Pool /\ pseen[n].spec \in {"Inactive", "Active"} /\ pseen[n].want \in 1..MaxSize
        BY CopyFacts, PoolFields
      <4> QED BY <4>1 DEF Pool, Names
    <3>2. UpdateOwnPool(n, q) \/ UNCHANGED <<pool, pseen>>
      BY <1>1 DEF ActivatePool
    <3>3. UNCHANGED <<vol, exports, seen, xseen>>
      BY <1>1 DEF ActivatePool
    <3> HIDE DEF q
    <3>4. CASE UpdateOwnPool(n, q)
      BY <3>1, <3>3, <3>4, OwnPoolFacts
    <3>5. CASE UNCHANGED <<pool, pseen>>
      BY <3>3, <3>5 DEF CopyTypes, Lists
    <3> QED BY <3>2, <3>4, <3>5
  <2>2. DeviceTypes'
    <3>1. lvm' \in [lock: Names, on: BOOLEAN] /\ (lvm'.on => lvm'.lock # None)
      BY <1>1, NodesAssumption DEF ActivatePool, DeviceTypes, Names
    <3>2. UNCHANGED <<dm, conn, dead, qsd, crashed>>
      BY <1>1 DEF ActivatePool
    <3> QED BY <3>1, <3>2 DEF DeviceTypes
  <2>3. ProcessTypes' /\ CountTypes'
    BY <1>1 DEF ActivatePool, counts, ProcessTypes, CountTypes
  <2> QED BY <2>1, <2>2, <2>3
<1>2. CASE DeactivatePool(n, due)
  <2>1. CopyTypes' /\ Lists'
    <3> DEFINE q == [pseen[n] EXCEPT !.statusNode = None, !.status = "Inactive"]
    <3>1. q \in Pool /\ q.clone = pseen[n].clone
      <4>1. pseen[n] \in Pool /\ pseen[n].spec \in {"Inactive", "Active"} /\ pseen[n].want \in 1..MaxSize
        BY CopyFacts, PoolFields
      <4> QED BY <4>1 DEF Pool, Names
    <3>2. UpdateOwnPool(n, q) \/ UNCHANGED <<pool, pseen>>
      BY <1>2 DEF DeactivatePool
    <3>3. UNCHANGED <<vol, exports, seen, xseen>>
      BY <1>2 DEF DeactivatePool
    <3> HIDE DEF q
    <3>4. CASE UpdateOwnPool(n, q)
      BY <3>1, <3>3, <3>4, OwnPoolFacts
    <3>5. CASE UNCHANGED <<pool, pseen>>
      BY <3>3, <3>5 DEF CopyTypes, Lists
    <3> QED BY <3>2, <3>4, <3>5
  <2>2. DeviceTypes'
    <3>1. lvm' \in [lock: Names, on: BOOLEAN] /\ (lvm'.on => lvm'.lock # None)
      BY <1>2, NodesAssumption DEF DeactivatePool, DeviceTypes, Names
    <3>2. UNCHANGED <<dm, conn, dead, qsd, crashed>>
      BY <1>2 DEF DeactivatePool
    <3> QED BY <3>1, <3>2 DEF DeviceTypes
  <2>3. ProcessTypes' /\ CountTypes'
    BY <1>2 DEF DeactivatePool, counts, ProcessTypes, CountTypes
  <2> QED BY <2>1, <2>2, <2>3
<1>3. CASE GrowThinLv(n, due)
  <2>1. CopyTypes' /\ Lists'
    <3> DEFINE q == [pseen[n] EXCEPT !.size = pseen[n].want]
    <3>1. q \in Pool /\ q.clone = pseen[n].clone
      <4>1. pseen[n] \in Pool /\ pseen[n].spec \in {"Inactive", "Active"} /\ pseen[n].want \in 1..MaxSize
        BY CopyFacts, PoolFields
      <4> QED BY <4>1 DEF Pool, Names
    <3>2. UpdateOwnPool(n, q) /\ UNCHANGED <<vol, exports, seen, xseen>>
      BY <1>3 DEF GrowThinLv
    <3> HIDE DEF q
    <3> QED BY <3>1, <3>2, OwnPoolFacts
  <2>2. DeviceTypes'
    BY <1>3 DEF GrowThinLv, devices, DeviceTypes
  <2>3. ProcessTypes' /\ CountTypes'
    BY <1>3 DEF GrowThinLv, counts, ProcessTypes, CountTypes
  <2> QED BY <2>1, <2>2, <2>3
<1>4. CASE MatchThinLv(n, due)
  <2>1. CopyTypes' /\ Lists'
    <3> DEFINE q == [pseen[n] EXCEPT !.status = pseen[n].spec]
    <3>1. q \in Pool /\ q.clone = pseen[n].clone
      <4>1. pseen[n] \in Pool /\ pseen[n].spec \in {"Inactive", "Active"} /\ pseen[n].want \in 1..MaxSize
        BY CopyFacts, PoolFields
      <4> QED BY <4>1 DEF Pool, Names
    <3>2. UpdateOwnPool(n, q) \/ UNCHANGED <<pool, pseen>>
      BY <1>4 DEF MatchThinLv
    <3>3. UNCHANGED <<vol, exports, seen, xseen>>
      BY <1>4 DEF MatchThinLv
    <3> HIDE DEF q
    <3>4. CASE UpdateOwnPool(n, q)
      BY <3>1, <3>3, <3>4, OwnPoolFacts
    <3>5. CASE UNCHANGED <<pool, pseen>>
      BY <3>3, <3>5 DEF CopyTypes, Lists
    <3> QED BY <3>2, <3>4, <3>5
  <2>2. DeviceTypes'
    <3>1. lvm' \in [lock: Names, on: BOOLEAN] /\ (lvm'.on => lvm'.lock # None)
      BY <1>4, NodesAssumption DEF MatchThinLv, DeviceTypes, Names
    <3>2. UNCHANGED <<dm, conn, dead, qsd, crashed>>
      BY <1>4 DEF MatchThinLv
    <3> QED BY <3>1, <3>2 DEF DeviceTypes
  <2>3. ProcessTypes' /\ CountTypes'
    BY <1>4 DEF MatchThinLv, counts, ProcessTypes, CountTypes
  <2> QED BY <2>1, <2>2, <2>3
<1> QED BY <1>1, <1>2, <1>3, <1>4 DEF PoolEffect

\* The refresh of a copy keeps the types.
LEMMA WatchTypes ==
    ASSUME CopyTypes, Lists, DeviceTypes, ProcessTypes, CountTypes,
           NEW n \in Nodes, Watch(n)
    PROVE  CopyTypes' /\ Lists' /\ DeviceTypes' /\ ProcessTypes' /\ CountTypes'
<1>1. CASE SeeVolume(n)
  <2>1. CopyTypes' /\ Lists'
    <3>1. seen' = [seen EXCEPT ![n].vol = vol] /\ UNCHANGED <<objects, xseen, pseen>>
      BY <1>1 DEF SeeVolume
    <3>2. vol \in Volume /\ NoTwice(vol.attach)
      BY DEF CopyTypes, Lists
    <3>3. seen' \in [Nodes -> Copies] /\ \A m \in Nodes : NoTwice(seen'[m].vol.attach)
      BY <3>1, <3>2, SeenVolumeFacts
    <3> QED BY <3>1, <3>3 DEF objects, CopyTypes, Lists
  <2>2. DeviceTypes'
    BY <1>1 DEF SeeVolume, devices, DeviceTypes
  <2>3. ProcessTypes' /\ CountTypes'
    BY <1>1 DEF SeeVolume, counts, ProcessTypes, CountTypes
  <2> QED BY <2>1, <2>2, <2>3
<1>2. CASE SeePool(n)
  <2>1. CopyTypes' /\ Lists'
    <3>1. seen' = [seen EXCEPT ![n].pool = pool] /\ UNCHANGED <<objects, xseen, pseen>>
      BY <1>2 DEF SeePool
    <3>2. pool \in Pool
      BY DEF CopyTypes
    <3>3. seen' \in [Nodes -> Copies] /\ \A m \in Nodes : seen'[m].vol = seen[m].vol
      BY <3>1, <3>2, SeenPoolFacts
    <3> QED BY <3>1, <3>3 DEF objects, CopyTypes, Lists
  <2>2. DeviceTypes'
    BY <1>2 DEF SeePool, devices, DeviceTypes
  <2>3. ProcessTypes' /\ CountTypes'
    BY <1>2 DEF SeePool, counts, ProcessTypes, CountTypes
  <2> QED BY <2>1, <2>2, <2>3
<1>3. CASE SeeOwnExport(n)
  <2>1. CopyTypes' /\ Lists'
    BY <1>3, CopyFacts DEF SeeOwnExport, objects, CopyTypes, Lists
  <2>2. DeviceTypes'
    BY <1>3 DEF SeeOwnExport, devices, DeviceTypes
  <2>3. ProcessTypes' /\ CountTypes'
    BY <1>3 DEF SeeOwnExport, counts, ProcessTypes, CountTypes
  <2> QED BY <2>1, <2>2, <2>3
<1>4. CASE SeeOwnPool(n)
  <2>1. CopyTypes' /\ Lists'
    BY <1>4 DEF SeeOwnPool, objects, copies, CopyTypes, Lists
  <2>2. DeviceTypes'
    BY <1>4 DEF SeeOwnPool, devices, DeviceTypes
  <2>3. ProcessTypes' /\ CountTypes'
    BY <1>4 DEF SeeOwnPool, counts, ProcessTypes, CountTypes
  <2> QED BY <2>1, <2>2, <2>3
<1>5. CASE \E h \in Nodes : SeeExport(n, h)
  <2>1. CopyTypes' /\ Lists'
    <3>1. PICK h \in Nodes : SeeExport(n, h)
      BY <1>5
    <3>2. seen' = [seen EXCEPT ![n].exp[h] = exports[h]] /\ UNCHANGED <<objects, xseen, pseen>>
      BY <3>1 DEF SeeExport
    <3>3. exports[h] \in Export
      BY CopyFacts
    <3>4. seen' \in [Nodes -> Copies] /\ \A m \in Nodes : seen'[m].vol = seen[m].vol
      BY <3>2, <3>3, SeenExportFacts
    <3> QED BY <3>2, <3>4 DEF objects, CopyTypes, Lists
  <2>2. DeviceTypes'
    BY <1>5 DEF SeeExport, devices, DeviceTypes
  <2>3. ProcessTypes' /\ CountTypes'
    BY <1>5 DEF SeeExport, counts, ProcessTypes, CountTypes
  <2> QED BY <2>1, <2>2, <2>3
<1>6. CASE EndReconcile(n)
  BY <1>6 DEF EndReconcile, objects, devices, counts, CopyTypes, Lists, DeviceTypes, ProcessTypes, CountTypes
<1> QED BY <1>1, <1>2, <1>3, <1>4, <1>5, <1>6 DEF Watch

\* Requests, their answers and faults keep the types.
LEMMA UserTypes ==
    ASSUME CopyTypes, Lists, DeviceTypes, ProcessTypes, CountTypes,
           NEW n \in Nodes, Kubelet(n) \/ EndClone(n) \/ User(n) \/ Fault(n)
    PROVE  CopyTypes' /\ Lists' /\ DeviceTypes' /\ ProcessTypes' /\ CountTypes'
<1>1. CASE Stage(n)
  <2>1. CopyTypes' /\ Lists'
    <3> DEFINE a == IF Contains(vol.attach, n) THEN vol.attach ELSE Append(vol.attach, n)
    <3>1. vol \in Volume /\ vol.attach \in Seq(Nodes) /\ NoTwice(vol.attach)
      BY VolumeFields DEF CopyTypes, Lists
    <3>2. a \in Seq(Nodes) /\ NoTwice(a)
      BY <3>1, AppendFacts
    <3>3. vol' = [vol EXCEPT !.attach = a] /\ UNCHANGED <<pool, exports, copies>>
      BY <1>1 DEF Stage
    <3> HIDE DEF a
    <3>4. vol' \in Volume /\ vol'.attach = a
      BY <3>1, <3>2, <3>3 DEF Volume
    <3> QED BY <3>2, <3>3, <3>4 DEF copies, CopyTypes, Lists
  <2>2. DeviceTypes'
    BY <1>1 DEF Stage, devices, DeviceTypes
  <2>3. ProcessTypes' /\ CountTypes'
    BY <1>1, BoundsAssumption DEF Stage, ProcessTypes, CountTypes
  <2> QED BY <2>1, <2>2, <2>3
<1>2. CASE StageReturns(n)
  <2>1. CopyTypes' /\ Lists'
    BY <1>2 DEF StageReturns, objects, copies, CopyTypes, Lists
  <2>2. DeviceTypes'
    BY <1>2 DEF StageReturns, devices, DeviceTypes
  <2>3. ProcessTypes' /\ CountTypes'
    BY <1>2 DEF StageReturns, counts, ProcessTypes, CountTypes
  <2> QED BY <2>1, <2>2, <2>3
<1>3. CASE Unstage(n)
  <2>1. CopyTypes' /\ Lists'
    <3> DEFINE a == RemoveFirst(vol.attach, n)
    <3>1. vol \in Volume /\ vol.attach \in Seq(Nodes) /\ NoTwice(vol.attach)
      BY VolumeFields DEF CopyTypes, Lists
    <3>2. a \in Seq(Nodes) /\ NoTwice(a)
      BY <3>1, RemoveFacts
    <3>3. vol' = [vol EXCEPT !.attach = a] /\ UNCHANGED <<pool, exports, copies>>
      BY <1>3 DEF Unstage
    <3> HIDE DEF a
    <3>4. vol' \in Volume /\ vol'.attach = a
      BY <3>1, <3>2, <3>3 DEF Volume
    <3> QED BY <3>2, <3>3, <3>4 DEF copies, CopyTypes, Lists
  <2>2. DeviceTypes'
    BY <1>3 DEF Unstage, devices, DeviceTypes
  <2>3. ProcessTypes' /\ CountTypes'
    BY <1>3 DEF Unstage, counts, ProcessTypes, CountTypes
  <2> QED BY <2>1, <2>2, <2>3
<1>4. CASE UnstageReturns(n)
  <2>1. CopyTypes' /\ Lists'
    BY <1>4 DEF UnstageReturns, objects, copies, CopyTypes, Lists
  <2>2. DeviceTypes'
    BY <1>4 DEF UnstageReturns, devices, DeviceTypes
  <2>3. ProcessTypes' /\ CountTypes'
    BY <1>4 DEF UnstageReturns, counts, ProcessTypes, CountTypes
  <2> QED BY <2>1, <2>2, <2>3
<1>5. CASE Expand(n)
  <2>1. CopyTypes' /\ Lists'
    <3> DEFINE q == [pool EXCEPT !.want = pool.want + 1]
    <3>1. q \in Pool
      <4>1. pool \in Pool /\ pool.want \in 1..MaxSize /\ pool.want + 1 \in Nat
        BY PoolFields DEF CopyTypes
      <4> QED BY <1>5, <4>1, BoundsAssumption DEF Expand, Pool
    <3>2. pool' = Recalc(n, q) /\ UNCHANGED <<vol, exports, copies>>
      BY <1>5 DEF Expand
    <3> HIDE DEF q
    <3> QED BY <3>1, <3>2, RecalcType DEF copies, CopyTypes, Lists
  <2>2. DeviceTypes'
    BY <1>5 DEF Expand, devices, DeviceTypes
  <2>3. ProcessTypes' /\ CountTypes'
    BY <1>5 DEF Expand, counts, ProcessTypes, CountTypes
  <2> QED BY <2>1, <2>2, <2>3
<1>6. CASE BeginClone(n)
  <2>1. CopyTypes' /\ Lists'
    <3> DEFINE q == [pool EXCEPT !.clone = TRUE]
    <3>1. q \in Pool
      <4>1. pool \in Pool /\ pool.want \in 1..MaxSize /\ pool.want + 1 \in Nat
        BY PoolFields DEF CopyTypes
      <4> QED BY <1>6, <4>1, BoundsAssumption DEF BeginClone, Pool
    <3>2. pool' = Recalc(n, q) /\ UNCHANGED <<vol, exports, copies>>
      BY <1>6 DEF BeginClone
    <3> HIDE DEF q
    <3> QED BY <3>1, <3>2, RecalcType DEF copies, CopyTypes, Lists
  <2>2. DeviceTypes'
    BY <1>6 DEF BeginClone, devices, DeviceTypes
  <2>3. ProcessTypes' /\ CountTypes'
    BY <1>6, BoundsAssumption DEF BeginClone, ProcessTypes, CountTypes
  <2> QED BY <2>1, <2>2, <2>3
<1>7. CASE EndClone(n)
  <2>1. CopyTypes' /\ Lists'
    <3> DEFINE q == [pool EXCEPT !.clone = FALSE]
    <3>1. q \in Pool
      <4>1. pool \in Pool /\ pool.want \in 1..MaxSize /\ pool.want + 1 \in Nat
        BY PoolFields DEF CopyTypes
      <4> QED BY <1>7, <4>1, BoundsAssumption DEF EndClone, Pool
    <3>2. pool' = Recalc(n, q) /\ UNCHANGED <<vol, exports, copies>>
      BY <1>7 DEF EndClone
    <3> HIDE DEF q
    <3> QED BY <3>1, <3>2, RecalcType DEF copies, CopyTypes, Lists
  <2>2. DeviceTypes'
    BY <1>7 DEF EndClone, devices, DeviceTypes
  <2>3. ProcessTypes' /\ CountTypes'
    BY <1>7 DEF EndClone, counts, ProcessTypes, CountTypes
  <2> QED BY <2>1, <2>2, <2>3
<1>8. CASE RestartManager(n)
  <2>1. CopyTypes' /\ Lists'
    BY <1>8 DEF RestartManager, objects, copies, CopyTypes, Lists
  <2>2. DeviceTypes'
    <3>1. conn' = [conn EXCEPT ![n] = conn[n] \ dead[n]] /\ dead' = [dead EXCEPT ![n] = {}]
      BY <1>8 DEF RestartManager, NewProcess, DeviceTypes
    <3>2. UNCHANGED <<lvm, dm, qsd, crashed>>
      BY <1>8 DEF RestartManager
    <3> QED BY <3>1, <3>2 DEF DeviceTypes
  <2>3. ProcessTypes' /\ CountTypes'
    <3>1. /\ joining' = joining \ {n} /\ publishing' = publishing \ {n} /\ checkup' = checkup \cup {n}
      BY <1>8 DEF RestartManager, NewProcess
    <3> QED BY <1>8, <3>1, BoundsAssumption DEF RestartManager, ProcessTypes, CountTypes
  <2> QED BY <2>1, <2>2, <2>3
<1>9. CASE Terminate(n)
  <2>1. CopyTypes' /\ Lists'
    <3> DEFINE b == exports[n].path /\ ~xseen[n].uri
               e == [exports[n] EXCEPT !.path = b]
    <3>1. exports[n] \in Export /\ b \in BOOLEAN
      BY CopyFacts, ExportFields
    <3>2. exports' = [exports EXCEPT ![n] = e] /\ UNCHANGED <<vol, pool, copies>>
      BY <1>9 DEF Terminate, CopyTypes
    <3> HIDE DEF b
    <3>3. e \in Export
      BY <3>1 DEF Export
    <3> HIDE DEF e
    <3> QED BY <3>2, <3>3 DEF copies, CopyTypes, Lists
  <2>2. DeviceTypes'
    BY <1>9 DEF Terminate, devices, DeviceTypes
  <2>3. ProcessTypes' /\ CountTypes'
    BY <1>9, BoundsAssumption DEF Terminate, ProcessTypes, CountTypes
  <2> QED BY <2>1, <2>2, <2>3
<1>10. CASE ReplacePod(n)
  <2>1. CopyTypes' /\ Lists'
    BY <1>10 DEF ReplacePod, objects, copies, CopyTypes, Lists
  <2>2. DeviceTypes'
    <3>1. conn' = [conn EXCEPT ![n] = conn[n] \ dead[n]] /\ dead' = [dead EXCEPT ![n] = {}]
      BY <1>10 DEF ReplacePod, NewProcess, DeviceTypes
    <3>2. UNCHANGED <<lvm, dm, qsd, crashed>>
      BY <1>10 DEF ReplacePod
    <3> QED BY <3>1, <3>2 DEF DeviceTypes
  <2>3. ProcessTypes' /\ CountTypes'
    <3>1. /\ joining' = joining \ {n} /\ publishing' = publishing \ {n} /\ checkup' = checkup \cup {n}
      BY <1>10 DEF ReplacePod, NewProcess
    <3> QED BY <1>10, <3>1 DEF ReplacePod, counts, ProcessTypes, CountTypes
  <2> QED BY <2>1, <2>2, <2>3
<1>11. CASE CrashQsd(n)
  <2>1. CopyTypes' /\ Lists'
    BY <1>11 DEF CrashQsd, objects, copies, CopyTypes, Lists
  <2>2. DeviceTypes'
    <3>1. Cut(n)
      BY <1>11 DEF CrashQsd
    <3>2. UNCHANGED <<lvm, dm, conn>> /\ crashed' \subseteq Nodes
      BY <1>11 DEF CrashQsd, DeviceTypes
    <3> QED BY <3>1, <3>2, CutTypes DEF DeviceTypes
  <2>3. ProcessTypes' /\ CountTypes'
    BY <1>11, BoundsAssumption DEF CrashQsd, ProcessTypes, CountTypes
  <2> QED BY <2>1, <2>2, <2>3
<1> QED BY <1>1, <1>2, <1>3, <1>4, <1>5, <1>6, <1>7, <1>8, <1>9, <1>10, <1>11 DEF Kubelet, User, Fault

\* The initial state.
LEMMA InitTypes == Init => TypeInv
<1> SUFFICES ASSUME Init PROVE TypeInv
  OBVIOUS
<1>1. 1 \in 1..MaxSize /\ None \in Names
  BY BoundsAssumption DEF Names
<1>2. vol \in Volume /\ vol.attach = <<>> /\ pool \in Pool
  BY <1>1 DEF Init, Volume, Pool
<1>3. exports \in [Nodes -> Export]
  BY NullTypes DEF Init
<1>4. seen \in [Nodes -> Copies] /\ \A n \in Nodes : seen[n].vol = vol
  BY <1>2, <1>3 DEF Init, Copies
<1>5. CopyTypes
  BY <1>2, <1>3, <1>4 DEF Init, CopyTypes
<1>6. Lists
  BY <1>2, <1>4 DEF Lists, NoTwice
<1>7. DeviceTypes
  BY <1>1, NullTypes DEF Init, DeviceTypes
<1>8. ProcessTypes /\ CountTypes
  BY BoundsAssumption DEF Init, ProcessTypes, CountTypes
<1>9. cleared \subseteq Nodes
  BY DEF Init
<1> QED BY <1>5, <1>6, <1>7, <1>8, <1>9 DEF TypeInv, TypeOK, CopyTypes, DeviceTypes, ProcessTypes, CountTypes

\* Only the Volume reconciler of a node says that its clean-up goes on.
LEMMA ClearedType ==
    ASSUME cleared \subseteq Nodes, NEW n \in Nodes, SystemStep(n) \/ User(n) \/ Fault(n)
    PROVE  cleared' \subseteq Nodes
<1>1. ASSUME NEW due, VolumeEffect(n, due) PROVE cleared' \subseteq Nodes
  BY <1>1 DEF VolumeEffect, Suspend, LeaveExport, RequestStop, DeleteExport, ClearExport, Attach, UpdatePool,
       JoinExport, ConnectClient, Resume, RemoveWrappers, ReleasePool, RecordStatus, CreateExport, NameExport, copies
<1>2. CASE ExportStep(n) \/ PoolStep(n)
  BY <1>2 DEF ExportStep, ExportEffect, DegradeExport, StartExport, PublishExport, CheckHealth, StopExport,
       RemoveFinalizer, PoolStep, PoolEffect, ActivatePool, DeactivatePool, GrowThinLv, MatchThinLv, copies
<1>3. CASE Watch(n)
  BY <1>3 DEF Watch, SeeVolume, SeePool, SeeExport, SeeOwnExport, SeeOwnPool, EndReconcile
<1>4. CASE Kubelet(n) \/ EndClone(n) \/ User(n) \/ Fault(n)
  BY <1>4 DEF Kubelet, StageReturns, UnstageReturns, ReplacePod, NewProcess, EndClone, User, Stage, Unstage, Expand,
       BeginClone, Fault, RestartManager, Terminate, CrashQsd, copies
<1> QED BY <1>1, <1>2, <1>3, <1>4 DEF SystemStep, VolumeStep

\* Every step keeps the types.
LEMMA NextTypes == TypeInv /\ [Next]_vars => TypeInv'
<1> SUFFICES ASSUME TypeInv, [Next]_vars PROVE TypeInv'
  OBVIOUS
<1>1. CopyTypes /\ Lists /\ DeviceTypes /\ ProcessTypes /\ CountTypes /\ cleared \subseteq Nodes
  BY TypeParts DEF TypeInv, TypeOK
<1>2. CASE Next
  <2>1. PICK n \in Nodes : SystemStep(n) \/ User(n) \/ Fault(n)
    BY <1>2 DEF Next
  <2>2. cleared' \subseteq Nodes
    BY <1>1, <2>1, ClearedType
  <2>3. CASE VolumeStep(n)
    BY <1>1, <2>2, <2>3, TypeParts, VolumeTypes DEF VolumeStep
  <2>4. CASE ExportStep(n)
    BY <1>1, <2>2, <2>4, TypeParts, ExportTypes DEF ExportStep
  <2>5. CASE PoolStep(n)
    BY <1>1, <2>2, <2>5, TypeParts, PoolTypes DEF PoolStep
  <2>6. CASE Watch(n)
    BY <1>1, <2>2, <2>6, TypeParts, WatchTypes
  <2>7. CASE Kubelet(n) \/ EndClone(n) \/ User(n) \/ Fault(n)
    BY <1>1, <2>2, <2>7, TypeParts, UserTypes
  <2> QED BY <2>1, <2>3, <2>4, <2>5, <2>6, <2>7 DEF SystemStep
<1>3. CASE UNCHANGED vars
  <2>1. CopyTypes' /\ Lists' /\ cleared' \subseteq Nodes
    BY <1>1, <1>3 DEF vars, objects, copies, CopyTypes, Lists
  <2>2. DeviceTypes'
    BY <1>1, <1>3 DEF vars, devices, DeviceTypes
  <2>3. ProcessTypes' /\ CountTypes'
    BY <1>1, <1>3 DEF vars, counts, ProcessTypes, CountTypes
  <2> QED BY <2>1, <2>2, <2>3, TypeParts
<1> QED BY <1>2, <1>3

\* Every reachable state is well typed: no reconciler writes an object of another shape,
\* whatever the age of its copies, and in spite of the lists that InterestedNodes mangles.
THEOREM TypeCorrect == Spec => []TypeOK
<1>1. TypeInv => TypeOK
  BY DEF TypeInv
<1> QED BY <1>1, InitTypes, NextTypes, PTL DEF Spec

-----------------------------------------------------------------------------
(* The shared disk. *)

\* No clone is made of the volume, so that no list is mangled.
Uncloned == ~pool.clone /\ \A n \in Nodes : ~seen[n].pool.clone

\* Spec.AttachToNodes lists the nodes where NodeStageVolume is in progress or has returned.
Asks == \A n \in Nodes : Contains(vol.attach, n) <=> csi[n] \in {"staging", "in"}

\* Status.AttachedToNodes answers. A node where it says "attached" in reply to the request
\* there is has its wrappers and a copy that asks for them, so that no reconcile removes
\* them; one where it says "detached" after NodeUnstageVolume has no wrappers and a copy
\* that does not ask for them, so that no reconcile makes them.
Answers(n) ==
    /\ csi[n] = "out" => n \notin vol.attached
    /\ csi[n] = "in" => n \in vol.attached
    /\ csi[n] \in {"staging", "in"} /\ n \in vol.attached =>
          Contains(seen[n].vol.attach, n) /\ dm[n].lower # "none"
    /\ csi[n] = "unstaging" /\ n \notin vol.attached =>
          ~Contains(seen[n].vol.attach, n) /\ dm[n].lower = "none"
    /\ n \in joining => dm[n].lower # "none"
AllAnswer == \A n \in Nodes : Answers(n)

\* Whoever has the device of the thin LV open is where it is active, and a connection that
\* lives has a server.
Backed ==
    \A n \in Nodes :
        /\ dm[n].lower = "lv" \/ n \in qsd => lvm.lock = n /\ lvm.on
        /\ conn[n] \ dead[n] \subseteq qsd

DiskInv == TypeInv /\ Uncloned /\ Asks /\ AllAnswer /\ Backed

\* A node works on the list of Spec as it sees it.
LEMMA PlainList ==
    ASSUME CopyTypes, Lists, Uncloned, NEW n \in Nodes
    PROVE  AttachToNodes(n) = seen[n].vol.attach
<1>1. ~Pinned(seen[n].pool)
  BY DEF Uncloned, Pinned
<1> QED BY <1>1, ListFacts

\* Steps that touch no device and no user leave the disk alone.
LEMMA DiskFrame ==
    ASSUME UNCHANGED <<lvm, dm, conn, dead, csi>>
    PROVE  [Disk!DiskNext]_(Disk!diskVars)
<1>1. UNCHANGED Home
  BY DEF Home
<1>2. UNCHANGED Device
  BY DEF Device, Flows
<1> QED BY <1>1, <1>2 DEF Disk!diskVars

\* The device of a node.
LEMMA DeviceValues ==
    ASSUME NEW n \in Nodes
    PROVE  /\ Device[n] = "absent" <=> dm[n].lower = "none"
           /\ Device[n] = "open" <=> dm[n].lower # "none" /\ Flows(n)
           /\ Device[n] = "paused" <=> dm[n].lower # "none" /\ ~Flows(n)
           /\ Device[n] \in {"absent", "open", "paused"}
           /\ Device'[n] = "absent" <=> dm'[n].lower = "none"
           /\ Device'[n] = "open" <=> dm'[n].lower # "none" /\ Flows(n)'
           /\ Device'[n] = "paused" <=> dm'[n].lower # "none" /\ ~Flows(n)'
           /\ Device'[n] \in {"absent", "open", "paused"}
BY DEF Device

\* A device that is open reaches the thin LV where it is active.
LEMMA OpenIsHome ==
    ASSUME DeviceTypes, Backed, NEW n \in Nodes, Flows(n)
    PROVE  Home \in Nodes /\ lvm.on /\ (dm[Home].lower = "lv" \/ Home \in qsd)
<1>1. CASE dm[n].lower = "lv"
  BY <1>1 DEF Backed, Home
<1>2. CASE dm[n].lower \in conn[n] \ dead[n]
  BY <1>2 DEF Backed, Home, DeviceTypes
<1> QED BY <1>1, <1>2 DEF Flows

\* A step that changes one node's device is one of the disk's if the change is.
LEMMA OneDevice ==
    ASSUME NEW n \in Nodes, UNCHANGED <<lvm, csi>>,
           \A m \in Nodes \ {n} : dm'[m] = dm[m] /\ conn'[m] \ dead'[m] = conn[m] \ dead[m],
           \/ Device'[n] = Device[n]
           \/ Device[n] = "absent" /\ Device'[n] = "paused" /\ csi[n] # "in"
           \/ Device[n] = "paused" /\ Device'[n] = "open" /\ Home # None
           \/ Device[n] = "open" /\ Device'[n] = "paused"
           \/ Device[n] # "absent" /\ Device'[n] = "absent" /\ csi[n] # "in"
    PROVE  [Disk!DiskNext]_(Disk!diskVars)
<1>1. UNCHANGED Home
  BY DEF Home
<1>2. DOMAIN Device = Nodes /\ DOMAIN Device' = Nodes
  BY DEF Device
<1>3. \A m \in Nodes \ {n} : Device'[m] = Device[m]
  BY DEF Device, Flows
<1>4. /\ Device = [m \in Nodes |-> Device[m]]
      /\ Device' = [m \in Nodes |-> IF m = n THEN Device'[n] ELSE Device[m]]
  <2>1. Device' = [m \in Nodes |-> Device'[m]] /\ Device = [m \in Nodes |-> Device[m]]
    BY DEF Device
  <2> QED BY <1>3, <2>1
<1>5. CASE Device'[n] = Device[n]
  <2>1. UNCHANGED Device
    BY <1>4, <1>5
  <2> QED BY <1>1, <2>1 DEF Disk!diskVars
<1>6. CASE Device[n] = "absent" /\ Device'[n] = "paused" /\ csi[n] # "in"
  <2>1. Device' = [Device EXCEPT ![n] = "paused"]
    BY <1>4, <1>6
  <2>2. Disk!Provide(n)
    BY <1>1, <1>6, <2>1 DEF Disk!Provide
  <2> QED BY <2>2 DEF Disk!DiskNext
<1>7. CASE Device[n] = "paused" /\ Device'[n] = "open" /\ Home # None
  <2>1. Device' = [Device EXCEPT ![n] = "open"]
    BY <1>4, <1>7
  <2>2. Disk!OpenDevice(n)
    BY <1>1, <1>7, <2>1 DEF Disk!OpenDevice
  <2> QED BY <2>2 DEF Disk!DiskNext
<1>8. CASE Device[n] = "open" /\ Device'[n] = "paused"
  <2>1. Device' = [m \in Nodes |-> IF m \in {n} THEN "paused" ELSE Device[m]]
    BY <1>4, <1>8
  <2>2. Disk!Pause({n})
    BY <1>1, <1>8, <2>1 DEF Disk!Pause, Disk!Opened
  <2> QED BY <2>2 DEF Disk!DiskNext
<1>9. CASE Device[n] # "absent" /\ Device'[n] = "absent" /\ csi[n] # "in"
  <2>1. Device' = [Device EXCEPT ![n] = "absent"]
    BY <1>4, <1>9
  <2>2. Disk!Withdraw(n)
    BY <1>1, <1>9, <2>1 DEF Disk!Withdraw
  <2> QED BY <2>2 DEF Disk!DiskNext
<1> QED BY <1>5, <1>6, <1>7, <1>8, <1>9

\* The end of a server pauses the devices that were open through it.
LEMMA CutStep ==
    ASSUME DeviceTypes, NEW h \in Nodes, Cut(h), UNCHANGED <<lvm, dm, conn, csi>>
    PROVE  [Disk!DiskNext]_(Disk!diskVars)
<1> DEFINE S == {m \in Nodes : Device[m] = "open" /\ Device'[m] # "open"}
<1>1. UNCHANGED Home
  BY DEF Home
<1>2. \A m \in Nodes : dead[m] \subseteq dead'[m]
  BY DEF Cut, DeviceTypes
<1>3. ASSUME NEW m \in Nodes PROVE Device'[m] = IF m \in S THEN "paused" ELSE Device[m]
  <2>1. dm'[m] = dm[m] /\ (Flows(m)' => Flows(m))
    BY <1>2 DEF Flows
  <2> QED BY <2>1, DeviceValues
<1>4. Device' = [m \in Nodes |-> IF m \in S THEN "paused" ELSE Device[m]]
  <2>1. Device' = [m \in Nodes |-> Device'[m]]
    BY DEF Device
  <2> QED BY <1>3, <2>1
<1>5. CASE S = {}
  <2>1. Device' = Device
    <3>1. Device = [m \in Nodes |-> Device[m]]
      BY DEF Device
    <3> QED BY <1>4, <1>5, <3>1
  <2> QED BY <1>1, <2>1 DEF Disk!diskVars
<1>6. CASE S # {}
  <2>1. S \subseteq Disk!Opened
    BY DEF Disk!Opened
  <2>2. S \in SUBSET Nodes
    OBVIOUS
  <2> HIDE DEF S
  <2>3. Disk!Pause(S)
    BY <1>1, <1>4, <1>6, <2>1 DEF Disk!Pause
  <2> QED BY <2>2, <2>3 DEF Disk!DiskNext
<1> QED BY <1>5, <1>6

\* The thin LV becomes active while it is active nowhere, and inactive while nobody uses it
\* where it is.
LEMMA HomeStep ==
    ASSUME DeviceTypes, DeviceTypes', Backed, NEW n \in Nodes, UNCHANGED <<dm, conn, dead, csi>>,
           \/ Home' = Home
           \/ Home = None /\ Home' = n
           \/ Home = n /\ Home' = None /\ ~InUse(n)
    PROVE  [Disk!DiskNext]_(Disk!diskVars)
<1>1. UNCHANGED Device
  BY DEF Device, Flows
<1>2. CASE Home' = Home
  BY <1>1, <1>2 DEF Disk!diskVars
<1>3. CASE Home = None /\ Home' = n
  <2>1. Disk!Settle(n)
    BY <1>1, <1>3 DEF Disk!Settle
  <2> QED BY <2>1 DEF Disk!DiskNext
<1>4. CASE Home = n /\ Home' = None /\ ~InUse(n)
  <2>1. Disk!Opened = {}
    <3>1. \A m \in Nodes : ~Flows(m)
      BY <1>4, OpenIsHome DEF InUse
    <3> QED BY <3>1, DeviceValues DEF Disk!Opened
  <2>2. Home # None
    BY <1>4, NodesAssumption
  <2>3. Disk!Unsettle
    BY <1>1, <1>4, <2>1, <2>2 DEF Disk!Unsettle
  <2> QED BY <2>3 DEF Disk!DiskNext
<1> QED BY <1>2, <1>3, <1>4

\* The effects of the Volume reconciler.
LEMMA VolumeDisk ==
    ASSUME DiskInv, TypeInv', MaxClones = 0,
           NEW n \in Nodes, NEW due, due = VolumeDue(n), VolumeEffect(n, due)
    PROVE  Uncloned' /\ Asks' /\ AllAnswer' /\ Backed' /\ [Disk!DiskNext]_(Disk!diskVars)
<1>0. /\ CopyTypes /\ Lists /\ DeviceTypes /\ CountTypes /\ DeviceTypes'
      /\ Uncloned /\ Asks /\ AllAnswer /\ Answers(n) /\ Backed
  <2>1. CopyTypes /\ Lists /\ DeviceTypes /\ CountTypes
    BY TypeParts DEF DiskInv
  <2>2. DeviceTypes'
    BY DEF TypeInv, TypeOK, DeviceTypes
  <2>3. Uncloned /\ Asks /\ AllAnswer /\ Answers(n) /\ Backed
    BY DEF DiskInv, AllAnswer
  <2> QED BY <2>1, <2>2, <2>3
<1>1. CASE Suspend(n, due)
  <2>1. /\ dm[n].lower # "none" /\ dm'[n].lower = "zero" /\ dm'[n].live = FALSE
        /\ \A m \in Nodes \ {n} : dm'[m] = dm[m]
    <3>1. dm[n].lower # "none"
      BY <1>0, <1>1, DueFacts DEF Suspend
    <3>2. dm' = [dm EXCEPT ![n] = [dm[n] EXCEPT !.lower = "zero", !.live = FALSE]]
      BY <1>0, <1>1 DEF Suspend, DeviceTypes
    <3>3. dm[n] \in Wrappers
      BY <1>0 DEF DeviceTypes
    <3> QED BY <1>0, <3>1, <3>2, <3>3 DEF DeviceTypes, Wrappers
  <2>2. Uncloned'
    BY <1>0, <1>1 DEF Suspend, objects, copies, Uncloned
  <2>3. Asks'
    BY <1>0, <1>1 DEF Suspend, objects, Asks
  <2>4. AllAnswer'
    BY <1>0, <1>1, <2>1 DEF Suspend, objects, copies, AllAnswer, Answers
  <2>5. Backed'
    BY <1>0, <1>1, <2>1 DEF Suspend, Backed
  <2>6. [Disk!DiskNext]_(Disk!diskVars)
    <3>1. Device[n] \in {"open", "paused"} /\ Device'[n] = "paused"
      BY <2>1, DeviceValues DEF Flows
    <3>2. UNCHANGED <<lvm, csi>> /\ \A m \in Nodes \ {n} : dm'[m] = dm[m] /\ conn'[m] \ dead'[m] = conn[m] \ dead[m]
      BY <1>1 DEF Suspend
    <3> QED BY <3>1, <3>2, OneDevice
  <2> QED BY <2>2, <2>3, <2>4, <2>5, <2>6
<1>2. CASE LeaveExport(n, due)
  <2>1. /\ \A m \in Nodes : seen'[m].vol = seen[m].vol
        /\ \A m \in Nodes : seen'[m].pool = seen[m].pool
    <3> DEFINE h == seen[n].vol.export
               e == [seen[n].exp[h] EXCEPT !.clients = @ \ {n}]
    <3>1. h \in Nodes => e \in Export
      <4>1. h \in Nodes => seen[n].exp[h] \in Export
        BY <1>0, CopyFacts
      <4> QED BY <4>1 DEF Export
    <3>2. UpdateExport(n, h, e) \/ UNCHANGED <<exports, seen>>
      BY <1>2 DEF LeaveExport
    <3>3. UNCHANGED <<vol, pool, xseen, pseen>>
      BY <1>2 DEF LeaveExport
    <3> HIDE DEF h, e
    <3>4. CASE UpdateExport(n, h, e)
      BY <1>0, <3>1, <3>3, <3>4, UpdateExportFacts
    <3> QED BY <3>2, <3>4
  <2>2. Uncloned'
    BY <1>0, <1>2, <2>1 DEF LeaveExport, Uncloned
  <2>3. Asks'
    BY <1>0, <1>2 DEF LeaveExport, objects, Asks
  <2>4. AllAnswer'
    BY <1>0, <1>2, <2>1 DEF LeaveExport, AllAnswer, Answers
  <2>5. Backed'
    BY <1>0, <1>2, SMTT(30) DEF LeaveExport, Backed, DeviceTypes
  <2>6. [Disk!DiskNext]_(Disk!diskVars)
    <3>1. IsSuspended(n) /\ dm' = dm
      BY <1>0, <1>2, DueFacts DEF LeaveExport
    <3>2. UNCHANGED <<lvm, csi>>
      BY <1>2 DEF LeaveExport
    <3>3. \A m \in Nodes \ {n} : dm'[m] = dm[m] /\ conn'[m] \ dead'[m] = conn[m] \ dead[m]
      BY <1>0, <1>2 DEF LeaveExport, DeviceTypes
    <3>4. Device'[n] = Device[n]
      <4>1. dm'[n].lower = dm[n].lower /\ (dm[n].lower # "none" => ~Flows(n) /\ ~Flows(n)')
        BY <3>1 DEF IsSuspended, Flows
      <4> QED BY <4>1, DeviceValues
    <3> QED BY <3>2, <3>3, <3>4, OneDevice
  <2> QED BY <2>2, <2>3, <2>4, <2>5, <2>6
<1>3. CASE RequestStop(n, due)
  <2>1. /\ \A m \in Nodes : seen'[m].vol = seen[m].vol
        /\ \A m \in Nodes : seen'[m].pool = seen[m].pool
    <3> DEFINE e == [seen[n].exp[n] EXCEPT !.path = FALSE]
    <3>1. e \in Export
      <4>1. seen[n].exp[n] \in Export
        BY <1>0, CopyFacts
      <4> QED BY <4>1 DEF Export
    <3>2. UpdateExport(n, n, e)
      BY <1>3 DEF RequestStop
    <3>3. UNCHANGED <<vol, pool, xseen, pseen>>
      BY <1>3 DEF RequestStop
    <3> HIDE DEF e
    <3> QED BY <1>0, <3>1, <3>2, <3>3, UpdateExportFacts
  <2>2. Uncloned'
    BY <1>0, <1>3, <2>1 DEF RequestStop, Uncloned
  <2>3. Asks'
    BY <1>0, <1>3 DEF RequestStop, objects, Asks
  <2>4. AllAnswer'
    BY <1>0, <1>3, <2>1 DEF RequestStop, devices, AllAnswer, Answers
  <2>5. Backed'
    BY <1>0, <1>3 DEF RequestStop, devices, Backed
  <2>6. [Disk!DiskNext]_(Disk!diskVars)
    BY <1>3, DiskFrame DEF RequestStop, devices
  <2> QED BY <2>2, <2>3, <2>4, <2>5, <2>6
<1>4. CASE DeleteExport(n, due)
  <2>1. Uncloned'
    BY <1>0, <1>4 DEF DeleteExport, objects, copies, Uncloned
  <2>2. Asks'
    BY <1>0, <1>4 DEF DeleteExport, objects, Asks
  <2>3. AllAnswer'
    BY <1>0, <1>4 DEF DeleteExport, objects, copies, devices, AllAnswer, Answers
  <2>4. Backed'
    BY <1>0, <1>4 DEF DeleteExport, devices, Backed
  <2>5. [Disk!DiskNext]_(Disk!diskVars)
    BY <1>4, DiskFrame DEF DeleteExport, devices
  <2> QED BY <2>1, <2>2, <2>3, <2>4, <2>5
<1>5. CASE ClearExport(n, due)
  <2>1. /\ vol = seen[n].vol /\ vol'.attach = vol.attach /\ vol'.attached = vol.attached
        /\ \A m \in Nodes : seen'[m].vol.attach = seen[m].vol.attach
        /\ \A m \in Nodes : seen'[m].pool = seen[m].pool
    <3> DEFINE v == [seen[n].vol EXCEPT !.export = None]
    <3>1. seen[n].vol \in Volume
      BY <1>0, CopyFacts
    <3>2. v \in Volume /\ v.attach = seen[n].vol.attach /\ v.attached = seen[n].vol.attached
      BY <3>1 DEF Volume, Names
    <3>3. UpdateVolume(n, v) /\ UNCHANGED <<pool, exports, xseen, pseen>>
      BY <1>5 DEF ClearExport
    <3> HIDE DEF v
    <3> QED BY <1>0, <3>2, <3>3, UpdateVolumeFacts
  <2>2. Uncloned'
    BY <1>0, <1>5, <2>1 DEF ClearExport, Uncloned
  <2>3. Asks'
    BY <1>0, <1>5, <2>1 DEF ClearExport, Asks
  <2>4. AllAnswer'
    BY <1>0, <1>5, <2>1 DEF ClearExport, devices, AllAnswer, Answers
  <2>5. Backed'
    BY <1>0, <1>5 DEF ClearExport, devices, Backed
  <2>6. [Disk!DiskNext]_(Disk!diskVars)
    BY <1>5, DiskFrame DEF ClearExport, devices
  <2> QED BY <2>2, <2>3, <2>4, <2>5, <2>6
<1>6. CASE Attach(n, due)
  <2>1. Contains(AttachToNodes(n), n) /\ Contains(seen[n].vol.attach, n)
    <3>1. Contains(AttachToNodes(n), n)
      BY <1>0, <1>6, DueFacts DEF Attach
    <3> QED BY <1>0, <3>1, PlainList
  <2>2. /\ pool'.clone = pool.clone
        /\ \A m \in Nodes : seen'[m].vol = seen[m].vol
        /\ \A m \in Nodes : seen'[m].pool.clone = seen[m].pool.clone
    <3>1. ClaimedPool(n) \in Pool /\ ClaimedPool(n).clone = seen[n].pool.clone
      BY <1>0, <2>1, ClaimedType
    <3>2. UpdatePool(n, ClaimedPool(n)) \/ UNCHANGED <<pool, seen>>
      BY <1>6 DEF Attach
    <3>3. UNCHANGED <<vol, exports, xseen, pseen>>
      BY <1>6 DEF Attach
    <3>4. CASE UpdatePool(n, ClaimedPool(n))
      BY <1>0, <3>1, <3>3, <3>4, UpdatePoolFacts
    <3> QED BY <3>2, <3>4
  <2>3. /\ IF dm[n].lower = "none" THEN dm'[n].lower = "zero" ELSE dm'[n] = dm[n]
        /\ \A m \in Nodes \ {n} : dm'[m] = dm[m]
    BY <1>0, <1>6 DEF Attach, DeviceTypes
  <2>4. Uncloned'
    BY <1>0, <1>6, <2>2 DEF Attach, Uncloned
  <2>5. Asks'
    BY <1>0, <1>6 DEF Attach, objects, Asks
  <2>6. AllAnswer'
    <3>1. UNCHANGED <<vol, csi, joining>>
      BY <1>6 DEF Attach
    <3>2. Answers(n)'
      BY <1>0, <2>2, <2>1, <2>3, <3>1 DEF Answers
    <3>3. \A m \in Nodes \ {n} : Answers(m)'
      BY <1>0, <2>2, <2>3, <3>1 DEF AllAnswer, Answers
    <3> QED BY <3>2, <3>3 DEF AllAnswer
  <2>7. Backed'
    BY <1>0, <1>6, <2>3 DEF Attach, Backed
  <2>8. [Disk!DiskNext]_(Disk!diskVars)
    <3>1. UNCHANGED <<lvm, conn, dead, csi>>
      BY <1>6 DEF Attach
    <3>2. CASE dm[n].lower # "none"
      <4>1. Device'[n] = Device[n]
        BY <2>3, <3>1, <3>2 DEF Device, Flows
      <4> QED BY <2>3, <3>1, <4>1, OneDevice
    <3>3. CASE dm[n].lower = "none"
      <4>1. ~Flows(n)'
        BY <1>0, <2>3, <3>1, <3>3, TablesAssumption DEF Flows, DeviceTypes
      <4>2. Device[n] = "absent" /\ Device'[n] = "paused"
        BY <2>3, <3>3, <4>1, DeviceValues
      <4>3. csi[n] # "in"
        BY <1>0, <3>3 DEF Answers
      <4> QED BY <2>3, <3>1, <4>2, <4>3, OneDevice
    <3> QED BY <3>2, <3>3
  <2> QED BY <2>4, <2>5, <2>6, <2>7, <2>8
<1>7. CASE JoinExport(n, due)
  <2>1. /\ \A m \in Nodes : seen'[m].vol = seen[m].vol
        /\ \A m \in Nodes : seen'[m].pool = seen[m].pool
    <3> DEFINE h == seen[n].vol.export
               e == [seen[n].exp[h] EXCEPT !.clients = @ \cup {n}]
    <3>1. h \in Nodes => e \in Export
      <4>1. h \in Nodes => seen[n].exp[h] \in Export
        BY <1>0, CopyFacts
      <4> QED BY <4>1 DEF Export
    <3>2. UpdateExport(n, h, e)
      BY <1>7 DEF JoinExport
    <3>3. UNCHANGED <<vol, pool, xseen, pseen>>
      BY <1>7 DEF JoinExport
    <3> HIDE DEF h, e
    <3> QED BY <1>0, <3>1, <3>2, <3>3, UpdateExportFacts
  <2>2. dm[n].lower # "none"
    BY <1>0, <1>7, DueFacts DEF JoinExport
  <2>3. Uncloned'
    BY <1>0, <1>7, <2>1 DEF JoinExport, Uncloned
  <2>4. Asks'
    BY <1>0, <1>7 DEF JoinExport, objects, Asks
  <2>5. AllAnswer'
    BY <1>0, <1>7, <2>1, <2>2 DEF JoinExport, devices, AllAnswer, Answers
  <2>6. Backed'
    BY <1>0, <1>7 DEF JoinExport, devices, Backed
  <2>7. [Disk!DiskNext]_(Disk!diskVars)
    BY <1>7, DiskFrame DEF JoinExport, devices
  <2> QED BY <2>3, <2>4, <2>5, <2>6, <2>7
<1>8. CASE ConnectClient(n, due)
  <2>1. /\ \A m \in Nodes : seen'[m].vol = seen[m].vol
        /\ \A m \in Nodes : seen'[m].pool = seen[m].pool
    <3> DEFINE h == seen[n].vol.export
               e == [seen[n].exp[h] EXCEPT !.clients = @ \ {n}]
    <3>1. h \in Nodes => e \in Export
      <4>1. h \in Nodes => seen[n].exp[h] \in Export
        BY <1>0, CopyFacts
      <4> QED BY <4>1 DEF Export
    <3>2. UpdateExport(n, h, e) \/ UNCHANGED <<exports, seen>>
      BY <1>8 DEF ConnectClient
    <3>3. UNCHANGED <<vol, pool, xseen, pseen>>
      BY <1>8 DEF ConnectClient
    <3> HIDE DEF h, e
    <3>4. CASE UpdateExport(n, h, e)
      BY <1>0, <3>1, <3>3, <3>4, UpdateExportFacts
    <3> QED BY <3>2, <3>4
  <2>2. dm[n].lower # "none"
    BY <1>0, <1>8, DueFacts DEF ConnectClient, Answers
  <2>3. /\ \A m \in Nodes \ {n} : dm'[m] = dm[m] /\ conn'[m] = conn[m]
        /\ UNCHANGED <<vol, csi, lvm, dead, qsd>> /\ joining' \subseteq joining
    <3>1. \A m \in Nodes \ {n} : dm'[m] = dm[m]
      BY <1>0, <1>8 DEF ConnectClient, DeviceTypes
    <3>2. \A m \in Nodes \ {n} : conn'[m] = conn[m]
      BY <1>0, <1>8 DEF ConnectClient, DeviceTypes
    <3>3. UNCHANGED <<vol, csi, lvm, dead, qsd>> /\ joining' \subseteq joining
      BY <1>8 DEF ConnectClient
    <3> QED BY <3>1, <3>2, <3>3
  <2>4. \/ dm'[n] = dm[n] /\ conn'[n] = conn[n]
        \/ \E h \in conn[n] \cup qsd : dm'[n].lower = h /\ dm'[n].live /\ conn'[n] = conn[n] \cup {h}
    <3> DEFINE h == seen[n].vol.export
    <3>1. CASE h \in conn[n] \cup qsd
      <4>1. conn'[n] = conn[n] \cup {h} /\ dm'[n] = [lower |-> h, live |-> TRUE, size |-> seen[n].exp[h].size]
        BY <1>0, <1>8, <3>1 DEF ConnectClient, DeviceTypes
      <4> HIDE DEF h
      <4> QED BY <3>1, <4>1
    <3>2. CASE h \notin conn[n] \cup qsd
      BY <1>8, <3>2 DEF ConnectClient
    <3> QED BY <3>1, <3>2
  <2>5. \A h \in conn[n] \cup qsd : h \in Nodes /\ h \notin {"none", "lv", "zero"}
    BY <1>0, TablesAssumption DEF DeviceTypes
  <2>6. Uncloned'
    BY <1>0, <1>8, <2>1 DEF ConnectClient, Uncloned
  <2>7. Asks'
    BY <1>0, <1>8 DEF ConnectClient, objects, Asks
  <2>8. AllAnswer'
    <3>1. dm'[n].lower # "none"
      BY <2>2, <2>4, <2>5
    <3>2. Answers(n)'
      BY <1>0, <2>1, <2>2, <2>3, <3>1 DEF Answers
    <3>3. \A m \in Nodes \ {n} : Answers(m)'
      BY <1>0, <2>1, <2>3 DEF AllAnswer, Answers
    <3> QED BY <3>2, <3>3 DEF AllAnswer
  <2>9. Backed'
    <3>1. \A m \in Nodes : dm'[m].lower = "lv" => dm[m].lower = "lv"
      BY <2>3, <2>4, <2>5
    <3>2. conn'[n] \ dead'[n] \subseteq qsd'
      BY <1>0, <2>3, <2>4 DEF Backed
    <3> QED BY <1>0, <2>3, <3>1, <3>2 DEF Backed
  <2>10. [Disk!DiskNext]_(Disk!diskVars)
    <3>1. UNCHANGED <<lvm, csi>> /\ \A m \in Nodes \ {n} : dm'[m] = dm[m] /\ conn'[m] \ dead'[m] = conn[m] \ dead[m]
      BY <2>3
    <3>2. Device[n] \in {"open", "paused"}
      BY <2>2, DeviceValues
    <3>3. CASE dm'[n] = dm[n] /\ conn'[n] = conn[n]
      <4>1. Device'[n] = Device[n]
        BY <2>3, <3>3 DEF Device, Flows
      <4> QED BY <3>1, <4>1, OneDevice
    <3>4. ASSUME NEW h \in conn[n] \cup qsd, dm'[n].lower = h, dm'[n].live, conn'[n] = conn[n] \cup {h}
          PROVE  [Disk!DiskNext]_(Disk!diskVars)
      <4>1. Flows(n)' => h \notin dead[n]
        BY <2>3, <2>5, <3>4 DEF Flows
      <4>2. h \notin dead[n] => Home # None
        BY <1>0, <2>5, NodesAssumption DEF Backed, Home
      <4>3. Device'[n] \in {"open", "paused"} /\ (Device'[n] = "open" => Flows(n)')
        BY <2>5, <3>4, DeviceValues
      <4> QED BY <3>1, <3>2, <4>1, <4>2, <4>3, OneDevice
    <3> QED BY <2>4, <3>3, <3>4
  <2> QED BY <2>6, <2>7, <2>8, <2>9, <2>10
<1>9. CASE Resume(n, due)
  <2>1. dm[n].lower # "none" /\ Target(n).lower = "lv" /\ Target(n).live
    BY <1>0, <1>9, DueFacts, TargetType DEF Resume
  <2>2. /\ dm'[n] = Target(n) /\ \A m \in Nodes \ {n} : dm'[m] = dm[m]
        /\ lvm.lock = n /\ lvm.on
    BY <1>0, <1>9 DEF Resume, DeviceTypes
  <2>3. Uncloned'
    BY <1>0, <1>9 DEF Resume, objects, copies, Uncloned
  <2>4. Asks'
    BY <1>0, <1>9 DEF Resume, objects, Asks
  <2>5. AllAnswer'
    BY <1>0, <1>9, <2>1, <2>2 DEF Resume, objects, copies, AllAnswer, Answers
  <2>6. Backed'
    BY <1>0, <1>9, <2>2 DEF Resume, Backed
  <2>7. [Disk!DiskNext]_(Disk!diskVars)
    <3>1. UNCHANGED <<lvm, conn, dead, csi>>
      BY <1>9 DEF Resume
    <3>2. Device[n] \in {"open", "paused"} /\ Device'[n] = "open"
      BY <2>1, <2>2, DeviceValues DEF Flows
    <3>3. Home # None
      BY <2>2, NodesAssumption DEF Home
    <3> QED BY <2>2, <3>1, <3>2, <3>3, OneDevice
  <2> QED BY <2>3, <2>4, <2>5, <2>6, <2>7
<1>10. CASE RemoveWrappers(n, due)
  <2>1. n \notin joining /\ ~Contains(seen[n].vol.attach, n)
    <3>1. n \notin joining /\ ~Contains(AttachToNodes(n), n)
      BY <1>0, <1>10, DueFacts DEF RemoveWrappers
    <3> QED BY <1>0, <3>1, PlainList
  <2>2. dm'[n].lower = "none" /\ \A m \in Nodes \ {n} : dm'[m] = dm[m]
    BY <1>0, <1>10 DEF RemoveWrappers, DeviceTypes, NoWrappers
  <2>3. Uncloned'
    BY <1>0, <1>10 DEF RemoveWrappers, objects, copies, Uncloned
  <2>4. Asks'
    BY <1>0, <1>10 DEF RemoveWrappers, objects, Asks
  <2>5. AllAnswer'
    BY <1>0, <1>10, <2>1, <2>2 DEF RemoveWrappers, objects, copies, AllAnswer, Answers
  <2>6. Backed'
    BY <1>0, <1>10, <2>2 DEF RemoveWrappers, Backed
  <2>7. [Disk!DiskNext]_(Disk!diskVars)
    <3>1. UNCHANGED <<lvm, conn, dead, csi>>
      BY <1>10 DEF RemoveWrappers
    <3>2. Device'[n] = "absent" /\ csi[n] # "in"
      BY <1>0, <2>1, <2>2, DeviceValues DEF Answers
    <3> QED BY <2>2, <3>1, <3>2, OneDevice
  <2> QED BY <2>3, <2>4, <2>5, <2>6, <2>7
<1>11. CASE ReleasePool(n, due)
  <2>1. /\ pool'.clone = pool.clone
        /\ \A m \in Nodes : seen'[m].vol = seen[m].vol
        /\ \A m \in Nodes : seen'[m].pool.clone = seen[m].pool.clone
    <3>1. ReleasedPool(n) \in Pool /\ ReleasedPool(n).clone = seen[n].pool.clone
      BY <1>0, ReleasedType
    <3>2. UpdatePool(n, ReleasedPool(n))
      BY <1>11 DEF ReleasePool
    <3>3. UNCHANGED <<vol, exports, xseen, pseen>>
      BY <1>11 DEF ReleasePool
    <3> QED BY <1>0, <3>1, <3>2, <3>3, UpdatePoolFacts
  <2>2. Uncloned'
    BY <1>0, <1>11, <2>1 DEF ReleasePool, Uncloned
  <2>3. Asks'
    BY <1>0, <1>11 DEF ReleasePool, objects, Asks
  <2>4. AllAnswer'
    BY <1>0, <1>11, <2>1 DEF ReleasePool, devices, AllAnswer, Answers
  <2>5. Backed'
    BY <1>0, <1>11 DEF ReleasePool, devices, Backed
  <2>6. [Disk!DiskNext]_(Disk!diskVars)
    BY <1>11, DiskFrame DEF ReleasePool, devices
  <2> QED BY <2>2, <2>3, <2>4, <2>5, <2>6
<1>12. CASE RecordStatus(n, due)
  <2> DEFINE asked == Contains(seen[n].vol.attach, n)
  <2>1. /\ AttachToNodes(n) = seen[n].vol.attach
        /\ asked => dm[n].lower # "none"
        /\ ~asked => dm[n].lower = "none"
    <3>1. AttachToNodes(n) = seen[n].vol.attach
      BY <1>0, PlainList
    <3> QED BY <1>0, <3>1, <1>12, DueFacts DEF RecordStatus
  <2>2. /\ vol = seen[n].vol /\ vol'.attach = vol.attach
        /\ asked => vol'.attached = vol.attached \cup {n}
        /\ ~asked => vol'.attached = vol.attached \ {n}
        /\ \A m \in Nodes : seen'[m].vol.attach = seen[m].vol.attach
        /\ \A m \in Nodes : seen'[m].pool = seen[m].pool
    <3> DEFINE v == RecordedVolume(n, asked)
    <3>1. /\ v \in Volume /\ v.attach = seen[n].vol.attach
          /\ asked => v.attached = seen[n].vol.attached \cup {n}
          /\ ~asked => v.attached = seen[n].vol.attached \ {n}
      BY <1>0, RecordedType
    <3>2. UpdateVolume(n, v) /\ UNCHANGED <<pool, exports, xseen, pseen>>
      BY <1>12, <2>1 DEF RecordStatus
    <3> HIDE DEF v, asked
    <3> QED BY <1>0, <3>1, <3>2, UpdateVolumeFacts
  <2>3. asked <=> csi[n] \in {"staging", "in"}
    BY <1>0, <2>2 DEF Asks
  <2>4. Uncloned'
    BY <1>0, <1>12, <2>2 DEF RecordStatus, Uncloned
  <2>5. Asks'
    BY <1>0, <1>12, <2>2 DEF RecordStatus, Asks
  <2>6. AllAnswer'
    <3>1. UNCHANGED <<dm, csi, joining>>
      BY <1>12 DEF RecordStatus, devices
    <3>2. Answers(n)'
      <4>1. CASE asked
        <5>1. n \in vol'.attached
          BY <2>2, <4>1
        <5> QED BY <1>0, <2>1, <2>2, <2>3, <3>1, <4>1, <5>1 DEF Answers
      <4>2. CASE ~asked
        <5>1. n \notin vol'.attached
          BY <2>2, <4>2
        <5> QED BY <1>0, <2>1, <2>2, <2>3, <3>1, <4>2, <5>1 DEF Answers
      <4> QED BY <4>1, <4>2
    <3>3. ASSUME NEW m \in Nodes \ {n} PROVE Answers(m)'
      <4>1. m \in vol'.attached <=> m \in vol.attached
        <5>1. CASE asked
          BY <2>2, <5>1
        <5>2. CASE ~asked
          BY <2>2, <5>2
        <5> QED BY <5>1, <5>2
      <4>2. Answers(m)
        BY <1>0 DEF AllAnswer
      <4> QED BY <2>2, <3>1, <4>1, <4>2 DEF Answers
    <3> QED BY <3>2, <3>3 DEF AllAnswer
  <2>7. Backed'
    BY <1>0, <1>12 DEF RecordStatus, devices, Backed
  <2>8. [Disk!DiskNext]_(Disk!diskVars)
    BY <1>12, DiskFrame DEF RecordStatus, devices
  <2> QED BY <2>4, <2>5, <2>6, <2>7, <2>8
<1>13. CASE CreateExport(n, due)
  <2>1. Uncloned'
    BY <1>0, <1>13 DEF CreateExport, objects, copies, Uncloned
  <2>2. Asks'
    BY <1>0, <1>13 DEF CreateExport, objects, Asks
  <2>3. AllAnswer'
    BY <1>0, <1>13 DEF CreateExport, objects, copies, devices, AllAnswer, Answers
  <2>4. Backed'
    BY <1>0, <1>13 DEF CreateExport, devices, Backed
  <2>5. [Disk!DiskNext]_(Disk!diskVars)
    BY <1>13, DiskFrame DEF CreateExport, devices
  <2> QED BY <2>1, <2>2, <2>3, <2>4, <2>5
<1>14. CASE NameExport(n, due)
  <2>1. /\ vol = seen[n].vol /\ vol'.attach = vol.attach /\ vol'.attached = vol.attached
        /\ \A m \in Nodes : seen'[m].vol.attach = seen[m].vol.attach
        /\ \A m \in Nodes : seen'[m].pool = seen[m].pool
    <3> DEFINE v == [seen[n].vol EXCEPT !.export = n]
    <3>1. seen[n].vol \in Volume
      BY <1>0, CopyFacts
    <3>2. v \in Volume /\ v.attach = seen[n].vol.attach /\ v.attached = seen[n].vol.attached
      BY <3>1 DEF Volume, Names
    <3>3. UpdateVolume(n, v) /\ UNCHANGED <<pool, exports, xseen, pseen>>
      BY <1>14 DEF NameExport
    <3> HIDE DEF v
    <3> QED BY <1>0, <3>2, <3>3, UpdateVolumeFacts
  <2>2. Uncloned'
    BY <1>0, <1>14, <2>1 DEF NameExport, Uncloned
  <2>3. Asks'
    BY <1>0, <1>14, <2>1 DEF NameExport, Asks
  <2>4. AllAnswer'
    BY <1>0, <1>14, <2>1 DEF NameExport, devices, AllAnswer, Answers
  <2>5. Backed'
    BY <1>0, <1>14 DEF NameExport, devices, Backed
  <2>6. [Disk!DiskNext]_(Disk!diskVars)
    BY <1>14, DiskFrame DEF NameExport, devices
  <2> QED BY <2>2, <2>3, <2>4, <2>5, <2>6
<1> QED BY <1>1, <1>2, <1>3, <1>4, <1>5, <1>6, <1>7, <1>8, <1>9, <1>10, <1>11, <1>12, <1>13, <1>14 DEF VolumeEffect

\* The effects of the NBDExport reconciler.
LEMMA ExportDisk ==
    ASSUME DiskInv, TypeInv', MaxClones = 0,
           NEW n \in Nodes, NEW due, ExportEffect(n, due)
    PROVE  Uncloned' /\ Asks' /\ AllAnswer' /\ Backed' /\ [Disk!DiskNext]_(Disk!diskVars)
<1>0. /\ CopyTypes /\ Lists /\ DeviceTypes /\ CountTypes /\ DeviceTypes'
      /\ Uncloned /\ Asks /\ AllAnswer /\ Answers(n) /\ Backed
  <2>1. CopyTypes /\ Lists /\ DeviceTypes /\ CountTypes
    BY TypeParts DEF DiskInv
  <2>2. DeviceTypes'
    BY DEF TypeInv, TypeOK, DeviceTypes
  <2>3. Uncloned /\ Asks /\ AllAnswer /\ Answers(n) /\ Backed
    BY DEF DiskInv, AllAnswer
  <2> QED BY <2>1, <2>2, <2>3
<1>1. CASE DegradeExport(n, due)
  <2>1. Uncloned'
    BY <1>0, <1>1 DEF DegradeExport, objects, copies, Uncloned
  <2>2. Asks'
    BY <1>0, <1>1 DEF DegradeExport, objects, Asks
  <2>3. AllAnswer'
    BY <1>0, <1>1 DEF DegradeExport, objects, copies, devices, AllAnswer, Answers
  <2>4. Backed'
    BY <1>0, <1>1 DEF DegradeExport, devices, Backed
  <2>5. [Disk!DiskNext]_(Disk!diskVars)
    BY <1>1, DiskFrame DEF DegradeExport, devices
  <2> QED BY <2>1, <2>2, <2>3, <2>4, <2>5
<1>2. CASE StartExport(n, due)
  <2>1. Uncloned'
    BY <1>0, <1>2 DEF StartExport, objects, copies, Uncloned
  <2>2. Asks'
    BY <1>0, <1>2 DEF StartExport, objects, Asks
  <2>3. AllAnswer'
    BY <1>0, <1>2 DEF StartExport, objects, copies, AllAnswer, Answers
  <2>4. Backed'
    BY <1>0, <1>2 DEF StartExport, Backed
  <2>5. [Disk!DiskNext]_(Disk!diskVars)
    BY <1>2, DiskFrame DEF StartExport, devices
  <2> QED BY <2>1, <2>2, <2>3, <2>4, <2>5
<1>3. CASE PublishExport(n)
  <2>1. Uncloned'
    BY <1>0, <1>3 DEF PublishExport, objects, copies, Uncloned
  <2>2. Asks'
    BY <1>0, <1>3 DEF PublishExport, objects, Asks
  <2>3. AllAnswer'
    BY <1>0, <1>3 DEF PublishExport, objects, copies, devices, AllAnswer, Answers
  <2>4. Backed'
    BY <1>0, <1>3 DEF PublishExport, devices, Backed
  <2>5. [Disk!DiskNext]_(Disk!diskVars)
    BY <1>3, DiskFrame DEF PublishExport, devices
  <2> QED BY <2>1, <2>2, <2>3, <2>4, <2>5
<1>4. CASE CheckHealth(n, due)
  <2>1. Uncloned'
    BY <1>0, <1>4 DEF CheckHealth, objects, copies, Uncloned
  <2>2. Asks'
    BY <1>0, <1>4 DEF CheckHealth, objects, Asks
  <2>3. AllAnswer'
    BY <1>0, <1>4 DEF CheckHealth, objects, copies, devices, AllAnswer, Answers
  <2>4. Backed'
    BY <1>0, <1>4 DEF CheckHealth, devices, Backed
  <2>5. [Disk!DiskNext]_(Disk!diskVars)
    BY <1>4, DiskFrame DEF CheckHealth, devices
  <2> QED BY <2>1, <2>2, <2>3, <2>4, <2>5
<1>5. CASE StopExport(n, due)
  <2>1. Uncloned'
    BY <1>0, <1>5 DEF StopExport, objects, copies, Uncloned
  <2>2. Asks'
    BY <1>0, <1>5 DEF StopExport, objects, Asks
  <2>3. AllAnswer'
    BY <1>0, <1>5 DEF StopExport, objects, copies, AllAnswer, Answers
  <2>4. Backed'
    <3>1. Cut(n) /\ UNCHANGED <<lvm, dm, conn>>
      BY <1>5 DEF StopExport
    <3>2. qsd' = qsd \ {n} /\ \A m \in Nodes : conn[m] \ dead'[m] \subseteq (conn[m] \ dead[m]) \ {n}
      BY <1>0, <3>1 DEF Cut, DeviceTypes
    <3> QED BY <1>0, <3>1, <3>2 DEF Backed
  <2>5. [Disk!DiskNext]_(Disk!diskVars)
    <3>1. Cut(n) /\ UNCHANGED <<lvm, dm, conn, csi>>
      BY <1>5 DEF StopExport
    <3> QED BY <1>0, <3>1, CutStep
  <2> QED BY <2>1, <2>2, <2>3, <2>4, <2>5
<1>6. CASE RemoveFinalizer(n, due)
  <2>1. Uncloned'
    BY <1>0, <1>6 DEF RemoveFinalizer, objects, copies, Uncloned
  <2>2. Asks'
    BY <1>0, <1>6 DEF RemoveFinalizer, objects, Asks
  <2>3. AllAnswer'
    BY <1>0, <1>6 DEF RemoveFinalizer, objects, copies, devices, AllAnswer, Answers
  <2>4. Backed'
    BY <1>0, <1>6 DEF RemoveFinalizer, devices, Backed
  <2>5. [Disk!DiskNext]_(Disk!diskVars)
    BY <1>6, DiskFrame DEF RemoveFinalizer, devices
  <2> QED BY <2>1, <2>2, <2>3, <2>4, <2>5
<1> QED BY <1>1, <1>2, <1>3, <1>4, <1>5, <1>6 DEF ExportEffect

\* The effects of the ThinPoolLv reconciler.
LEMMA PoolDisk ==
    ASSUME DiskInv, TypeInv', MaxClones = 0,
           NEW n \in Nodes, NEW due, PoolEffect(n, due)
    PROVE  Uncloned' /\ Asks' /\ AllAnswer' /\ Backed' /\ [Disk!DiskNext]_(Disk!diskVars)
<1>0. /\ CopyTypes /\ Lists /\ DeviceTypes /\ CountTypes /\ DeviceTypes'
      /\ Uncloned /\ Asks /\ AllAnswer /\ Answers(n) /\ Backed
  <2>1. CopyTypes /\ Lists /\ DeviceTypes /\ CountTypes
    BY TypeParts DEF DiskInv
  <2>2. DeviceTypes'
    BY DEF TypeInv, TypeOK, DeviceTypes
  <2>3. Uncloned /\ Asks /\ AllAnswer /\ Answers(n) /\ Backed
    BY DEF DiskInv, AllAnswer
  <2> QED BY <2>1, <2>2, <2>3
<1>1. CASE ActivatePool(n, due)
  <2>1. Uncloned'
    <3> DEFINE q == [pseen[n] EXCEPT !.statusNode = n]
    <3>1. q.clone = pseen[n].clone
      <4>1. pseen[n] \in Pool
        BY <1>0, CopyFacts
      <4> QED BY <4>1 DEF Pool
    <3>2. UpdateOwnPool(n, q) \/ UNCHANGED <<pool, pseen>>
      BY <1>1 DEF ActivatePool
    <3> HIDE DEF q
    <3>3. pool'.clone = pool.clone
      BY <3>1, <3>2 DEF UpdateOwnPool
    <3> QED BY <1>0, <1>1, <3>3 DEF ActivatePool, Uncloned
  <2>2. Asks'
    BY <1>0, <1>1 DEF ActivatePool, objects, Asks
  <2>3. AllAnswer'
    BY <1>0, <1>1 DEF ActivatePool, devices, AllAnswer, Answers
  <2>4. Backed'
    <3>1. UNCHANGED <<dm, conn, dead, qsd, csi>>
      BY <1>1 DEF ActivatePool
    <3>2. lvm.on => lvm' = lvm
      BY <1>0, <1>1 DEF ActivatePool, DeviceTypes
    <3> QED BY <1>0, <3>1, <3>2 DEF Backed
  <2>5. [Disk!DiskNext]_(Disk!diskVars)
    <3>1. UNCHANGED <<dm, conn, dead, qsd, csi>>
      BY <1>1 DEF ActivatePool
    <3>2. Home' = Home
      BY <1>0, <1>1 DEF ActivatePool, Home, DeviceTypes
    <3> QED BY <1>0, <3>1, <3>2, HomeStep
  <2> QED BY <2>1, <2>2, <2>3, <2>4, <2>5
<1>2. CASE DeactivatePool(n, due)
  <2>1. Uncloned'
    <3> DEFINE q == [pseen[n] EXCEPT !.statusNode = None, !.status = "Inactive"]
    <3>1. q.clone = pseen[n].clone
      <4>1. pseen[n] \in Pool
        BY <1>0, CopyFacts
      <4> QED BY <4>1 DEF Pool
    <3>2. UpdateOwnPool(n, q) \/ UNCHANGED <<pool, pseen>>
      BY <1>2 DEF DeactivatePool
    <3> HIDE DEF q
    <3>3. pool'.clone = pool.clone
      BY <3>1, <3>2 DEF UpdateOwnPool
    <3> QED BY <1>0, <1>2, <3>3 DEF DeactivatePool, Uncloned
  <2>2. Asks'
    BY <1>0, <1>2 DEF DeactivatePool, objects, Asks
  <2>3. AllAnswer'
    BY <1>0, <1>2 DEF DeactivatePool, devices, AllAnswer, Answers
  <2>4. Backed'
    <3>1. UNCHANGED <<dm, conn, dead, qsd, csi>>
      BY <1>2 DEF DeactivatePool
    <3>2. ~InUse(n) /\ (lvm.lock # n => lvm' = lvm)
      BY <1>0, <1>2 DEF DeactivatePool
    <3> QED BY <1>0, <3>1, <3>2 DEF Backed, InUse
  <2>5. [Disk!DiskNext]_(Disk!diskVars)
    <3>1. UNCHANGED <<dm, conn, dead, qsd, csi>>
      BY <1>2 DEF DeactivatePool
    <3>2. ~InUse(n) /\ (Home' = Home \/ (Home = n /\ Home' = None))
      BY <1>0, <1>2 DEF DeactivatePool, Home, DeviceTypes
    <3> QED BY <1>0, <3>1, <3>2, HomeStep
  <2> QED BY <2>1, <2>2, <2>3, <2>4, <2>5
<1>3. CASE GrowThinLv(n, due)
  <2>1. Uncloned'
    <3> DEFINE q == [pseen[n] EXCEPT !.size = pseen[n].want]
    <3>1. q.clone = pseen[n].clone
      <4>1. pseen[n] \in Pool
        BY <1>0, CopyFacts
      <4> QED BY <4>1 DEF Pool
    <3>2. UpdateOwnPool(n, q)
      BY <1>3 DEF GrowThinLv
    <3> HIDE DEF q
    <3>3. pool'.clone = pool.clone
      BY <3>1, <3>2 DEF UpdateOwnPool
    <3> QED BY <1>0, <1>3, <3>3 DEF GrowThinLv, Uncloned
  <2>2. Asks'
    BY <1>0, <1>3 DEF GrowThinLv, objects, Asks
  <2>3. AllAnswer'
    BY <1>0, <1>3 DEF GrowThinLv, devices, AllAnswer, Answers
  <2>4. Backed'
    BY <1>0, <1>3 DEF GrowThinLv, devices, Backed
  <2>5. [Disk!DiskNext]_(Disk!diskVars)
    BY <1>3, DiskFrame DEF GrowThinLv, devices
  <2> QED BY <2>1, <2>2, <2>3, <2>4, <2>5
<1>4. CASE MatchThinLv(n, due)
  <2>1. Uncloned'
    <3> DEFINE q == [pseen[n] EXCEPT !.status = pseen[n].spec]
    <3>1. q.clone = pseen[n].clone
      <4>1. pseen[n] \in Pool
        BY <1>0, CopyFacts
      <4> QED BY <4>1 DEF Pool
    <3>2. UpdateOwnPool(n, q) \/ UNCHANGED <<pool, pseen>>
      BY <1>4 DEF MatchThinLv
    <3> HIDE DEF q
    <3>3. pool'.clone = pool.clone
      BY <3>1, <3>2 DEF UpdateOwnPool
    <3> QED BY <1>0, <1>4, <3>3 DEF MatchThinLv, Uncloned
  <2>2. Asks'
    BY <1>0, <1>4 DEF MatchThinLv, objects, Asks
  <2>3. AllAnswer'
    BY <1>0, <1>4 DEF MatchThinLv, devices, AllAnswer, Answers
  <2>4. Backed'
    <3>1. UNCHANGED <<dm, conn, dead, qsd, csi>>
      BY <1>4 DEF MatchThinLv
    <3>2. CASE pseen[n].spec = "Active"
      <4>1. lvm.lock \in {n, None} /\ lvm'.lock = n /\ lvm'.on
        BY <1>0, <1>4, <3>2 DEF MatchThinLv
      <4>2. lvm.on => lvm.lock = n
        BY <1>0, <4>1 DEF DeviceTypes
      <4> QED BY <1>0, <3>1, <4>1, <4>2 DEF Backed
    <3>3. CASE pseen[n].spec # "Active"
      <4>1. ~InUse(n) /\ (lvm.lock # n => lvm' = lvm)
        BY <1>0, <1>4, <3>3 DEF MatchThinLv
      <4> QED BY <1>0, <3>1, <4>1 DEF Backed, InUse
    <3> QED BY <3>2, <3>3
  <2>5. [Disk!DiskNext]_(Disk!diskVars)
    <3>1. UNCHANGED <<dm, conn, dead, qsd, csi>>
      BY <1>4 DEF MatchThinLv
    <3>2. CASE pseen[n].spec = "Active"
      <4>1. Home' = n /\ Home \in {n, None}
        BY <1>0, <1>4, <3>2 DEF MatchThinLv, Home, DeviceTypes
      <4> QED BY <1>0, <3>1, <4>1, HomeStep
    <3>3. CASE pseen[n].spec # "Active"
      <4>1. ~InUse(n) /\ (Home' = Home \/ (Home = n /\ Home' = None))
        BY <1>0, <1>4, <3>3 DEF MatchThinLv, Home, DeviceTypes
      <4> QED BY <1>0, <3>1, <4>1, HomeStep
    <3> QED BY <3>2, <3>3
  <2> QED BY <2>1, <2>2, <2>3, <2>4, <2>5
<1> QED BY <1>1, <1>2, <1>3, <1>4 DEF PoolEffect

\* The refresh of a copy.
LEMMA WatchDisk ==
    ASSUME DiskInv, TypeInv', MaxClones = 0,
           NEW n \in Nodes, Watch(n)
    PROVE  Uncloned' /\ Asks' /\ AllAnswer' /\ Backed' /\ [Disk!DiskNext]_(Disk!diskVars)
<1>0. /\ CopyTypes /\ Lists /\ DeviceTypes /\ CountTypes /\ DeviceTypes'
      /\ Uncloned /\ Asks /\ AllAnswer /\ Answers(n) /\ Backed
  <2>1. CopyTypes /\ Lists /\ DeviceTypes /\ CountTypes
    BY TypeParts DEF DiskInv
  <2>2. DeviceTypes'
    BY DEF TypeInv, TypeOK, DeviceTypes
  <2>3. Uncloned /\ Asks /\ AllAnswer /\ Answers(n) /\ Backed
    BY DEF DiskInv, AllAnswer
  <2> QED BY <2>1, <2>2, <2>3
<1>1. CASE SeeVolume(n)
  <2>1. /\ \A m \in Nodes : seen'[m].vol = IF m = n THEN vol ELSE seen[m].vol
        /\ \A m \in Nodes : seen'[m].pool = seen[m].pool
    <3>1. seen' = [seen EXCEPT ![n].vol = vol] /\ vol \in Volume /\ NoTwice(vol.attach)
      BY <1>0, <1>1 DEF SeeVolume, CopyTypes, Lists
    <3> QED BY <1>0, <3>1, SeenVolumeFacts
  <2>2. Uncloned'
    BY <1>0, <1>1, <2>1 DEF SeeVolume, objects, Uncloned
  <2>3. Asks'
    BY <1>0, <1>1 DEF SeeVolume, objects, Asks
  <2>4. AllAnswer'
    <3>1. UNCHANGED <<vol, dm, csi, joining>>
      BY <1>1 DEF SeeVolume, objects, devices
    <3>2. Answers(n)'
      BY <1>0, <2>1, <3>1 DEF Answers, Asks
    <3>3. \A m \in Nodes \ {n} : Answers(m)'
      BY <1>0, <2>1, <3>1 DEF AllAnswer, Answers
    <3> QED BY <3>2, <3>3 DEF AllAnswer
  <2>5. Backed'
    BY <1>0, <1>1 DEF SeeVolume, devices, Backed
  <2>6. [Disk!DiskNext]_(Disk!diskVars)
    BY <1>1, DiskFrame DEF SeeVolume, devices
  <2> QED BY <2>2, <2>3, <2>4, <2>5, <2>6
<1>2. CASE SeePool(n)
  <2>1. /\ \A m \in Nodes : seen'[m].vol = seen[m].vol
        /\ \A m \in Nodes : seen'[m].pool = IF m = n THEN pool ELSE seen[m].pool
    <3>1. seen' = [seen EXCEPT ![n].pool = pool] /\ pool \in Pool
      BY <1>0, <1>2 DEF SeePool, CopyTypes
    <3> QED BY <1>0, <3>1, SeenPoolFacts
  <2>2. Uncloned'
    BY <1>0, <1>2, <2>1 DEF SeePool, objects, Uncloned
  <2>3. Asks'
    BY <1>0, <1>2 DEF SeePool, objects, Asks
  <2>4. AllAnswer'
    BY <1>0, <1>2, <2>1 DEF SeePool, objects, devices, AllAnswer, Answers
  <2>5. Backed'
    BY <1>0, <1>2 DEF SeePool, devices, Backed
  <2>6. [Disk!DiskNext]_(Disk!diskVars)
    BY <1>2, DiskFrame DEF SeePool, devices
  <2> QED BY <2>2, <2>3, <2>4, <2>5, <2>6
<1>3. CASE SeeOwnExport(n)
  <2>1. Uncloned'
    BY <1>0, <1>3 DEF SeeOwnExport, objects, copies, Uncloned
  <2>2. Asks'
    BY <1>0, <1>3 DEF SeeOwnExport, objects, Asks
  <2>3. AllAnswer'
    BY <1>0, <1>3 DEF SeeOwnExport, objects, copies, devices, AllAnswer, Answers
  <2>4. Backed'
    BY <1>0, <1>3 DEF SeeOwnExport, devices, Backed
  <2>5. [Disk!DiskNext]_(Disk!diskVars)
    BY <1>3, DiskFrame DEF SeeOwnExport, devices
  <2> QED BY <2>1, <2>2, <2>3, <2>4, <2>5
<1>4. CASE SeeOwnPool(n)
  <2>1. Uncloned'
    BY <1>0, <1>4 DEF SeeOwnPool, objects, copies, Uncloned
  <2>2. Asks'
    BY <1>0, <1>4 DEF SeeOwnPool, objects, Asks
  <2>3. AllAnswer'
    BY <1>0, <1>4 DEF SeeOwnPool, objects, copies, devices, AllAnswer, Answers
  <2>4. Backed'
    BY <1>0, <1>4 DEF SeeOwnPool, devices, Backed
  <2>5. [Disk!DiskNext]_(Disk!diskVars)
    BY <1>4, DiskFrame DEF SeeOwnPool, devices
  <2> QED BY <2>1, <2>2, <2>3, <2>4, <2>5
<1>5. CASE \E h \in Nodes : SeeExport(n, h)
  <2>1. /\ \A m \in Nodes : seen'[m].vol = seen[m].vol
        /\ \A m \in Nodes : seen'[m].pool = seen[m].pool
    <3>1. PICK h \in Nodes : SeeExport(n, h)
      BY <1>5
    <3>2. seen' = [seen EXCEPT ![n].exp[h] = exports[h]] /\ exports[h] \in Export
      BY <1>0, <3>1, CopyFacts DEF SeeExport
    <3> QED BY <1>0, <3>2, SeenExportFacts
  <2>2. UNCHANGED <<vol, pool, joining, lvm, dm, conn, dead, qsd, csi>>
    BY <1>5 DEF SeeExport, objects, devices
  <2>3. Uncloned'
    BY <1>0, <2>1, <2>2 DEF Uncloned
  <2>4. Asks'
    BY <1>0, <2>2 DEF Asks
  <2>5. AllAnswer'
    BY <1>0, <2>1, <2>2 DEF AllAnswer, Answers
  <2>6. Backed'
    BY <1>0, <2>2 DEF Backed
  <2>7. [Disk!DiskNext]_(Disk!diskVars)
    BY <2>2, DiskFrame
  <2> QED BY <2>3, <2>4, <2>5, <2>6, <2>7
<1>6. CASE EndReconcile(n)
  <2>1. UNCHANGED <<vol, pool, seen, joining, lvm, dm, conn, dead, qsd, csi>>
    BY <1>6 DEF EndReconcile, objects, devices
  <2>2. Uncloned' /\ Asks' /\ AllAnswer' /\ Backed'
    BY <1>0, <2>1 DEF Uncloned, Asks, AllAnswer, Answers, Backed
  <2>3. [Disk!DiskNext]_(Disk!diskVars)
    BY <2>1, DiskFrame
  <2> QED BY <2>2, <2>3
<1> QED BY <1>1, <1>2, <1>3, <1>4, <1>5, <1>6 DEF Watch

\* Requests, their answers and faults.
LEMMA UserDisk ==
    ASSUME DiskInv, TypeInv', MaxClones = 0,
           NEW n \in Nodes, Kubelet(n) \/ EndClone(n) \/ User(n) \/ Fault(n)
    PROVE  Uncloned' /\ Asks' /\ AllAnswer' /\ Backed' /\ [Disk!DiskNext]_(Disk!diskVars)
<1>0. /\ CopyTypes /\ Lists /\ DeviceTypes /\ CountTypes /\ DeviceTypes'
      /\ Uncloned /\ Asks /\ AllAnswer /\ Answers(n) /\ Backed
  <2>1. CopyTypes /\ Lists /\ DeviceTypes /\ CountTypes
    BY TypeParts DEF DiskInv
  <2>2. DeviceTypes'
    BY DEF TypeInv, TypeOK, DeviceTypes
  <2>3. Uncloned /\ Asks /\ AllAnswer /\ Answers(n) /\ Backed
    BY DEF DiskInv, AllAnswer
  <2> QED BY <2>1, <2>2, <2>3
<1>1. CASE Stage(n)
  <2>1. /\ \A m \in Nodes : Contains(vol'.attach, m) <=> Contains(vol.attach, m) \/ m = n
        /\ vol'.attached = vol.attached
    <3> DEFINE a == IF Contains(vol.attach, n) THEN vol.attach ELSE Append(vol.attach, n)
    <3>1. vol \in Volume /\ vol.attach \in Seq(Nodes) /\ NoTwice(vol.attach)
      BY <1>0, VolumeFields DEF CopyTypes, Lists
    <3>2. \A m \in Nodes : Contains(a, m) <=> Contains(vol.attach, m) \/ m = n
      BY <3>1, AppendFacts
    <3>3. vol' = [vol EXCEPT !.attach = a]
      BY <1>1 DEF Stage
    <3> HIDE DEF a
    <3>4. vol'.attach = a /\ vol'.attached = vol.attached
      BY <3>1, <3>3 DEF Volume
    <3> QED BY <3>2, <3>4
  <2>2. csi[n] = "out" /\ csi'[n] = "staging" /\ \A m \in Nodes \ {n} : csi'[m] = csi[m]
    BY <1>0, <1>1, TypeParts DEF Stage, DiskInv, ProcessTypes
  <2>3. Uncloned'
    BY <1>0, <1>1 DEF Stage, objects, copies, Uncloned
  <2>4. Asks'
    BY <1>0, <2>1, <2>2 DEF Asks
  <2>5. AllAnswer'
    BY <1>0, <1>1, <2>1, <2>2 DEF Stage, copies, devices, AllAnswer, Answers
  <2>6. Backed'
    BY <1>0, <1>1 DEF Stage, devices, Backed
  <2>7. [Disk!DiskNext]_(Disk!diskVars)
    <3>1. UNCHANGED <<lvm, dm, conn, dead>>
      BY <1>1 DEF Stage, devices
    <3>2. UNCHANGED Home /\ UNCHANGED Device
      BY <3>1 DEF Home, Device, Flows
    <3>3. Disk!Request(n)
      BY <1>1, <3>2 DEF Stage, Disk!Request
    <3> QED BY <3>3 DEF Disk!DiskNext
  <2> QED BY <2>3, <2>4, <2>5, <2>6, <2>7
<1>2. CASE StageReturns(n)
  <2>1. csi[n] = "staging" /\ csi'[n] = "in" /\ \A m \in Nodes \ {n} : csi'[m] = csi[m]
    BY <1>0, <1>2, TypeParts DEF StageReturns, DiskInv, ProcessTypes
  <2>2. Uncloned'
    BY <1>0, <1>2 DEF StageReturns, objects, copies, Uncloned
  <2>3. Asks'
    BY <1>0, <1>2, <2>1 DEF StageReturns, objects, Asks
  <2>4. AllAnswer'
    BY <1>0, <1>2, <2>1 DEF StageReturns, objects, copies, devices, AllAnswer, Answers
  <2>5. Backed'
    BY <1>0, <1>2 DEF StageReturns, devices, Backed
  <2>6. [Disk!DiskNext]_(Disk!diskVars)
    <3>1. UNCHANGED <<lvm, dm, conn, dead>>
      BY <1>2 DEF StageReturns, devices
    <3>2. UNCHANGED Home /\ UNCHANGED Device
      BY <3>1 DEF Home, Device, Flows
    <3>3. Device[n] # "absent"
      BY <1>0, <1>2, DeviceValues DEF StageReturns, Answers
    <3>4. Disk!Confirm(n)
      BY <1>2, <3>2, <3>3 DEF StageReturns, Disk!Confirm
    <3> QED BY <3>4 DEF Disk!DiskNext
  <2> QED BY <2>2, <2>3, <2>4, <2>5, <2>6
<1>3. CASE Unstage(n)
  <2>1. /\ \A m \in Nodes : Contains(vol'.attach, m) <=> Contains(vol.attach, m) /\ m # n
        /\ vol'.attached = vol.attached
    <3> DEFINE a == RemoveFirst(vol.attach, n)
    <3>1. vol \in Volume /\ vol.attach \in Seq(Nodes) /\ NoTwice(vol.attach)
      BY <1>0, VolumeFields DEF CopyTypes, Lists
    <3>2. \A m \in Nodes : Contains(a, m) <=> Contains(vol.attach, m) /\ m # n
      BY <3>1, RemoveFacts
    <3>3. vol' = [vol EXCEPT !.attach = a]
      BY <1>3 DEF Unstage
    <3> HIDE DEF a
    <3>4. vol'.attach = a /\ vol'.attached = vol.attached
      BY <3>1, <3>3 DEF Volume
    <3> QED BY <3>2, <3>4
  <2>2. /\ (csi[n] = "in" /\ csi'[n] = "unstaging") \/ (csi[n] = "staging" /\ csi'[n] = "cancelling")
        /\ \A m \in Nodes \ {n} : csi'[m] = csi[m]
    BY <1>0, <1>3, TypeParts DEF Unstage, DiskInv, ProcessTypes
  <2>3. Uncloned'
    BY <1>0, <1>3 DEF Unstage, objects, copies, Uncloned
  <2>4. Asks'
    BY <1>0, <2>1, <2>2 DEF Asks
  <2>5. AllAnswer'
    BY <1>0, <1>3, <2>1, <2>2 DEF Unstage, copies, devices, AllAnswer, Answers
  <2>6. Backed'
    BY <1>0, <1>3 DEF Unstage, devices, Backed
  <2>7. [Disk!DiskNext]_(Disk!diskVars)
    <3>1. UNCHANGED <<lvm, dm, conn, dead>>
      BY <1>3 DEF Unstage, devices
    <3>2. UNCHANGED Home /\ UNCHANGED Device
      BY <3>1 DEF Home, Device, Flows
    <3>3. Disk!Request(n)
      BY <1>3, <2>2, <3>2 DEF Unstage, Disk!Request
    <3> QED BY <3>3 DEF Disk!DiskNext
  <2> QED BY <2>3, <2>4, <2>5, <2>6, <2>7
<1>4. CASE UnstageReturns(n)
  <2>1. /\ csi[n] \in {"cancelling", "unstaging"} /\ csi'[n] = "out"
        /\ \A m \in Nodes \ {n} : csi'[m] = csi[m]
    BY <1>0, <1>4, TypeParts DEF UnstageReturns, DiskInv, ProcessTypes
  <2>2. Uncloned'
    BY <1>0, <1>4 DEF UnstageReturns, objects, copies, Uncloned
  <2>3. Asks'
    BY <1>0, <1>4, <2>1 DEF UnstageReturns, objects, Asks
  <2>4. AllAnswer'
    BY <1>0, <1>4, <2>1 DEF UnstageReturns, objects, copies, devices, AllAnswer, Answers
  <2>5. Backed'
    BY <1>0, <1>4 DEF UnstageReturns, devices, Backed
  <2>6. [Disk!DiskNext]_(Disk!diskVars)
    <3>1. UNCHANGED <<lvm, dm, conn, dead>>
      BY <1>4 DEF UnstageReturns, devices
    <3>2. UNCHANGED Home /\ UNCHANGED Device
      BY <3>1 DEF Home, Device, Flows
    <3>3. csi[n] = "unstaging" => Device[n] = "absent"
      BY <1>0, <1>4, DeviceValues DEF UnstageReturns, Answers
    <3>4. Disk!Confirm(n)
      BY <1>4, <2>1, <3>2, <3>3 DEF UnstageReturns, Disk!Confirm
    <3> QED BY <3>4 DEF Disk!DiskNext
  <2> QED BY <2>2, <2>3, <2>4, <2>5, <2>6
<1>5. CASE Expand(n)
  <2>1. Uncloned'
    <3> DEFINE q == [pool EXCEPT !.want = pool.want + 1]
    <3>1. pool \in Pool /\ pool.want \in Nat /\ pool.want < MaxSize
      BY <1>0, <1>5, PoolFields DEF Expand, CopyTypes
    <3>2. q \in Pool /\ q.clone = pool.clone
      BY <3>1, BoundsAssumption DEF Pool
    <3>3. pool' = Recalc(n, q) /\ UNCHANGED seen
      BY <1>5 DEF Expand, copies
    <3> HIDE DEF q
    <3> QED BY <1>0, <3>2, <3>3, RecalcType DEF Uncloned
  <2>2. Asks'
    BY <1>0, <1>5 DEF Expand, objects, Asks
  <2>3. AllAnswer'
    BY <1>0, <1>5 DEF Expand, copies, devices, AllAnswer, Answers
  <2>4. Backed'
    BY <1>0, <1>5 DEF Expand, devices, Backed
  <2>5. [Disk!DiskNext]_(Disk!diskVars)
    BY <1>5, DiskFrame DEF Expand, devices
  <2> QED BY <2>1, <2>2, <2>3, <2>4, <2>5
<1>6. CASE RestartManager(n)
  <2>1. Uncloned'
    BY <1>0, <1>6 DEF RestartManager, objects, copies, Uncloned
  <2>2. Asks'
    BY <1>0, <1>6 DEF RestartManager, objects, Asks
  <2>3. AllAnswer'
    BY <1>0, <1>6 DEF RestartManager, NewProcess, objects, copies, AllAnswer, Answers
  <2>4. Backed'
    <3>1. conn' = [conn EXCEPT ![n] = conn[n] \ dead[n]] /\ dead' = [dead EXCEPT ![n] = {}]
      BY <1>0, <1>6 DEF RestartManager, NewProcess, DeviceTypes
    <3>2. \A m \in Nodes : conn'[m] \ dead'[m] = conn[m] \ dead[m]
      BY <1>0, <3>1 DEF DeviceTypes
    <3>3. UNCHANGED <<lvm, dm, qsd, csi>>
      BY <1>6 DEF RestartManager
    <3> QED BY <1>0, <3>2, <3>3 DEF Backed
  <2>5. [Disk!DiskNext]_(Disk!diskVars)
    <3>1. conn' = [conn EXCEPT ![n] = conn[n] \ dead[n]] /\ dead' = [dead EXCEPT ![n] = {}]
      BY <1>0, <1>6 DEF RestartManager, NewProcess, DeviceTypes
    <3>2. \A m \in Nodes : conn'[m] \ dead'[m] = conn[m] \ dead[m]
      BY <1>0, <3>1 DEF DeviceTypes
    <3>3. UNCHANGED <<lvm, dm, qsd, csi>>
      BY <1>6 DEF RestartManager
    <3>4. Device'[n] = Device[n]
      BY <3>2, <3>3 DEF Device, Flows
    <3> QED BY <3>2, <3>3, <3>4, OneDevice
  <2> QED BY <2>1, <2>2, <2>3, <2>4, <2>5
<1>7. CASE Terminate(n)
  <2>1. Uncloned'
    BY <1>0, <1>7 DEF Terminate, objects, copies, Uncloned
  <2>2. Asks'
    BY <1>0, <1>7 DEF Terminate, objects, Asks
  <2>3. AllAnswer'
    BY <1>0, <1>7 DEF Terminate, objects, copies, devices, AllAnswer, Answers
  <2>4. Backed'
    BY <1>0, <1>7 DEF Terminate, devices, Backed
  <2>5. [Disk!DiskNext]_(Disk!diskVars)
    BY <1>7, DiskFrame DEF Terminate, devices
  <2> QED BY <2>1, <2>2, <2>3, <2>4, <2>5
<1>8. CASE ReplacePod(n)
  <2>1. Uncloned'
    BY <1>0, <1>8 DEF ReplacePod, objects, copies, Uncloned
  <2>2. Asks'
    BY <1>0, <1>8 DEF ReplacePod, objects, Asks
  <2>3. AllAnswer'
    BY <1>0, <1>8 DEF ReplacePod, NewProcess, objects, copies, AllAnswer, Answers
  <2>4. Backed'
    <3>1. conn' = [conn EXCEPT ![n] = conn[n] \ dead[n]] /\ dead' = [dead EXCEPT ![n] = {}]
      BY <1>0, <1>8 DEF ReplacePod, NewProcess, DeviceTypes
    <3>2. \A m \in Nodes : conn'[m] \ dead'[m] = conn[m] \ dead[m]
      BY <1>0, <3>1 DEF DeviceTypes
    <3>3. UNCHANGED <<lvm, dm, qsd, csi>>
      BY <1>8 DEF ReplacePod
    <3> QED BY <1>0, <3>2, <3>3 DEF Backed
  <2>5. [Disk!DiskNext]_(Disk!diskVars)
    <3>1. conn' = [conn EXCEPT ![n] = conn[n] \ dead[n]] /\ dead' = [dead EXCEPT ![n] = {}]
      BY <1>0, <1>8 DEF ReplacePod, NewProcess, DeviceTypes
    <3>2. \A m \in Nodes : conn'[m] \ dead'[m] = conn[m] \ dead[m]
      BY <1>0, <3>1 DEF DeviceTypes
    <3>3. UNCHANGED <<lvm, dm, qsd, csi>>
      BY <1>8 DEF ReplacePod
    <3>4. Device'[n] = Device[n]
      BY <3>2, <3>3 DEF Device, Flows
    <3> QED BY <3>2, <3>3, <3>4, OneDevice
  <2> QED BY <2>1, <2>2, <2>3, <2>4, <2>5
<1>9. CASE CrashQsd(n)
  <2>1. Uncloned'
    BY <1>0, <1>9 DEF CrashQsd, objects, copies, Uncloned
  <2>2. Asks'
    BY <1>0, <1>9 DEF CrashQsd, objects, Asks
  <2>3. AllAnswer'
    BY <1>0, <1>9 DEF CrashQsd, objects, copies, AllAnswer, Answers
  <2>4. Backed'
    <3>1. Cut(n) /\ UNCHANGED <<lvm, dm, conn>>
      BY <1>9 DEF CrashQsd
    <3>2. qsd' = qsd \ {n} /\ \A m \in Nodes : conn[m] \ dead'[m] \subseteq (conn[m] \ dead[m]) \ {n}
      BY <1>0, <3>1 DEF Cut, DeviceTypes
    <3> QED BY <1>0, <3>1, <3>2 DEF Backed
  <2>5. [Disk!DiskNext]_(Disk!diskVars)
    <3>1. Cut(n) /\ UNCHANGED <<lvm, dm, conn, csi>>
      BY <1>9 DEF CrashQsd
    <3> QED BY <1>0, <3>1, CutStep
  <2> QED BY <2>1, <2>2, <2>3, <2>4, <2>5
<1>10. ~BeginClone(n) /\ ~EndClone(n)
  BY <1>0 DEF BeginClone, EndClone, Uncloned, CountTypes
<1> QED BY <1>1, <1>2, <1>3, <1>4, <1>5, <1>6, <1>7, <1>8, <1>9, <1>10 DEF Kubelet, User, Fault

\* Every step keeps the invariant and is a step of the disk.
LEMMA NextDisk ==
    ASSUME MaxClones = 0
    PROVE  DiskInv /\ [Next]_vars => DiskInv' /\ [Disk!DiskNext]_(Disk!diskVars)
<1> SUFFICES ASSUME DiskInv, [Next]_vars
             PROVE  DiskInv' /\ [Disk!DiskNext]_(Disk!diskVars)
  OBVIOUS
<1>1. TypeInv'
  BY NextTypes DEF DiskInv
<1>2. CASE Next
  <2>1. PICK n \in Nodes : SystemStep(n) \/ User(n) \/ Fault(n)
    BY <1>2 DEF Next
  <2>2. CASE VolumeStep(n)
    BY <1>1, <2>2, VolumeDisk DEF VolumeStep, DiskInv
  <2>3. CASE ExportStep(n)
    BY <1>1, <2>3, ExportDisk DEF ExportStep, DiskInv
  <2>4. CASE PoolStep(n)
    BY <1>1, <2>4, PoolDisk DEF PoolStep, DiskInv
  <2>5. CASE Watch(n)
    BY <1>1, <2>5, WatchDisk DEF DiskInv
  <2>6. CASE Kubelet(n) \/ EndClone(n) \/ User(n) \/ Fault(n)
    BY <1>1, <2>6, UserDisk DEF DiskInv
  <2> QED BY <2>1, <2>2, <2>3, <2>4, <2>5, <2>6 DEF SystemStep
<1>3. CASE UNCHANGED vars
  <2>1. UNCHANGED <<vol, pool, seen, joining, lvm, dm, conn, dead, qsd, csi>>
    BY <1>3 DEF vars, objects, copies, devices
  <2>2. [Disk!DiskNext]_(Disk!diskVars)
    BY <2>1, DiskFrame
  <2>3. Uncloned' /\ Asks' /\ AllAnswer' /\ Backed'
    BY <2>1 DEF DiskInv, Uncloned, Asks, AllAnswer, Answers, Backed
  <2> QED BY <1>1, <2>2, <2>3 DEF DiskInv
<1> QED BY <1>2, <1>3

LEMMA InitDisk == Init => DiskInv /\ Disk!DiskInit
<1> SUFFICES ASSUME Init PROVE DiskInv /\ Disk!DiskInit
  OBVIOUS
<1>1. TypeInv
  BY InitTypes
<1>2. Uncloned /\ Asks
  BY DEF Init, Uncloned, Asks, Contains
<1>3. AllAnswer
  BY DEF Init, AllAnswer, Answers, NoWrappers
<1>4. Backed
  BY DEF Init, Backed, NoWrappers
<1>5. Home = None
  BY DEF Init, Home
<1>6. Device = [n \in Nodes |-> "absent"]
  BY DEF Init, Device, NoWrappers
<1>7. Disk!DiskInit
  BY <1>5, <1>6 DEF Init, Disk!DiskInit
<1> QED BY <1>1, <1>2, <1>3, <1>4, <1>7 DEF DiskInv

\* A volume of which no clone is made implements the shared disk: the thin LV moves only
\* while no device is open, and no device disappears from under a user that NodeStageVolume
\* has returned to, whatever the age of the copies that the reconcilers of the volume, the
\* pool and the exports work on, and wherever managers and servers fail.
THEOREM DiskCorrect ==
    ASSUME MaxClones = 0
    PROVE  Spec => ImplementsSharedDisk
<1>1. Init => DiskInv /\ Disk!DiskInit
  BY InitDisk
<1>2. DiskInv /\ [Next]_vars => DiskInv' /\ [Disk!DiskNext]_(Disk!diskVars)
  BY NextDisk
<1> QED BY <1>1, <1>2, PTL DEF Spec, ImplementsSharedDisk, Disk!DiskSpec

-----------------------------------------------------------------------------
(* I/O that passes a wrapper is served. *)

\* An export that is gone has left nothing behind.
NullWhenGone == \A h \in Nodes : exports[h].phase = "none" => exports[h] = NoExport

\* What is being published has been started for an export that was live, and is live in
\* the host's copy until it is published.
Publishes == \A h \in publishing : xseen[h].phase = "live"

\* A host whose q-s-d serves the volume and whose copy says that the export is being deleted
\* is right; if it also says that the export is unavailable, no client has come in since.
Ends ==
    \A h \in qsd : xseen[h].phase = "deleting" =>
        /\ exports[h].phase = "deleting"
        /\ ~xseen[h].avail => ~exports[h].avail /\ exports[h].clients \subseteq xseen[h].clients

HostInv == NullWhenGone /\ Publishes /\ Ends

\* A node inside ConnectClient has made its claim, and so has one with a connection that
\* lives.
Joins ==
    \A n \in joining : seen[n].vol.export \in Nodes /\ n \in exports[seen[n].vol.export].clients
Counted == \A n \in Nodes : \A h \in conn[n] \ dead[n] : n \in exports[h].clients

\* Only a crash takes the server away from a connection.
Cuts == \A n \in Nodes : dead[n] \subseteq crashed

\* A wrapper that lets I/O pass to an NBD device has one that is served.
ServesIO ==
    \A n \in Nodes : dm[n].live /\ dm[n].lower \in Nodes
                        => dm[n].lower \in (conn[n] \ dead[n]) \cup crashed

ClientInv == Joins /\ Counted /\ Cuts /\ ServesIO

\* Where Status.AttachedToNodes answers the request there is, the wrappers are no longer
\* those that dm.Create makes.
Fresh(n) == dm[n].lower = "zero" /\ dm[n].live
Loaded == \A n \in Nodes : csi[n] \in {"staging", "in"} /\ n \in vol.attached => ~Fresh(n)

ServiceInv == DiskInv /\ HostInv /\ ClientInv /\ Loaded

\* The invariant implies the property.
LEMMA ServiceImplies == ServiceInv => StagedIsBacked
<1> SUFFICES ASSUME ServiceInv, NEW n \in Nodes, csi[n] = "in"
             PROVE  dm[n].lower # "none" /\ (dm[n].live => Reaches(n))
  BY DEF StagedIsBacked
<1>1. DeviceTypes /\ Answers(n) /\ Backed /\ ServesIO /\ Loaded
  BY TypeParts DEF ServiceInv, DiskInv, AllAnswer, ClientInv
<1>2. n \in vol.attached /\ dm[n].lower # "none" /\ ~Fresh(n)
  BY <1>1 DEF Answers, Loaded
<1>3. ASSUME dm[n].live PROVE Reaches(n)
  <2>1. dm[n].lower \in {"none", "zero", "lv"} \cup Nodes
    BY <1>1 DEF DeviceTypes, Wrappers
  <2>2. CASE dm[n].lower = "lv"
    BY <1>1, <2>2 DEF Backed, Reaches
  <2>3. CASE dm[n].lower \in Nodes
    BY <1>1, <1>3, <2>3 DEF ServesIO, Reaches
  <2> QED BY <1>2, <1>3, <2>1, <2>2, <2>3 DEF Fresh
<1> QED BY <1>2, <1>3

-----------------------------------------------------------------------------
(* When an effect is due. *)

LEMMA ExportDueFacts ==
    ASSUME CopyTypes, NEW n \in Nodes
    PROVE  /\ ExportDue(n) = "degrade" => xseen[n].phase \in {"live", "deleting"}
           /\ ExportDue(n) = "start" => xseen[n].phase = "live"
           /\ ExportDue(n) = "health" => xseen[n].phase = "live"
           /\ ExportDue(n) = "remove" =>
                 xseen[n].phase = "deleting" /\ ~xseen[n].avail /\ xseen[n].clients = {}
<1>1. xseen[n].phase \in {"none", "live", "deleting"} /\ xseen[n].avail \in BOOLEAN /\ xseen[n].path \in BOOLEAN
  BY CopyFacts, ExportFields
<1>2. CASE xseen[n].phase = "none"
  <2>1. ExportDue(n) = "none"
    BY <1>2 DEF ExportDue
  <2> QED BY <2>1
<1>3. CASE xseen[n].phase = "deleting"
  <2>1. ExportDue(n) = IF xseen[n].avail THEN "degrade" ELSE Draining(xseen[n])
    BY <1>3 DEF ExportDue
  <2> QED BY <1>3, <2>1 DEF Draining
<1>4. CASE xseen[n].phase = "live"
  <2>1. CASE ~xseen[n].path /\ xseen[n].avail
    <3>1. ExportDue(n) = "degrade"
      BY <1>4, <2>1 DEF ExportDue
    <3> QED BY <1>4, <3>1
  <2>2. CASE xseen[n].path \/ ~xseen[n].avail
    <3>1. ExportDue(n) \in {"start", "health", "none"}
      BY <1>4, <2>2 DEF ExportDue
    <3> QED BY <1>4, <3>1
  <2> QED BY <2>1, <2>2
<1> QED BY <1>1, <1>2, <1>3, <1>4

\* The clean-up concerns an export that the Volume names, and once it has nothing left to
\* do, a client by the copies is connected to a server.
LEMMA CleanupExport ==
    ASSUME CopyTypes, NEW n \in Nodes
    PROVE  LET h == seen[n].vol.export
           IN  /\ CleanupDue(n) = "leave" => h \in Nodes
               /\ CleanupDue(n) = "none" /\ h \in Nodes /\ seen[n].exp[h].uri /\ n \in seen[n].exp[h].clients
                     => h \in conn[n] \ dead[n]
<1> DEFINE h == seen[n].vol.export
<1>0. h \in Names
  BY CopyFacts, VolumeFields
<1>1. CASE h = None
  <2>1. CleanupDue(n) = "none"
    <3>1. ExportSeen(n).phase = "none" /\ ~Releases(n)
      BY <1>1 DEF ExportSeen, NoExport, Releases
    <3> QED BY <1>1, <3>1 DEF CleanupDue
  <2> QED BY <1>1, <2>1, NodesAssumption
<1>2. CASE h # None
  <2>1. h \in Nodes /\ ExportSeen(n) = seen[n].exp[h]
    BY <1>0, <1>2 DEF Names, ExportSeen
  <2>2. ASSUME CleanupDue(n) = "none", seen[n].exp[h].uri, n \in seen[n].exp[h].clients
        PROVE  h \in conn[n] \ dead[n]
    <3>1. ~(ExportSeen(n).phase = "none")
      <4>1. ASSUME ExportSeen(n).phase = "none" PROVE CleanupDue(n) = "clear"
        <5>1. ~Releases(n)
          BY <4>1 DEF Releases
        <5> QED BY <1>2, <4>1, <5>1 DEF CleanupDue
      <4> QED BY <2>2, <4>1
    <3>2. ~Releases(n)
      <4>1. ASSUME Releases(n) PROVE CleanupDue(n) \in {"suspend", "leave"}
        <5>1. CASE IsSuspended(n)
          BY <1>2, <2>1, <2>2, <3>1, <4>1, <5>1 DEF CleanupDue
        <5>2. CASE ~IsSuspended(n)
          BY <1>2, <2>1, <2>2, <3>1, <4>1, <5>2 DEF CleanupDue
        <5> QED BY <5>1, <5>2
      <4> QED BY <2>2, <4>1
    <3>3. ~MustDisconnect(n, h, seen[n].exp[h])
      BY <2>1, <3>1, <3>2 DEF Releases
    <3> QED BY <2>2, <3>3 DEF MustDisconnect
  <2> QED BY <2>1, <2>2
<1> QED BY <1>1, <1>2

\* An NBD device to connect is one of the export that the Volume names, which is available.
LEMMA TargetFacts ==
    ASSUME CopyTypes, NEW n \in Nodes
    PROVE  LET h == seen[n].vol.export
           IN  /\ Target(n) = NoWrappers \/ Target(n).lower = "lv" \/ Target(n).lower \in Nodes
               /\ Target(n).lower \in Nodes =>
                     /\ h \in Nodes /\ ExportSeen(n) = seen[n].exp[h]
                     /\ seen[n].exp[h].uri /\ seen[n].exp[h].avail
<1> DEFINE h == seen[n].vol.export
<1>0. h \in Names /\ ~NoExport.uri /\ NoWrappers.lower = "none"
  BY CopyFacts, VolumeFields DEF NoExport, NoWrappers
<1>1. CASE seen[n].pool.node = n
  <2>1. Target(n) = NoWrappers \/ Target(n).lower = "lv"
    BY <1>1 DEF Target
  <2> QED BY <1>0, <2>1, TablesAssumption
<1>2. CASE seen[n].pool.node # n /\ ~(ExportSeen(n).uri /\ ~ExportDegraded(ExportSeen(n)))
  <2>1. Target(n) = NoWrappers
    BY <1>2 DEF Target
  <2> QED BY <1>0, <2>1, TablesAssumption
<1>3. CASE seen[n].pool.node # n /\ ExportSeen(n).uri /\ ~ExportDegraded(ExportSeen(n))
  <2>1. Target(n).lower = h
    BY <1>3 DEF Target
  <2>2. h # None
    BY <1>0, <1>3 DEF ExportSeen
  <2>3. h \in Nodes /\ ExportSeen(n) = seen[n].exp[h]
    BY <1>0, <2>2 DEF Names, ExportSeen
  <2> QED BY <1>3, <2>1, <2>3 DEF ExportDegraded
<1> QED BY <1>1, <1>2, <1>3

\* What each branch of reconcileThinAttaching has found.
LEMMA AttachBranches ==
    ASSUME CopyTypes, NEW n \in Nodes
    PROVE  /\ AttachDue(n) = "join" => Target(n).lower \in Nodes
           /\ AttachDue(n) = "connect" => Target(n).lower \in Nodes /\ n \in ExportSeen(n).clients
           /\ AttachDue(n) \in {"record", "export", "none"} => ~Fresh(n)
<1>1. CASE dm[n].lower = "none" \/ ClaimedPool(n) # seen[n].pool
  <2>1. AttachDue(n) = "claim"
    BY <1>1 DEF AttachDue
  <2> QED BY <2>1
<1>2. CASE ~(dm[n].lower = "none" \/ ClaimedPool(n) # seen[n].pool)
  <2>1. CASE Target(n) = NoWrappers
    <3>1. Target(n).lower # "lv" /\ Target(n).lower \notin Nodes
      BY <2>1, TablesAssumption DEF NoWrappers
    <3>2. AttachDue(n) = "wait"
      BY <1>2, <2>1, <3>1 DEF AttachDue
    <3> QED BY <3>2
  <2>2. CASE Target(n).lower = "lv"
    <3>1. Target(n) # NoWrappers /\ Target(n).lower \notin Nodes
      BY <2>2, TablesAssumption DEF NoWrappers
    <3>2. CASE dm[n] # Target(n)
      <4>1. AttachDue(n) = "resume"
        BY <1>2, <2>2, <3>1, <3>2 DEF AttachDue
      <4> QED BY <4>1
    <3>3. CASE dm[n] = Target(n)
      <4>1. AttachDue(n) \in {"record", "export", "none"}
        BY <1>2, <2>2, <3>1, <3>3 DEF AttachDue
      <4> QED BY <2>2, <3>3, <4>1 DEF Fresh
    <3> QED BY <3>2, <3>3
  <2>3. CASE Target(n).lower \in Nodes
    <3>1. Target(n) # NoWrappers /\ Target(n).lower # "lv" /\ Target(n).lower # "zero"
      BY <2>3, TablesAssumption DEF NoWrappers
    <3>2. CASE n \notin ExportSeen(n).clients
      <4>1. AttachDue(n) = "join"
        BY <1>2, <2>3, <3>1, <3>2 DEF AttachDue
      <4> QED BY <2>3, <4>1
    <3>3. CASE n \in ExportSeen(n).clients /\ dm[n] # Target(n)
      <4>1. AttachDue(n) = "connect"
        BY <1>2, <2>3, <3>1, <3>3 DEF AttachDue
      <4> QED BY <2>3, <3>3, <4>1
    <3>4. CASE n \in ExportSeen(n).clients /\ dm[n] = Target(n)
      <4>1. AttachDue(n) \in {"record", "export", "none"}
        BY <1>2, <2>3, <3>1, <3>4 DEF AttachDue
      <4> QED BY <3>1, <3>4, <4>1 DEF Fresh
    <3> QED BY <3>2, <3>3, <3>4
  <2> QED BY <2>1, <2>2, <2>3, TargetFacts
<1> QED BY <1>1, <1>2

\* A node that leaves an export, joins it, connects or records its state.
LEMMA EffectFacts ==
    ASSUME CopyTypes, NEW n \in Nodes
    PROVE  LET h == seen[n].vol.export
           IN  /\ VolumeDue(n) = "leave" => h \in Nodes
               /\ VolumeDue(n) = "join" => h \in Nodes /\ seen[n].exp[h].uri /\ seen[n].exp[h].avail
               /\ VolumeDue(n) = "connect" => n \in joining \/ (h \in Nodes /\ h \in conn[n] \ dead[n])
               /\ VolumeDue(n) = "record" /\ Contains(AttachToNodes(n), n) => ~Fresh(n)
               /\ VolumeDue(n) # "connect" => n \notin joining
<1>1. CASE n \in joining
  <2>1. VolumeDue(n) = "connect"
    BY <1>1 DEF VolumeDue
  <2> QED BY <1>1, <2>1
<1>2. CASE n \notin joining /\ CleanupDue(n) # "none"
  <2>1. VolumeDue(n) = CleanupDue(n)
    BY <1>2 DEF VolumeDue
  <2> QED BY <1>2, <2>1, CleanupFacts, CleanupExport
<1>3. CASE n \notin joining /\ CleanupDue(n) = "none" /\ Contains(AttachToNodes(n), n)
  <2>1. VolumeDue(n) = AttachDue(n)
    BY <1>3 DEF VolumeDue
  <2>2. VolumeDue(n) # "leave"
    BY <2>1, AttachFacts
  <2> QED BY <1>3, <2>1, <2>2, AttachBranches, TargetFacts, CleanupExport
<1>4. CASE n \notin joining /\ CleanupDue(n) = "none" /\ ~Contains(AttachToNodes(n), n)
  <2>1. VolumeDue(n) = DetachDue(n)
    BY <1>4 DEF VolumeDue
  <2> QED BY <1>4, <2>1, DetachFacts
<1> QED BY <1>1, <1>2, <1>3, <1>4

-----------------------------------------------------------------------------
(* Steps that leave a part alone, or change one export. *)

LEMMA UnsetPath == [NoExport EXCEPT !.path = FALSE] = NoExport
<1>1. NoExport \in Export /\ NoExport.path = FALSE
  BY NullTypes DEF NoExport
<1>2. \A e \in Export : e.path = FALSE => [e EXCEPT !.path = FALSE] = e
  BY DEF Export
<1> QED BY <1>1, <1>2

LEMMA HostFrame ==
    ASSUME HostInv, UNCHANGED <<exports, xseen, publishing, qsd>>
    PROVE  HostInv'
BY DEF HostInv, NullWhenGone, Publishes, Ends

LEMMA ClientFrame ==
    ASSUME ClientInv, DeviceTypes,
           \A h \in Nodes : exports'[h].clients = exports[h].clients,
           joining' \subseteq joining, joining \subseteq Nodes,
           \A m \in joining' : seen'[m].vol = seen[m].vol,
           UNCHANGED <<dm, conn, dead, crashed>>
    PROVE  ClientInv'
<1>1. Joins'
  BY DEF ClientInv, Joins
<1>2. Counted'
  BY DEF ClientInv, Counted, DeviceTypes
<1>3. Cuts' /\ ServesIO'
  BY DEF ClientInv, Cuts, ServesIO
<1> QED BY <1>1, <1>2, <1>3 DEF ClientInv

LEMMA LoadedFrame ==
    ASSUME Loaded, UNCHANGED dm,
           \A m \in Nodes : csi'[m] \in {"staging", "in"} /\ m \in vol'.attached
                               => csi[m] \in {"staging", "in"} /\ m \in vol.attached
    PROVE  Loaded'
BY DEF Loaded, Fresh

\* A write to an export by another than its host's NBDExport reconciler.
LEMMA HostWrite ==
    ASSUME CopyTypes, HostInv, NEW h \in Nodes, NEW e,
           exports' = [exports EXCEPT ![h] = e], UNCHANGED <<xseen, publishing, qsd>>,
           e.phase # "none" \/ e = NoExport,
           exports[h].phase = "deleting" => e.phase = "deleting",
           e.avail => exports[h].avail,
           e.clients \subseteq exports[h].clients \/ exports[h].avail
    PROVE  HostInv'
<1>1. exports'[h] = e /\ \A m \in Nodes \ {h} : exports'[m] = exports[m]
  BY DEF CopyTypes
<1>2. NullWhenGone'
  BY <1>1 DEF HostInv, NullWhenGone
<1>3. Publishes'
  BY DEF HostInv, Publishes
<1>4. Ends'
  <2> SUFFICES ASSUME NEW m \in qsd, xseen[m].phase = "deleting"
               PROVE  /\ exports'[m].phase = "deleting"
                      /\ ~xseen[m].avail => ~exports'[m].avail /\ exports'[m].clients \subseteq xseen[m].clients
    BY DEF Ends
  <2>1. /\ exports[m].phase = "deleting"
        /\ ~xseen[m].avail => ~exports[m].avail /\ exports[m].clients \subseteq xseen[m].clients
    BY DEF HostInv, Ends
  <2>2. CASE m = h
    BY <1>1, <2>1, <2>2
  <2>3. CASE m # h
    <3>1. UNCHANGED exports[m]
      BY <2>3 DEF CopyTypes
    <3> QED BY <2>1, <3>1
  <2> QED BY <2>2, <2>3
<1> QED BY <1>2, <1>3, <1>4 DEF HostInv

\* A write by the host's NBDExport reconciler to an export that stays.
LEMMA HostOwnWrite ==
    ASSUME CopyTypes, HostInv, NEW n \in Nodes, NEW e, UpdateOwnExport(n, e),
           publishing' \subseteq publishing, UNCHANGED qsd, publishing \cup qsd \subseteq Nodes,
           e.phase = xseen[n].phase, xseen[n].phase \in {"live", "deleting"},
           e.clients = xseen[n].clients,
           e.avail => xseen[n].phase = "live"
    PROVE  HostInv' /\ \A h \in Nodes : exports'[h].clients = exports[h].clients
<1>1. /\ xseen[n] = exports[n] /\ exports'[n] = e
      /\ xseen'[n] = e \/ xseen'[n] = xseen[n]
      /\ \A m \in Nodes \ {n} : exports'[m] = exports[m] /\ xseen'[m] = xseen[m]
  BY DEF CopyTypes, UpdateOwnExport
<1>2. NullWhenGone'
  BY <1>1 DEF HostInv, NullWhenGone
<1>3. Publishes'
  <2>1. \A m \in publishing : xseen'[m].phase = xseen[m].phase
    BY <1>1
  <2> QED BY <2>1 DEF HostInv, Publishes
<1>4. Ends'
  <2> SUFFICES ASSUME NEW m \in qsd, xseen'[m].phase = "deleting"
               PROVE  /\ exports'[m].phase = "deleting"
                      /\ ~xseen'[m].avail =>
                            ~exports'[m].avail /\ exports'[m].clients \subseteq xseen'[m].clients
    BY DEF Ends
  <2>1. CASE m = n
    <3>1. exports'[n].phase = "deleting" /\ ~exports'[n].avail
      BY <1>1, <2>1
    <3>2. exports'[n].clients = xseen'[n].clients
      BY <1>1
    <3> QED BY <2>1, <3>1, <3>2
  <2>2. CASE m # n
    <3>1. exports'[m] = exports[m] /\ xseen'[m] = xseen[m]
      BY <1>1, <2>2
    <3> QED BY <3>1 DEF HostInv, Ends
  <2> QED BY <2>1, <2>2
<1>5. \A h \in Nodes : exports'[h].clients = exports[h].clients
  BY <1>1
<1> QED BY <1>2, <1>3, <1>4, <1>5 DEF HostInv

-----------------------------------------------------------------------------
(* Every step keeps the invariant. *)

\* What the steps start from.
LEMMA ServiceParts ==
    ASSUME ServiceInv
    PROVE  /\ CopyTypes /\ Lists /\ DeviceTypes /\ ProcessTypes /\ Uncloned /\ AllAnswer
           /\ HostInv /\ ClientInv /\ Loaded
           /\ joining \subseteq Nodes /\ publishing \cup qsd \subseteq Nodes
<1>1. CopyTypes /\ Lists /\ DeviceTypes /\ ProcessTypes
  BY TypeParts DEF ServiceInv, DiskInv
<1> QED BY <1>1 DEF ServiceInv, DiskInv, DeviceTypes, ProcessTypes

\* The effects of the Volume reconciler on its own connection to an export.
LEMMA ClientService ==
    ASSUME ServiceInv, NEW n \in Nodes, NEW due, due = VolumeDue(n),
           LeaveExport(n, due) \/ JoinExport(n, due) \/ ConnectClient(n, due)
    PROVE  HostInv' /\ ClientInv' /\ Loaded'
<1> DEFINE h == seen[n].vol.export
           old == seen[n].exp[h]
<1>0. /\ CopyTypes /\ Lists /\ DeviceTypes /\ HostInv /\ ClientInv /\ Loaded /\ joining \subseteq Nodes
      /\ Joins /\ Counted /\ Cuts /\ ServesIO /\ NullWhenGone
  BY ServiceParts DEF ClientInv, HostInv
<1>1. h \in Nodes
  BY <1>0, EffectFacts DEF LeaveExport, JoinExport, ConnectClient, Joins
<1>2. /\ old \in Export /\ exports[h] \in Export
      /\ NoExport.clients = {} /\ NoExport.phase = "none" /\ ~NoExport.uri
  BY <1>0, <1>1, CopyFacts DEF NoExport
\* The list of clients with the node's own entry taken out.
<1>3. ASSUME UpdateExport(n, h, [old EXCEPT !.clients = @ \ {n}]), UNCHANGED <<xseen, publishing, qsd>>
      PROVE  /\ HostInv'
             /\ \A m \in Nodes, g \in Nodes : m # n /\ m \in exports[g].clients => m \in exports'[g].clients
             /\ \A g \in Nodes \ {h} : exports'[g] = exports[g]
             /\ \A m \in Nodes : seen'[m].vol = seen[m].vol
  <2> DEFINE e == [old EXCEPT !.clients = @ \ {n}]
  <2>1. /\ old = exports[h] /\ exports' = [exports EXCEPT ![h] = e]
        /\ e.phase = old.phase /\ e.avail = old.avail /\ e.clients = old.clients \ {n}
        /\ e.phase # "none" \/ e = NoExport
    <3>1. old = exports[h] /\ exports' = [exports EXCEPT ![h] = e]
      BY <1>3 DEF UpdateExport
    <3>2. e.phase = old.phase /\ e.avail = old.avail /\ e.clients = old.clients \ {n}
      BY <1>2 DEF Export
    <3>3. old.phase = "none" => e = NoExport
      <4>1. old.phase = "none" => old = NoExport
        BY <1>0, <1>1, <3>1 DEF NullWhenGone
      <4>2. [NoExport EXCEPT !.clients = @ \ {n}] = NoExport
        BY DEF NoExport
      <4> QED BY <4>1, <4>2
    <3> QED BY <3>1, <3>2, <3>3
  <2>2. \A m \in Nodes : seen'[m].vol = seen[m].vol
    <3>1. CASE UNCHANGED seen
      BY <3>1
    <3>2. CASE seen' = [seen EXCEPT ![n].exp[h] = e]
      BY <1>0, <3>2 DEF CopyTypes, Copies
    <3> QED BY <1>3, <3>1, <3>2 DEF UpdateExport
  <2> HIDE DEF e, h, old
  <2>3. HostInv'
    BY <1>0, <1>1, <1>3, <2>1, HostWrite
  <2>4. exports'[h] = e /\ \A g \in Nodes \ {h} : exports'[g] = exports[g]
    BY <1>0, <1>1, <2>1 DEF CopyTypes
  <2> QED BY <2>1, <2>2, <2>3, <2>4
<1>4. CASE LeaveExport(n, due)
  <2>1. /\ conn' = [conn EXCEPT ![n] = @ \ {h}] /\ dead' = [dead EXCEPT ![n] = @ \ {h}]
        /\ UNCHANGED <<vol, xseen, joining, publishing, dm, qsd, crashed, csi>>
        /\ \/ UpdateExport(n, h, [old EXCEPT !.clients = @ \ {n}])
           \/ UNCHANGED <<exports, seen>>
    BY <1>4 DEF LeaveExport
  <2>2. n \notin joining /\ IsSuspended(n)
    <3>1. VolumeDue(n) = "leave"
      BY <1>4 DEF LeaveExport
    <3> QED BY <1>0, <3>1, DueFacts, EffectFacts
  <2>3. /\ \A m \in Nodes, g \in Nodes : m # n /\ m \in exports[g].clients => m \in exports'[g].clients
        /\ \A g \in Nodes \ {h} : exports'[g] = exports[g]
        /\ \A m \in Nodes : seen'[m].vol = seen[m].vol
    BY <1>3, <2>1
  <2>4. HostInv'
    BY <1>0, <1>3, <2>1, HostFrame
  <2>5. Joins'
    BY <1>0, <2>1, <2>2, <2>3 DEF Joins
  <2>6. /\ conn'[n] \ dead'[n] = (conn[n] \ dead[n]) \ {h} /\ dead'[n] \subseteq dead[n]
        /\ \A m \in Nodes \ {n} : conn'[m] = conn[m] /\ dead'[m] = dead[m]
    BY <1>0, <2>1 DEF DeviceTypes
  <2>7. Counted' /\ Cuts'
    <3>1. \A m \in Nodes : conn[m] \subseteq Nodes
      BY <1>0 DEF DeviceTypes
    <3>2. Counted'
      BY <1>0, <2>3, <2>6, <3>1 DEF Counted
    <3>3. Cuts'
      BY <1>0, <2>1, <2>6 DEF Cuts
    <3> QED BY <3>2, <3>3
  <2>8. ServesIO'
    <3>1. ~(dm[n].live /\ dm[n].lower \in Nodes)
      BY <2>2, TablesAssumption DEF IsSuspended
    <3> QED BY <1>0, <2>1, <2>6, <3>1 DEF ServesIO
  <2>9. Loaded'
    BY <1>0, <2>1, LoadedFrame
  <2> QED BY <2>4, <2>5, <2>7, <2>8, <2>9 DEF ClientInv
<1>5. CASE JoinExport(n, due)
  <2> DEFINE e == [old EXCEPT !.clients = @ \cup {n}]
  <2>1. /\ old = exports[h] /\ exports' = [exports EXCEPT ![h] = e]
        /\ seen' = [seen EXCEPT ![n].exp[h] = e] \/ UNCHANGED seen
        /\ joining' = joining \cup {n}
        /\ UNCHANGED <<vol, xseen, publishing, dm, conn, dead, qsd, crashed, csi>>
    BY <1>5 DEF JoinExport, UpdateExport, devices
  <2>2. old.uri /\ old.avail
    BY <1>0, <1>5, EffectFacts DEF JoinExport
  <2>3. /\ e.phase = old.phase /\ e.avail = old.avail /\ e.clients = old.clients \cup {n}
        /\ e.phase # "none"
    <3>1. e.phase = old.phase /\ e.avail = old.avail /\ e.clients = old.clients \cup {n}
      BY <1>2 DEF Export
    <3>2. old.phase # "none"
      BY <1>0, <1>1, <1>2, <2>1, <2>2 DEF NullWhenGone
    <3> QED BY <3>1, <3>2
  <2>4. \A m \in Nodes : seen'[m].vol = seen[m].vol
    <3>1. CASE UNCHANGED seen
      BY <3>1
    <3>2. CASE seen' = [seen EXCEPT ![n].exp[h] = e]
      BY <1>0, <3>2 DEF CopyTypes, Copies
    <3> QED BY <2>1, <3>1, <3>2
  <2> HIDE DEF e, old
  <2>5. HostInv'
    <3> HIDE DEF h
    <3> QED BY <1>0, <1>1, <2>1, <2>2, <2>3, HostWrite
  <2>6. exports'[h] = e /\ \A g \in Nodes : exports[g].clients \subseteq exports'[g].clients
    BY <1>0, <1>1, <2>1, <2>3 DEF CopyTypes
  <2>7. Joins'
    <3>1. n \in exports'[h].clients
      BY <2>3, <2>6
    <3> QED BY <1>0, <1>1, <2>1, <2>4, <2>6, <3>1 DEF Joins
  <2>8. Counted' /\ Cuts' /\ ServesIO'
    BY <1>0, <2>1, <2>6 DEF Counted, Cuts, ServesIO, DeviceTypes
  <2>9. Loaded'
    BY <1>0, <2>1, LoadedFrame
  <2> QED BY <2>5, <2>7, <2>8, <2>9 DEF ClientInv
<1>6. CASE ConnectClient(n, due)
  <2>1. /\ joining' = joining \ {n}
        /\ UNCHANGED <<vol, xseen, publishing, dead, qsd, crashed, csi>>
    BY <1>6 DEF ConnectClient
  <2>2. n \in joining \/ h \in conn[n] \ dead[n]
    BY <1>0, <1>6, EffectFacts DEF ConnectClient
  <2>3. n \in exports[h].clients
    BY <1>0, <2>2 DEF Joins, Counted
  <2>4. CASE h \in conn[n] \cup qsd
    <3>1. /\ conn' = [conn EXCEPT ![n] = @ \cup {h}]
          /\ dm' = [dm EXCEPT ![n] = [lower |-> h, live |-> TRUE, size |-> old.size]]
          /\ UNCHANGED <<exports, seen>>
      BY <1>6, <2>4 DEF ConnectClient
    <3>2. HostInv'
      BY <1>0, <2>1, <3>1, HostFrame
    <3>3. /\ conn'[n] = conn[n] \cup {h} /\ dm'[n].lower = h
          /\ \A m \in Nodes \ {n} : conn'[m] = conn[m] /\ dm'[m] = dm[m]
      BY <1>0, <3>1 DEF DeviceTypes
    <3>4. Joins' /\ Cuts'
      BY <1>0, <2>1, <3>1 DEF Joins, Cuts
    <3>5. Counted'
      BY <1>0, <2>1, <2>3, <3>1, <3>3 DEF Counted
    <3>6. ServesIO'
      BY <1>0, <2>1, <3>3 DEF ServesIO, Cuts
    <3>7. Loaded'
      BY <1>0, <1>1, <2>1, <3>3, TablesAssumption DEF Loaded, Fresh
    <3> QED BY <3>2, <3>4, <3>5, <3>6, <3>7 DEF ClientInv
  <2>5. CASE h \notin conn[n] \cup qsd
    <3>1. /\ \/ UpdateExport(n, h, [old EXCEPT !.clients = @ \ {n}])
             \/ UNCHANGED <<exports, seen>>
          /\ UNCHANGED <<conn, dm>>
      BY <1>6, <2>5 DEF ConnectClient
    <3>2. /\ \A m \in Nodes, g \in Nodes : m # n /\ m \in exports[g].clients => m \in exports'[g].clients
          /\ \A g \in Nodes \ {h} : exports'[g] = exports[g]
          /\ \A m \in Nodes : seen'[m].vol = seen[m].vol
      BY <1>3, <2>1, <3>1
    <3>3. HostInv'
      BY <1>0, <1>3, <2>1, <3>1, HostFrame
    <3>4. Joins'
      BY <1>0, <2>1, <3>2 DEF Joins
    <3>5. Counted'
      BY <1>0, <2>1, <2>5, <3>1, <3>2 DEF Counted, DeviceTypes
    <3>6. Cuts' /\ ServesIO'
      BY <1>0, <2>1, <3>1 DEF Cuts, ServesIO
    <3>7. Loaded'
      BY <1>0, <2>1, <3>1, LoadedFrame
    <3> QED BY <3>3, <3>4, <3>5, <3>6, <3>7 DEF ClientInv
  <2> QED BY <2>4, <2>5
<1> QED BY <1>4, <1>5, <1>6

\* The other effects of the Volume reconciler.
LEMMA VolumeService ==
    ASSUME ServiceInv, NEW n \in Nodes, NEW due, due = VolumeDue(n), VolumeEffect(n, due)
    PROVE  HostInv' /\ ClientInv' /\ Loaded'
<1>0. /\ CopyTypes /\ Lists /\ DeviceTypes /\ HostInv /\ ClientInv /\ Loaded /\ joining \subseteq Nodes
      /\ Joins /\ Counted /\ Cuts /\ ServesIO /\ NullWhenGone /\ AllAnswer
  BY ServiceParts DEF ClientInv, HostInv
\* Steps that change one node's wrappers alone.
<1>1. ASSUME \A m \in Nodes \ {n} : dm'[m] = dm[m],
             UNCHANGED <<exports, conn, dead, crashed, joining>>,
             \A m \in Nodes : seen'[m].vol = seen[m].vol,
             dm'[n] = dm[n] \/ ~dm'[n].live \/ dm'[n].lower \notin Nodes
      PROVE  ClientInv'
  <2>1. Joins' /\ Counted' /\ Cuts'
    BY <1>0, <1>1 DEF Joins, Counted, Cuts
  <2>2. ServesIO'
    BY <1>0, <1>1 DEF ServesIO
  <2> QED BY <2>1, <2>2 DEF ClientInv
<1>2. ASSUME \A m \in Nodes \ {n} : dm'[m] = dm[m], UNCHANGED <<vol, csi>>,
             dm'[n] = dm[n] \/ dm'[n].lower # "zero" \/ ~dm'[n].live
      PROVE  Loaded'
  BY <1>0, <1>2 DEF Loaded, Fresh
\* Steps that leave the devices and the lists of clients as they are.
<1>3. ASSUME \A h \in Nodes : exports'[h].clients = exports[h].clients,
             \A m \in joining : seen'[m].vol = seen[m].vol,
             UNCHANGED <<joining, devices>>
      PROVE  ClientInv'
  BY <1>0, <1>3, ClientFrame DEF devices
<1>4. CASE Suspend(n, due)
  <2>1. dm'[n].live = FALSE /\ \A m \in Nodes \ {n} : dm'[m] = dm[m]
    <3>1. dm[n] \in Wrappers /\ dm' = [dm EXCEPT ![n] = [dm[n] EXCEPT !.lower = "zero", !.live = FALSE]]
      BY <1>0, <1>4 DEF Suspend, DeviceTypes
    <3> QED BY <1>0, <3>1 DEF DeviceTypes, Wrappers
  <2>2. UNCHANGED <<vol, exports, seen, xseen, joining, publishing, conn, dead, qsd, crashed, csi>>
    BY <1>4 DEF Suspend, objects, copies
  <2> QED BY <1>0, <1>1, <1>2, <2>1, <2>2, HostFrame
<1>5. CASE LeaveExport(n, due) \/ JoinExport(n, due) \/ ConnectClient(n, due)
  BY <1>5, ClientService
<1>6. CASE RequestStop(n, due)
  <2> DEFINE e == [seen[n].exp[n] EXCEPT !.path = FALSE]
  <2>1. /\ seen[n].exp[n] = exports[n] /\ exports' = [exports EXCEPT ![n] = e]
        /\ seen' = [seen EXCEPT ![n].exp[n] = e] \/ UNCHANGED seen
        /\ UNCHANGED <<vol, xseen, joining, publishing, devices, csi>>
    BY <1>6 DEF RequestStop, UpdateExport
  <2>2. /\ e.phase = exports[n].phase /\ e.avail = exports[n].avail /\ e.clients = exports[n].clients
        /\ e.phase # "none" \/ e = NoExport
    <3>1. exports[n] \in Export
      BY <1>0, CopyFacts
    <3>2. e.phase = exports[n].phase /\ e.avail = exports[n].avail /\ e.clients = exports[n].clients
      BY <2>1, <3>1 DEF Export
    <3>3. exports[n].phase = "none" => exports[n] = NoExport
      BY <1>0 DEF NullWhenGone
    <3>4. [NoExport EXCEPT !.path = FALSE] = NoExport
      BY UnsetPath
    <3>5. exports[n].phase = "none" => e = NoExport
      BY <2>1, <3>3, <3>4
    <3> HIDE DEF e
    <3> QED BY <3>2, <3>5
  <2>3. \A m \in Nodes : seen'[m].vol = seen[m].vol
    <3>1. CASE UNCHANGED seen
      BY <3>1
    <3>2. CASE seen' = [seen EXCEPT ![n].exp[n] = e]
      BY <1>0, <3>2 DEF CopyTypes, Copies
    <3> QED BY <2>1, <3>1, <3>2
  <2> HIDE DEF e
  <2>4. HostInv'
    BY <1>0, <2>1, <2>2, HostWrite DEF devices
  <2>5. \A h \in Nodes : exports'[h].clients = exports[h].clients
    BY <1>0, <2>1, <2>2 DEF CopyTypes
  <2>6. ClientInv'
    BY <1>0, <1>3, <2>1, <2>3, <2>5
  <2> QED BY <1>0, <2>1, <2>4, <2>6, LoadedFrame DEF devices
<1>7. CASE DeleteExport(n, due)
  <2> DEFINE e == [exports[n] EXCEPT !.phase = "deleting"]
  <2>1. /\ exports' = [exports EXCEPT ![n] = e]
        /\ UNCHANGED <<vol, seen, xseen, joining, publishing, devices, csi>>
    BY <1>0, <1>7 DEF DeleteExport, copies, CopyTypes
  <2>2. e.phase = "deleting" /\ e.avail = exports[n].avail /\ e.clients = exports[n].clients
    <3>1. exports[n] \in Export
      BY <1>0, CopyFacts
    <3> QED BY <3>1 DEF Export
  <2> HIDE DEF e
  <2>3. HostInv'
    BY <1>0, <2>1, <2>2, HostWrite DEF devices
  <2>4. \A h \in Nodes : exports'[h].clients = exports[h].clients
    BY <1>0, <2>1, <2>2 DEF CopyTypes
  <2> QED BY <1>0, <1>3, <2>1, <2>3, <2>4, LoadedFrame DEF devices
<1>8. CASE CreateExport(n, due)
  <2> DEFINE e == [NoExport EXCEPT !.phase = "live", !.path = TRUE, !.size = seen[n].pool.size]
  <2>1. /\ exports[n].phase = "none" /\ exports' = [exports EXCEPT ![n] = e]
        /\ UNCHANGED <<vol, seen, xseen, joining, publishing, devices, csi>>
    BY <1>8 DEF CreateExport, copies
  <2>2. e.phase = "live" /\ ~e.avail /\ e.clients = {} /\ exports[n].clients = {}
    BY <1>0, <2>1 DEF NoExport, NullWhenGone
  <2> HIDE DEF e
  <2>3. HostInv'
    BY <1>0, <2>1, <2>2, HostWrite DEF devices
  <2>4. \A h \in Nodes : exports'[h].clients = exports[h].clients
    BY <1>0, <2>1, <2>2 DEF CopyTypes
  <2> QED BY <1>0, <1>3, <2>1, <2>3, <2>4, LoadedFrame DEF devices
<1>9. CASE ClearExport(n, due) \/ NameExport(n, due)
  <2>1. /\ n \notin joining
        /\ UNCHANGED <<exports, xseen, joining, publishing, devices, csi>>
    BY <1>0, <1>9, EffectFacts DEF ClearExport, NameExport
  <2>2. /\ vol'.attached = vol.attached
        /\ \A m \in Nodes \ {n} : seen'[m] = seen[m]
    <3>1. vol \in Volume
      BY <1>0 DEF CopyTypes
    <3>2. PICK k \in {None, n} : UpdateVolume(n, [seen[n].vol EXCEPT !.export = k])
      BY <1>9 DEF ClearExport, NameExport
    <3>3. vol' = [vol EXCEPT !.export = k]
      BY <3>2 DEF UpdateVolume
    <3>4. \A m \in Nodes \ {n} : seen'[m] = seen[m]
      BY <1>0, <3>2 DEF UpdateVolume, CopyTypes
    <3> QED BY <3>1, <3>3, <3>4 DEF Volume
  <2>3. ClientInv'
    BY <1>0, <1>3, <2>1, <2>2
  <2> QED BY <1>0, <2>1, <2>2, <2>3, HostFrame, LoadedFrame DEF devices
<1>10. CASE Attach(n, due)
  <2>1. /\ IF dm[n].lower = "none" THEN dm'[n].lower = "zero" ELSE dm'[n] = dm[n]
        /\ \A m \in Nodes \ {n} : dm'[m] = dm[m]
    BY <1>0, <1>10 DEF Attach, DeviceTypes
  <2>2. UNCHANGED <<vol, exports, xseen, joining, publishing, conn, dead, qsd, crashed, csi>>
    BY <1>10 DEF Attach
  <2>3. \A m \in Nodes : seen'[m].vol = seen[m].vol
    <3>1. CASE UNCHANGED seen
      BY <3>1
    <3>2. CASE seen' = [seen EXCEPT ![n].pool = ClaimedPool(n)]
      BY <1>0, <3>2 DEF CopyTypes, Copies
    <3> QED BY <1>10, <3>1, <3>2 DEF Attach, UpdatePool
  <2>4. ClientInv'
    <3>1. "zero" \notin Nodes
      BY TablesAssumption
    <3> QED BY <1>1, <2>1, <2>2, <2>3, <3>1
  <2>5. Loaded'
    BY <1>0, <2>1, <2>2 DEF Loaded, Fresh, AllAnswer, Answers
  <2> QED BY <1>0, <2>2, <2>4, <2>5, HostFrame
<1>11. CASE Resume(n, due) \/ RemoveWrappers(n, due)
  <2>1. /\ \A m \in Nodes \ {n} : dm'[m] = dm[m]
        /\ dm'[n].lower \in {"lv", "none"}
    <3>1. CASE Resume(n, due)
      <4>1. Target(n).lower = "lv"
        BY <1>0, <3>1, DueFacts DEF Resume
      <4> QED BY <1>0, <3>1, <4>1 DEF Resume, DeviceTypes
    <3>2. CASE RemoveWrappers(n, due)
      BY <1>0, <3>2 DEF RemoveWrappers, NoWrappers, DeviceTypes
    <3> QED BY <1>11, <3>1, <3>2
  <2>2. UNCHANGED <<vol, exports, seen, xseen, joining, publishing, conn, dead, qsd, crashed, csi>>
    BY <1>11 DEF Resume, RemoveWrappers, objects, copies
  <2>3. dm'[n] = NoWrappers \/ dm'[n].lower = "lv"
    BY <1>0, <1>11, DueFacts DEF Resume, RemoveWrappers, DeviceTypes
  <2>4. ~dm'[n].live \/ dm'[n].lower \notin Nodes
    BY <2>3, TablesAssumption DEF NoWrappers
  <2>5. ClientInv'
    BY <1>1, <2>1, <2>2, <2>4
  <2>6. Loaded'
    BY <1>2, <2>1, <2>2
  <2> QED BY <1>0, <2>2, <2>5, <2>6, HostFrame
<1>12. CASE ReleasePool(n, due)
  <2>1. \A m \in Nodes : seen'[m].vol = seen[m].vol
    <3>1. CASE UNCHANGED seen
      BY <3>1
    <3>2. CASE seen' = [seen EXCEPT ![n].pool = ReleasedPool(n)]
      BY <1>0, <3>2 DEF CopyTypes, Copies
    <3> QED BY <1>12, <3>1, <3>2 DEF ReleasePool, UpdatePool
  <2>2. UNCHANGED <<vol, exports, xseen, joining, publishing, devices, csi>>
    BY <1>12 DEF ReleasePool
  <2>3. ClientInv'
    BY <1>0, <1>3, <2>1, <2>2
  <2> QED BY <1>0, <2>2, <2>3, HostFrame, LoadedFrame DEF devices
<1>13. CASE RecordStatus(n, due)
  <2>1. /\ seen[n].vol = vol /\ vol' = RecordedVolume(n, Contains(AttachToNodes(n), n))
        /\ \A m \in Nodes \ {n} : seen'[m] = seen[m]
        /\ UNCHANGED <<exports, xseen, joining, publishing, devices, csi>>
    <3>1. /\ UpdateVolume(n, RecordedVolume(n, Contains(AttachToNodes(n), n)))
          /\ UNCHANGED <<exports, xseen, joining, publishing, devices, csi>>
      BY <1>13 DEF RecordStatus
    <3> QED BY <1>0, <3>1 DEF UpdateVolume, CopyTypes
  <2>2. n \notin joining /\ (Contains(AttachToNodes(n), n) => ~Fresh(n))
    <3>1. VolumeDue(n) = "record"
      BY <1>13 DEF RecordStatus
    <3> QED BY <1>0, <3>1, EffectFacts
  <2>3. /\ \A m \in Nodes \ {n} : m \in vol'.attached => m \in vol.attached
        /\ n \in vol'.attached => Contains(AttachToNodes(n), n)
    <3>1. vol \in Volume
      BY <1>0 DEF CopyTypes
    <3>2. CASE Contains(AttachToNodes(n), n)
      <4>1. vol'.attached = vol.attached \cup {n}
        BY <2>1, <3>1, <3>2 DEF RecordedVolume, Volume
      <4> QED BY <3>2, <4>1
    <3>3. CASE ~Contains(AttachToNodes(n), n)
      <4>1. vol'.attached = vol.attached \ {n}
        BY <2>1, <3>1, <3>3 DEF RecordedVolume, Volume
      <4> QED BY <4>1
    <3> QED BY <3>2, <3>3
  <2>4. ClientInv'
    BY <1>0, <1>3, <2>1, <2>2
  <2>5. Loaded'
    BY <1>0, <2>1, <2>2, <2>3 DEF Loaded, Fresh, devices
  <2> QED BY <1>0, <2>1, <2>4, <2>5, HostFrame DEF devices
<1> QED BY <1>4, <1>5, <1>6, <1>7, <1>8, <1>9, <1>10, <1>11, <1>12, <1>13 DEF VolumeEffect

\* The effects of the NBDExport reconciler. A host cuts the connections to its export only
\* when no client is left.
LEMMA ExportService ==
    ASSUME ServiceInv, NEW n \in Nodes, NEW due, due = ExportDue(n), ExportEffect(n, due)
    PROVE  HostInv' /\ ClientInv' /\ Loaded'
<1>0. /\ CopyTypes /\ DeviceTypes /\ HostInv /\ ClientInv /\ Loaded
      /\ joining \subseteq Nodes /\ publishing \cup qsd \subseteq Nodes
      /\ Joins /\ Counted /\ Cuts /\ ServesIO /\ NullWhenGone /\ Publishes /\ Ends
  BY ServiceParts DEF ClientInv, HostInv
<1>1. xseen[n] \in Export
  BY <1>0, CopyFacts
\* Steps that leave the devices and the lists of clients as they are.
<1>2. ASSUME \A h \in Nodes : exports'[h].clients = exports[h].clients,
             UNCHANGED <<vol, seen, joining, dm, conn, dead, crashed, csi>>
      PROVE  ClientInv' /\ Loaded'
  BY <1>0, <1>2, ClientFrame, LoadedFrame
<1>3. CASE DegradeExport(n, due)
  <2> DEFINE e == [xseen[n] EXCEPT !.avail = FALSE]
  <2>1. /\ UpdateOwnExport(n, e)
        /\ UNCHANGED <<vol, seen, joining, publishing, dm, conn, dead, qsd, crashed, csi>>
    BY <1>3 DEF DegradeExport, devices
  <2>2. e.phase = xseen[n].phase /\ e.clients = xseen[n].clients /\ ~e.avail
    BY <1>1 DEF Export
  <2>3. xseen[n].phase \in {"live", "deleting"}
    BY <1>0, <1>3, ExportDueFacts DEF DegradeExport
  <2> HIDE DEF e
  <2>4. HostInv' /\ \A h \in Nodes : exports'[h].clients = exports[h].clients
    BY <1>0, <2>1, <2>2, <2>3, HostOwnWrite
  <2> QED BY <1>2, <2>1, <2>4
<1>4. CASE StartExport(n, due)
  <2>1. /\ qsd' = qsd \cup {n} /\ publishing' = publishing \cup {n}
        /\ UNCHANGED <<vol, exports, seen, xseen, joining, dm, conn, dead, crashed, csi>>
    BY <1>4 DEF StartExport, objects, copies
  <2>2. xseen[n].phase = "live"
    BY <1>0, <1>4, ExportDueFacts DEF StartExport
  <2>3. NullWhenGone' /\ Publishes'
    BY <1>0, <2>1, <2>2 DEF NullWhenGone, Publishes
  <2>4. Ends'
    BY <1>0, <2>1, <2>2 DEF Ends
  <2> QED BY <1>2, <2>1, <2>3, <2>4 DEF HostInv
<1>5. CASE PublishExport(n)
  <2> DEFINE e == [xseen[n] EXCEPT !.uri = TRUE, !.avail = TRUE]
  <2>1. /\ UpdateOwnExport(n, e) \/ UNCHANGED <<exports, xseen>>
        /\ n \in publishing /\ publishing' = publishing \ {n}
        /\ UNCHANGED <<vol, seen, joining, dm, conn, dead, qsd, crashed, csi>>
    BY <1>5 DEF PublishExport, devices
  <2>2. e.phase = xseen[n].phase /\ e.clients = xseen[n].clients
    BY <1>1 DEF Export
  <2>3. xseen[n].phase = "live"
    BY <1>0, <2>1 DEF Publishes
  <2> HIDE DEF e
  <2>4. CASE UpdateOwnExport(n, e)
    <3>1. HostInv' /\ \A h \in Nodes : exports'[h].clients = exports[h].clients
      BY <1>0, <2>1, <2>2, <2>3, <2>4, HostOwnWrite
    <3> QED BY <1>2, <2>1, <3>1
  <2>5. CASE UNCHANGED <<exports, xseen>>
    <3>1. HostInv'
      BY <1>0, <2>1, <2>5 DEF HostInv, NullWhenGone, Publishes, Ends
    <3> QED BY <1>2, <2>1, <2>5, <3>1
  <2> QED BY <2>1, <2>4, <2>5
<1>6. CASE CheckHealth(n, due)
  <2> DEFINE e == [xseen[n] EXCEPT !.avail = FALSE]
  <2>1. /\ UpdateOwnExport(n, e) \/ UNCHANGED <<exports, xseen>>
        /\ UNCHANGED <<vol, seen, joining, publishing, dm, conn, dead, qsd, crashed, csi>>
    BY <1>6 DEF CheckHealth, devices
  <2>2. e.phase = xseen[n].phase /\ e.clients = xseen[n].clients /\ ~e.avail
    BY <1>1 DEF Export
  <2>3. xseen[n].phase = "live"
    BY <1>0, <1>6, ExportDueFacts DEF CheckHealth
  <2> HIDE DEF e
  <2>4. CASE UpdateOwnExport(n, e)
    <3>1. HostInv' /\ \A h \in Nodes : exports'[h].clients = exports[h].clients
      BY <1>0, <2>1, <2>2, <2>3, <2>4, HostOwnWrite
    <3> QED BY <1>2, <2>1, <3>1
  <2>5. CASE UNCHANGED <<exports, xseen>>
    BY <1>0, <1>2, <2>1, <2>5, HostFrame
  <2> QED BY <2>1, <2>4, <2>5
<1>7. CASE StopExport(n, due)
  <2>1. /\ n \in qsd /\ Cut(n)
        /\ UNCHANGED <<vol, exports, seen, xseen, joining, publishing, dm, conn, crashed, csi>>
    BY <1>7 DEF StopExport, objects, copies
  <2>2. exports[n].clients = {}
    <3>1. xseen[n].phase = "deleting" /\ ~xseen[n].avail /\ xseen[n].clients = {}
      BY <1>0, <1>7, ExportDueFacts DEF StopExport
    <3> QED BY <1>0, <2>1, <3>1 DEF Ends
  <2>3. \A m \in Nodes : n \notin conn[m] \ dead[m]
    BY <1>0, <2>2 DEF Counted
  <2>4. UNCHANGED dead
    <3>1. \A m \in Nodes : dead'[m] = dead[m]
      BY <2>1, <2>3 DEF Cut
    <3>2. dead = [m \in Nodes |-> dead[m]] /\ dead' = [m \in Nodes |-> dead'[m]]
      BY <1>0, <2>1 DEF Cut, DeviceTypes
    <3> QED BY <3>1, <3>2
  <2>5. HostInv'
    BY <1>0, <2>1 DEF Cut, HostInv, NullWhenGone, Publishes, Ends
  <2> QED BY <1>2, <2>1, <2>4, <2>5
<1>8. CASE RemoveFinalizer(n, due)
  <2>1. /\ xseen[n] = exports[n] /\ n \notin qsd
        /\ exports' = [exports EXCEPT ![n] = NoExport]
        /\ \A m \in Nodes \ {n} : xseen'[m] = xseen[m]
        /\ UNCHANGED <<vol, seen, joining, publishing, dm, conn, dead, qsd, crashed, csi>>
    BY <1>0, <1>8 DEF RemoveFinalizer, UpdateOwnExport, devices, CopyTypes
  <2>2. xseen[n].phase = "deleting" /\ xseen[n].clients = {}
    BY <1>0, <1>8, ExportDueFacts DEF RemoveFinalizer
  <2>3. exports'[n] = NoExport /\ \A m \in Nodes \ {n} : exports'[m] = exports[m]
    BY <1>0, <2>1 DEF CopyTypes
  <2>4. n \notin publishing
    BY <1>0, <2>2 DEF Publishes
  <2>5. NullWhenGone' /\ Publishes' /\ Ends'
    <3>1. NullWhenGone'
      BY <1>0, <2>3 DEF NullWhenGone
    <3>2. Publishes'
      BY <1>0, <2>1, <2>4 DEF Publishes
    <3>3. Ends'
      BY <1>0, <2>1, <2>3 DEF Ends
    <3> QED BY <3>1, <3>2, <3>3
  <2>6. \A h \in Nodes : exports'[h].clients = exports[h].clients
    BY <2>1, <2>2, <2>3 DEF NoExport
  <2> QED BY <1>2, <2>1, <2>5, <2>6 DEF HostInv
<1> QED BY <1>3, <1>4, <1>5, <1>6, <1>7, <1>8 DEF ExportEffect

\* Refreshes of copies, and the ThinPoolLv reconciler.
LEMMA WatchService ==
    ASSUME ServiceInv, NEW n \in Nodes, Watch(n) \/ PoolStep(n)
    PROVE  HostInv' /\ ClientInv' /\ Loaded'
<1>0. /\ CopyTypes /\ Lists /\ DeviceTypes /\ HostInv /\ ClientInv /\ Loaded
      /\ joining \subseteq Nodes /\ publishing \cup qsd \subseteq Nodes
      /\ NullWhenGone /\ Publishes /\ Ends
  BY ServiceParts DEF HostInv
<1>1. ASSUME \A m \in joining : seen'[m].vol = seen[m].vol,
             UNCHANGED <<vol, exports, joining, dm, conn, dead, crashed, csi>>
      PROVE  ClientInv' /\ Loaded'
  BY <1>0, <1>1, ClientFrame, LoadedFrame
<1>2. CASE SeeVolume(n)
  <2>1. n \notin joining /\ \A m \in Nodes \ {n} : seen'[m] = seen[m]
    BY <1>0, <1>2 DEF SeeVolume, CopyTypes
  <2> QED BY <1>0, <1>1, <1>2, <2>1, HostFrame DEF SeeVolume, objects, devices
<1>3. CASE SeePool(n)
  <2>1. n \notin joining /\ \A m \in Nodes \ {n} : seen'[m] = seen[m]
    BY <1>0, <1>3 DEF SeePool, CopyTypes
  <2> QED BY <1>0, <1>1, <1>3, <2>1, HostFrame DEF SeePool, objects, devices
<1>4. CASE \E h \in Nodes : SeeExport(n, h)
  <2>1. n \notin joining /\ \A m \in Nodes \ {n} : seen'[m] = seen[m]
    BY <1>0, <1>4 DEF SeeExport, CopyTypes
  <2> QED BY <1>0, <1>1, <1>4, <2>1, HostFrame DEF SeeExport, objects, devices
<1>5. CASE SeeOwnExport(n)
  <2>1. /\ n \notin publishing /\ xseen' = [xseen EXCEPT ![n] = exports[n]]
        /\ UNCHANGED <<vol, exports, seen, joining, publishing, dm, conn, dead, qsd, crashed, csi>>
    BY <1>5 DEF SeeOwnExport, objects, devices
  <2>2. xseen'[n] = exports[n] /\ \A m \in Nodes \ {n} : xseen'[m] = xseen[m]
    BY <1>0, <2>1 DEF CopyTypes
  <2>3. NullWhenGone' /\ Publishes' /\ Ends'
    <3>1. NullWhenGone' /\ Publishes'
      BY <1>0, <2>1, <2>2 DEF NullWhenGone, Publishes
    <3>2. Ends'
      BY <1>0, <2>1, <2>2 DEF Ends
    <3> QED BY <3>1, <3>2
  <2> QED BY <1>1, <2>1, <2>3 DEF HostInv
<1>6. CASE SeeOwnPool(n)
  BY <1>0, <1>1, <1>6, HostFrame DEF SeeOwnPool, objects, devices
<1>7. CASE PoolStep(n)
  <2>1. UNCHANGED <<vol, exports, seen, xseen, joining, publishing, dm, conn, dead, qsd, crashed, csi>>
    BY <1>7 DEF PoolStep, PoolEffect, ActivatePool, DeactivatePool, GrowThinLv, MatchThinLv, devices
  <2> QED BY <1>0, <1>1, <2>1, HostFrame
<1>8. CASE EndReconcile(n)
  BY <1>0, <1>1, <1>8, HostFrame DEF EndReconcile, objects, devices
<1> QED BY <1>2, <1>3, <1>4, <1>5, <1>6, <1>7, <1>8 DEF Watch

\* Requests, their answers and faults.
LEMMA UserService ==
    ASSUME ServiceInv, NEW n \in Nodes, Kubelet(n) \/ EndClone(n) \/ User(n) \/ Fault(n)
    PROVE  HostInv' /\ ClientInv' /\ Loaded'
<1>0. /\ CopyTypes /\ DeviceTypes /\ ProcessTypes /\ HostInv /\ ClientInv /\ Loaded
      /\ joining \subseteq Nodes /\ publishing \cup qsd \subseteq Nodes
      /\ Joins /\ Counted /\ Cuts /\ ServesIO /\ NullWhenGone /\ Publishes /\ Ends /\ AllAnswer
  BY ServiceParts DEF ClientInv, HostInv
\* Requests and answers change what users ask for.
<1>1. ASSUME \A m \in Nodes : csi'[m] \in {"staging", "in"} /\ m \in vol'.attached
                                 => csi[m] \in {"staging", "in"} /\ m \in vol.attached,
             UNCHANGED <<exports, seen, xseen, joining, publishing, dm, conn, dead, qsd, crashed>>
      PROVE  HostInv' /\ ClientInv' /\ Loaded'
  BY <1>0, <1>1, HostFrame, ClientFrame, LoadedFrame
<1>2. CASE Stage(n)
  <2>1. /\ csi[n] = "out" /\ csi' = [csi EXCEPT ![n] = "staging"]
        /\ UNCHANGED <<exports, seen, xseen, joining, publishing, dm, conn, dead, qsd, crashed>>
    BY <1>2 DEF Stage, copies, devices
  <2>2. vol'.attached = vol.attached
    <3>1. vol \in Volume
      BY <1>0 DEF CopyTypes
    <3> QED BY <1>2, <3>1 DEF Stage, Volume
  <2>3. n \notin vol.attached /\ \A m \in Nodes \ {n} : csi'[m] = csi[m]
    BY <1>0, <2>1 DEF AllAnswer, Answers, ProcessTypes
  <2> QED BY <1>1, <2>1, <2>2, <2>3
<1>3. CASE StageReturns(n) \/ UnstageReturns(n)
  <2>1. /\ UNCHANGED <<vol, exports, seen, xseen, joining, publishing, dm, conn, dead, qsd, crashed>>
        /\ csi[n] = "staging" \/ csi'[n] = "out"
        /\ \A m \in Nodes \ {n} : csi'[m] = csi[m]
    BY <1>0, <1>3 DEF StageReturns, UnstageReturns, objects, copies, devices, ProcessTypes
  <2> QED BY <1>1, <2>1
<1>4. CASE Unstage(n)
  <2>1. /\ csi[n] \in {"staging", "in"} /\ \A m \in Nodes \ {n} : csi'[m] = csi[m]
        /\ UNCHANGED <<exports, seen, xseen, joining, publishing, dm, conn, dead, qsd, crashed>>
    BY <1>0, <1>4 DEF Unstage, copies, devices, ProcessTypes
  <2>2. vol'.attached = vol.attached
    <3>1. vol \in Volume
      BY <1>0 DEF CopyTypes
    <3> QED BY <1>4, <3>1 DEF Unstage, Volume
  <2> QED BY <1>1, <2>1, <2>2
<1>5. CASE Expand(n) \/ BeginClone(n) \/ EndClone(n)
  <2>1. UNCHANGED <<vol, exports, seen, xseen, joining, publishing, dm, conn, dead, qsd, crashed, csi>>
    BY <1>5 DEF Expand, BeginClone, EndClone, copies, devices
  <2> QED BY <1>1, <2>1
\* A new process forgets the connections that no server answers.
<1>6. ASSUME NewProcess(n),
             UNCHANGED <<vol, exports, seen, xseen, dm, qsd, crashed, csi>>
      PROVE  HostInv' /\ ClientInv' /\ Loaded'
  <2>1. /\ joining' \subseteq joining /\ publishing' \subseteq publishing
        /\ \A m \in Nodes : conn'[m] \ dead'[m] = conn[m] \ dead[m] /\ dead'[m] \subseteq dead[m]
        /\ \A m \in Nodes : conn[m] \subseteq Nodes
    <3>1. joining' \subseteq joining /\ publishing' \subseteq publishing
      BY <1>6 DEF NewProcess
    <3>2. /\ conn'[n] = conn[n] \ dead[n] /\ dead'[n] = {}
          /\ \A m \in Nodes \ {n} : conn'[m] = conn[m] /\ dead'[m] = dead[m]
      BY <1>0, <1>6 DEF NewProcess, DeviceTypes
    <3>3. \A m \in Nodes : conn[m] \subseteq Nodes
      BY <1>0 DEF DeviceTypes
    <3> QED BY <3>1, <3>2, <3>3
  <2>2. HostInv'
    BY <1>0, <1>6, <2>1 DEF HostInv, NullWhenGone, Publishes, Ends
  <2>3. Joins' /\ Counted'
    BY <1>0, <1>6, <2>1 DEF Joins, Counted
  <2>4. Cuts' /\ ServesIO'
    BY <1>0, <1>6, <2>1 DEF Cuts, ServesIO
  <2>5. Loaded'
    BY <1>0, <1>6, LoadedFrame
  <2> QED BY <2>2, <2>3, <2>4, <2>5 DEF ClientInv
<1>7. CASE RestartManager(n) \/ ReplacePod(n)
  BY <1>6, <1>7 DEF RestartManager, ReplacePod, objects, copies
<1>8. CASE Terminate(n)
  <2> DEFINE e == [exports[n] EXCEPT !.path = @ /\ ~xseen[n].uri]
  <2>1. /\ exports' = [exports EXCEPT ![n] = e]
        /\ UNCHANGED <<vol, seen, xseen, joining, publishing, dm, conn, dead, qsd, crashed, csi>>
    BY <1>0, <1>8 DEF Terminate, copies, devices, CopyTypes
  <2>2. /\ e.phase = exports[n].phase /\ e.avail = exports[n].avail /\ e.clients = exports[n].clients
        /\ e.phase # "none" \/ e = NoExport
    <3>1. exports[n] \in Export
      BY <1>0, CopyFacts
    <3>2. e.phase = exports[n].phase /\ e.avail = exports[n].avail /\ e.clients = exports[n].clients
      BY <3>1 DEF Export
    <3>3. exports[n].phase = "none" => exports[n] = NoExport
      BY <1>0 DEF NullWhenGone
    <3>4. exports[n] = NoExport => e = NoExport
      <4>1. ~NoExport.path
        BY DEF NoExport
      <4>2. exports[n] = NoExport => e = [NoExport EXCEPT !.path = FALSE]
        BY <4>1
      <4> QED BY <4>2, UnsetPath
    <3> HIDE DEF e
    <3> QED BY <3>2, <3>3, <3>4
  <2> HIDE DEF e
  <2>3. HostInv'
    BY <1>0, <2>1, <2>2, HostWrite
  <2>4. \A h \in Nodes : exports'[h].clients = exports[h].clients
    BY <1>0, <2>1, <2>2 DEF CopyTypes
  <2> QED BY <1>0, <2>1, <2>3, <2>4, ClientFrame, LoadedFrame
<1>9. CASE CrashQsd(n)
  <2>1. /\ Cut(n) /\ crashed' = crashed \cup {n}
        /\ UNCHANGED <<vol, exports, seen, xseen, joining, publishing, dm, conn, csi>>
    BY <1>9 DEF CrashQsd, objects, copies
  <2>2. /\ qsd' \subseteq qsd
        /\ \A m \in Nodes : dead[m] \subseteq dead'[m] /\ dead'[m] \subseteq dead[m] \cup {n}
    BY <1>0, <2>1 DEF Cut, DeviceTypes
  <2>3. HostInv'
    BY <1>0, <2>1, <2>2 DEF HostInv, NullWhenGone, Publishes, Ends
  <2>4. Joins' /\ Counted'
    BY <1>0, <2>1, <2>2 DEF Joins, Counted
  <2>5. Cuts' /\ ServesIO'
    BY <1>0, <2>1, <2>2 DEF Cuts, ServesIO
  <2>6. Loaded'
    BY <1>0, <2>1, LoadedFrame
  <2> QED BY <2>3, <2>4, <2>5, <2>6 DEF ClientInv
<1> QED BY <1>2, <1>3, <1>4, <1>5, <1>7, <1>8, <1>9 DEF Kubelet, User, Fault

LEMMA InitService == Init => ServiceInv
<1> SUFFICES ASSUME Init PROVE ServiceInv
  OBVIOUS
<1>1. HostInv
  BY DEF Init, HostInv, NullWhenGone, Publishes, Ends
<1>2. ClientInv
  BY DEF Init, ClientInv, Joins, Counted, Cuts, ServesIO, NoWrappers
<1>3. Loaded
  BY DEF Init, Loaded
<1> QED BY <1>1, <1>2, <1>3, InitDisk DEF ServiceInv

LEMMA NextService ==
    ASSUME MaxClones = 0
    PROVE  ServiceInv /\ [Next]_vars => ServiceInv'
<1> SUFFICES ASSUME ServiceInv, [Next]_vars PROVE ServiceInv'
  OBVIOUS
<1>1. DiskInv'
  BY NextDisk DEF ServiceInv
<1>2. CASE Next
  <2>1. PICK n \in Nodes : SystemStep(n) \/ User(n) \/ Fault(n)
    BY <1>2 DEF Next
  <2>2. CASE VolumeStep(n)
    BY <1>1, <2>2, VolumeService DEF VolumeStep, ServiceInv
  <2>3. CASE ExportStep(n)
    BY <1>1, <2>3, ExportService DEF ExportStep, ServiceInv
  <2>4. CASE Watch(n) \/ PoolStep(n)
    BY <1>1, <2>4, WatchService DEF ServiceInv
  <2>5. CASE Kubelet(n) \/ EndClone(n) \/ User(n) \/ Fault(n)
    BY <1>1, <2>5, UserService DEF ServiceInv
  <2> QED BY <2>1, <2>2, <2>3, <2>4, <2>5 DEF SystemStep
<1>3. CASE UNCHANGED vars
  <2>1. UNCHANGED <<vol, exports, seen, xseen, joining, publishing, dm, conn, dead, qsd, crashed, csi>>
    BY <1>3 DEF vars, objects, copies, devices
  <2>2. HostInv' /\ Loaded'
    BY <2>1, HostFrame, LoadedFrame DEF ServiceInv
  <2>3. ClientInv'
    BY <2>1 DEF ServiceInv, ClientInv, Joins, Counted, Cuts, ServesIO
  <2> QED BY <1>1, <2>2, <2>3 DEF ServiceInv
<1> QED BY <1>2, <1>3

\* A volume of which no clone is made stays backed on every node where NodeStageVolume has
\* returned: its wrapper exists, and I/O that passes it reaches the thin LV where that is
\* active, directly or through a server that has not been told to stop. No host ends an
\* export under a client, whatever the age of the copies by which it counts them.
THEOREM StagedCorrect ==
    ASSUME MaxClones = 0
    PROVE  Spec => []StagedIsBacked
<1>1. Init => ServiceInv
  BY InitService
<1>2. ServiceInv /\ [Next]_vars => ServiceInv'
  BY NextService
<1>3. ServiceInv => StagedIsBacked
  BY ServiceImplies
<1> QED BY <1>1, <1>2, <1>3, PTL DEF Spec
=============================================================================
