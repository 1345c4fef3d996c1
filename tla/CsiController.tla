--------------------------- MODULE CsiController ----------------------------
(***************************************************************************)
(* The CSI controller plugin: creation, expansion and deletion of volumes, *)
(* and creation and deletion of snapshots.                                 *)
(*                                                                         *)
(* Calls run concurrently. Each reads objects from a cache that may be     *)
(* behind, writes to the API server (an Update only from the newest        *)
(* version), and polls the cache until the managers have done the work. A  *)
(* call may end at any moment because its deadline has passed, and the     *)
(* request is then made again.                                             *)
(*                                                                         *)
(* Volumes and Snapshots are objects of one kind here, apart in what they  *)
(* are used for. The managers (external to this module; LinearVolume and   *)
(* ThinPool have them) make an object available, grow it, and remove it    *)
(* when it is being deleted.                                               *)
(***************************************************************************)
EXTENDS Integers, FiniteSets

CONSTANTS Vols, Snaps,  \* names of volumes and of snapshots
          None,         \* no name
          Calls,        \* calls that can be in progress at a time
          Requests,     \* the requests of the container orchestrator
          Extent,       \* the extent size
          MaxInt,       \* bound: the largest integer of the width used for capacities
          MaxRequests,  \* bound: requests made
          MaxStages     \* bound: times that a volume is staged

Names == Vols \cup Snaps
Modes == {"Thin", "Linear"}
Types == {"block", "filesystem"}
AccessModes == {"single node", "multi node"}

\* A request. "params" are the mode and, as one value, the volume group and the wipe policy;
\* "caps" the volume capabilities; min and max the capacity range; "source" what a volume is
\* cloned from or a snapshot taken of. A field that an operation does not have is ignored.
Request == [op: {"create", "expand", "delete"}, name: Names, mode: Modes, params: Nat,
            caps: SUBSET [type: Types, access: AccessModes],
            min: -(MaxInt + 1)..MaxInt, max: -(MaxInt + 1)..MaxInt, source: Names \cup {None}]

ASSUME NamesAssumption == Vols \cap Snaps = {} /\ None \notin Names
ASSUME RequestsAssumption == \A r \in Requests : r \in Request
\* The extent size is a power of two, as is the number of non-negative integers.
ASSUME NumbersAssumption ==
    /\ Extent \in Nat \ {0} /\ MaxInt \in Nat /\ MaxInt > Extent /\ (MaxInt + 1) % Extent = 0
    /\ {MaxRequests, MaxStages} \subseteq Nat

VARIABLES
    obj,      \* the Volumes and Snapshots in the API server
    cache,    \* the plugin's cache of them
    call,     \* the calls in progress
    known,    \* what the orchestrator knows of each name
    requests, stages \* what the bounds count

vars == <<obj, cache, call, known, requests, stages>>

\* size and real are the sizes in Spec and in Status, avail the condition Available,
\* attached whether Spec.AttachToNodes or Status.AttachedToNodes names a node.
Object == [phase: {"none", "live", "deleting"}, mode: Modes, params: Nat, type: Types, access: SUBSET AccessModes,
           source: Names \cup {None}, size: 0..MaxInt, real: 0..MaxInt, avail: BOOLEAN, attached: BOOLEAN]
NoObject == [phase |-> "none", mode |-> "Thin", params |-> 0, type |-> "block", access |-> {}, source |-> None,
             size |-> 0, real |-> 0, avail |-> FALSE, attached |-> FALSE]

NoRequest == [op |-> "none"]
Idle == [pc |-> "idle", req |-> NoRequest, copy |-> NoObject]

TypeOK ==
    /\ {obj, cache} \subseteq [Names -> Object]
    /\ \A n \in Names : obj[n].real <= obj[n].size /\ (obj[n].phase = "none" => obj[n] = NoObject)
    /\ call \in [Calls -> [pc: {"idle", "asked", "create", "compare", "update", "wait", "delete", "confirm", "ok"},
                           req: Requests \cup {NoRequest}, copy: Object]]
    /\ known \in [Names -> {"no", "yes", "doomed", "gone"}]
    /\ requests \in 0..MaxRequests /\ stages \in 0..MaxStages

Init ==
    /\ obj = [n \in Names |-> NoObject] /\ cache = obj
    /\ call = [c \in Calls |-> Idle] /\ known = [n \in Names |-> "no"]
    /\ requests = 0 /\ stages = 0

-----------------------------------------------------------------------------
(* Checks of a request. *)

\* Signed arithmetic of the width whose largest value is MaxInt.
Wrap(x) == ((x + MaxInt + 1) % (2 * (MaxInt + 1))) - (MaxInt + 1)
Floor(x) == (x \div Extent) * Extent

\* The capacity for a range, or -1 when it is refused.
\* Mutant: the smaller capacity is rounded down as well.
ValidateCapacityDown(min, max) ==
    IF min < 0 \/ max < 0 \/ (min = 0 /\ max = 0) \/ (max # 0 /\ max < min) THEN -1
    ELSE IF min = 0 THEN Floor(max) ELSE Floor(min)
validateCapacity(min, max) ==
    LET up == Wrap(min + Extent - 1)
        low == Floor(up)
        high == Floor(IF max = 0 THEN up ELSE max)
    IN  IF min < 0 \/ max < 0 \/ (min = 0 /\ max = 0) \/ (max # 0 /\ max < min) \/ up < 0 THEN -1
        ELSE IF low = 0 THEN high
        ELSE IF high < low THEN -1 ELSE low
Capacity(r) == validateCapacity(r.min, r.max)

\* All capabilities are of one type. (A second filesystem capability is compared with the
\* first by address and always refused.)
ConsistentType(caps) ==
    \E t \in Types : caps # {} /\ (\A cap \in caps : cap.type = t) /\ (t = "filesystem" => Cardinality(caps) = 1)
getVolumeType(caps) == (CHOOSE cap \in caps : TRUE).type
getVolumeAccessModes(caps) == {cap.access : cap \in caps}

\* An object that can be copied into a volume with request r, as the cache has it.
IsSource(r, x) ==
    /\ x.phase = "live" /\ x.avail
    /\ x.params = r.params
    /\ getVolumeType(r.caps) = "block" /\ x.type = "block"
    /\ x.mode # "Linear"
    /\ r.max > 0 => x.real <= r.max
getVolumeContents(r) == r.source # None => IsSource(r, cache[r.source])

validateCapabilities(x, caps) ==
    ConsistentType(caps) /\ getVolumeType(caps) = x.type /\ getVolumeAccessModes(caps) \subseteq x.access

\* An existing volume that satisfies another request for its creation.
\* Mutant: the parameters are not compared.
ValidateVolumeAnyParams(r, x) ==
    /\ x.phase # "deleting"
    /\ Capacity(r) <= x.size /\ (r.max > 0 => x.size <= r.max)
    /\ r.source = x.source /\ r.mode = x.mode
    /\ validateCapabilities(x, r.caps)
validateVolume(r, x) ==
    /\ x.phase # "deleting"
    /\ Capacity(r) <= x.size /\ (r.max > 0 => x.size <= r.max)
    /\ r.source = x.source /\ r.params = x.params /\ r.mode = x.mode
    /\ validateCapabilities(x, r.caps)

\* What a snapshot can be taken of.
HasSnapshots(x) == x.phase = "live" /\ x.mode = "Thin" /\ x.type = "block" /\ x.avail

Accepted(r) ==
    IF r.name \in Vols
    THEN ConsistentType(r.caps) /\ Capacity(r) >= 0 /\ getVolumeContents(r)
    ELSE r.source \in Vols /\ HasSnapshots(cache[r.source])

\* The object that a request creates. A snapshot takes its volume group from its source, and
\* gets its size, which is only in its status, from the managers.
NewObject(r) ==
    IF r.name \in Vols
    THEN [NoObject EXCEPT !.phase = "live", !.mode = r.mode, !.params = r.params, !.type = getVolumeType(r.caps),
                          !.access = getVolumeAccessModes(r.caps), !.source = r.source, !.size = Capacity(r)]
    ELSE [NoObject EXCEPT !.phase = "live", !.params = cache[r.source].params, !.source = r.source,
                          !.size = cache[r.source].real]
Matches(r, x) ==
    IF r.name \in Vols THEN validateVolume(r, x) ELSE x.phase # "deleting" /\ r.source = x.source

-----------------------------------------------------------------------------
(* The calls. *)

At(c, op, pc) == call[c].pc = pc /\ call[c].req.op = op
Goto(c, pc, x) == call' = [call EXCEPT ![c].pc = pc, ![c].copy = x] /\ UNCHANGED known
Refuse(c) == call' = [call EXCEPT ![c] = Idle] /\ UNCHANGED known
Answer(c) ==
    /\ call' = [call EXCEPT ![c] = [Idle EXCEPT !.pc = "ok"]]
    /\ known' = CASE call[c].req.op = "create" -> [known EXCEPT ![call[c].req.name] = "yes"]
                  [] call[c].req.op = "delete" -> [known EXCEPT ![call[c].req.name] = "gone"]
                  [] OTHER -> known

\* WatchVolumeUntil, WatchSnapshotUntil: what a call waits for.
\* Mutant: the size must be more than what was asked for.
DoneBeyond(r, x) == x.phase # "none" /\ (IF r.op = "expand" THEN Capacity(r) < x.real ELSE x.avail)
Done(r, x) == x.phase # "none" /\ (IF r.op = "expand" THEN Capacity(r) <= x.real ELSE x.avail)
\* The object at hand is looked at before the first poll.
WaitFrom(c, x) == IF Done(call[c].req, x) THEN Answer(c) ELSE Goto(c, "wait", NoObject)
Poll(c) ==
    LET r == call[c].req IN
    /\ call[c].pc = "wait" /\ Done(r, cache[r.name]) /\ Answer(c)
    /\ UNCHANGED <<obj, cache, requests, stages>>

\* CreateVolume, CreateSnapshot.
CheckCreate(c) ==
    /\ At(c, "create", "asked")
    /\ IF Accepted(call[c].req) THEN Goto(c, "create", NewObject(call[c].req)) ELSE Refuse(c)
    /\ UNCHANGED <<obj, cache, requests, stages>>
\* The API server refuses a volume of size 0.
Create(c) ==
    LET n == call[c].req.name IN
    /\ At(c, "create", "create")
    /\ \/ /\ n \in Vols /\ call[c].copy.size = 0
          /\ Refuse(c) /\ UNCHANGED obj
       \/ /\ n \in Snaps \/ call[c].copy.size # 0
          /\ obj[n].phase = "none" /\ obj' = [obj EXCEPT ![n] = call[c].copy]
          /\ Goto(c, "wait", NoObject)
       \/ /\ n \in Snaps \/ call[c].copy.size # 0
          /\ obj[n].phase # "none" /\ UNCHANGED obj
          /\ Goto(c, "compare", NoObject)
    /\ UNCHANGED <<cache, requests, stages>>
\* The name exists. The object may not have reached the cache.
Compare(c) ==
    LET x == cache[call[c].req.name] IN
    /\ At(c, "create", "compare")
    /\ IF x.phase # "none" /\ Matches(call[c].req, x) THEN WaitFrom(c, x) ELSE Refuse(c)
    /\ UNCHANGED <<obj, cache, requests, stages>>

\* ControllerExpandVolume. The capability is optional.
CanExpand(r, x) ==
    /\ Capacity(r) >= 0
    /\ r.name \in Vols /\ x.phase # "none"
    /\ r.caps # {} => validateCapabilities(x, r.caps)
    /\ ~(x.mode = "Linear" /\ x.attached)
    /\ x.type # "filesystem"
CheckExpand(c) ==
    LET r == call[c].req
        x == cache[r.name]
    IN
    /\ At(c, "expand", "asked")
    /\ IF ~CanExpand(r, x) THEN Refuse(c)
       ELSE IF Capacity(r) > x.size THEN Goto(c, "update", x)
       ELSE WaitFrom(c, x)
    /\ UNCHANGED <<obj, cache, requests, stages>>
\* Mutant: the size is written whatever has become of the volume.
ExpandBlindly(c) ==
    LET n == call[c].req.name IN
    /\ At(c, "expand", "update") /\ obj[n].phase # "none"
    /\ obj' = [obj EXCEPT ![n].size = Capacity(call[c].req)]
    /\ Goto(c, "wait", NoObject)
    /\ UNCHANGED <<cache, requests, stages>>
Expand(c) ==
    LET n == call[c].req.name
        x == [call[c].copy EXCEPT !.size = Capacity(call[c].req)]
    IN
    /\ At(c, "expand", "update") /\ obj[n] = call[c].copy
    /\ obj' = [obj EXCEPT ![n] = x]
    /\ WaitFrom(c, x)
    /\ UNCHANGED <<cache, requests, stages>>
\* RetryOnConflict reads the volume again, unless it is gone.
RetryExpand(c) ==
    LET n == call[c].req.name IN
    /\ At(c, "expand", "update") /\ obj[n] # call[c].copy
    /\ IF obj[n].phase = "none" THEN Refuse(c) ELSE Goto(c, "asked", NoObject)
    /\ UNCHANGED <<obj, cache, requests, stages>>

\* DeleteVolume looks at the volume first, DeleteSnapshot does not.
CheckDelete(c) ==
    LET x == cache[call[c].req.name] IN
    /\ At(c, "delete", "asked")
    /\ \/ call[c].req.name \in Vols /\ x.phase = "none" /\ Answer(c)
       \/ call[c].req.name \in Vols /\ x.phase # "none" /\ x.attached /\ Refuse(c)
       \/ ~(call[c].req.name \in Vols /\ (x.phase = "none" \/ x.attached)) /\ Goto(c, "delete", NoObject)
    /\ UNCHANGED <<obj, cache, requests, stages>>
\* DeleteAndConfirm.
Delete(c) ==
    LET n == call[c].req.name IN
    /\ At(c, "delete", "delete")
    /\ IF obj[n].phase = "none" THEN Answer(c) /\ UNCHANGED obj
       ELSE obj' = [obj EXCEPT ![n].phase = "deleting"] /\ Goto(c, "confirm", NoObject)
    /\ UNCHANGED <<cache, requests, stages>>
\* Mutant: the deletion is confirmed when it has begun.
ConfirmBegun(c) ==
    /\ At(c, "delete", "confirm") /\ cache[call[c].req.name].phase # "live" /\ Answer(c)
    /\ UNCHANGED <<obj, cache, requests, stages>>
Confirm(c) ==
    /\ At(c, "delete", "confirm") /\ cache[call[c].req.name].phase = "none" /\ Answer(c)
    /\ UNCHANGED <<obj, cache, requests, stages>>

\* The deadline passes, the connection is lost, or an Update has conflicted too often.
GiveUp(c) ==
    /\ call[c].pc \notin {"idle", "ok"} /\ Refuse(c)
    /\ UNCHANGED <<obj, cache, requests, stages>>

Watch(n) ==
    /\ cache[n] # obj[n] /\ cache' = [cache EXCEPT ![n] = obj[n]]
    /\ UNCHANGED <<obj, call, known, requests, stages>>

-----------------------------------------------------------------------------
(* The orchestrator and the managers. *)

Busy(ops, n) == \E c \in Calls : call[c].pc \notin {"idle", "ok"} /\ call[c].req.op \in ops /\ call[c].req.name = n

\* The orchestrator makes one call at a time to create or delete an object. It deletes what it
\* has created and does not use, insists until it is deleted, and does not use the name again
\* (pvc-UID). It expands what it has created.
MayRequest(r) ==
    CASE r.op = "create" -> known[r.name] \in {"no", "yes"} /\ ~Busy({"create", "delete"}, r.name)
      [] r.op = "expand" -> known[r.name] = "yes"
      [] r.op = "delete" -> known[r.name] \in {"yes", "doomed"} /\ ~obj[r.name].attached /\ ~Busy({"create", "delete"}, r.name)
Ask(c, r) ==
    /\ call[c].pc \in {"idle", "ok"} /\ requests < MaxRequests /\ MayRequest(r)
    /\ call' = [call EXCEPT ![c] = [pc |-> "asked", req |-> r, copy |-> NoObject]]
    /\ known' = IF r.op = "delete" THEN [known EXCEPT ![r.name] = "doomed"] ELSE known
    /\ requests' = requests + 1
    /\ UNCHANGED <<obj, cache, stages>>

\* A node adds itself to Spec.AttachToNodes, or takes itself off.
Stage(n) ==
    /\ n \in Vols /\ known[n] = "yes" /\ ~obj[n].attached /\ stages < MaxStages /\ stages' = stages + 1
    /\ obj' = [obj EXCEPT ![n].attached = TRUE]
    /\ UNCHANGED <<cache, call, known, requests>>
Unstage(n) ==
    /\ obj[n].attached /\ obj' = [obj EXCEPT ![n].attached = FALSE]
    /\ UNCHANGED <<cache, call, known, requests, stages>>

Provide(n) ==
    /\ obj[n].phase = "live" /\ (~obj[n].avail \/ obj[n].real < obj[n].size)
    /\ obj' = [obj EXCEPT ![n].avail = TRUE, ![n].real = obj[n].size]
    /\ UNCHANGED <<cache, call, known, requests, stages>>
Remove(n) ==
    /\ obj[n].phase = "deleting" /\ obj' = [obj EXCEPT ![n] = NoObject]
    /\ UNCHANGED <<cache, call, known, requests, stages>>

-----------------------------------------------------------------------------
Step(c) ==
    \/ CheckCreate(c) \/ Create(c) \/ Compare(c) \/ Poll(c)
    \/ CheckExpand(c) \/ Expand(c) \/ RetryExpand(c)
    \/ CheckDelete(c) \/ Delete(c) \/ Confirm(c)

Next ==
    \/ \E c \in Calls : Step(c) \/ GiveUp(c) \/ \E r \in Requests : Ask(c, r)
    \/ \E n \in Names : Watch(n) \/ Provide(n) \/ Remove(n) \/ Stage(n) \/ Unstage(n)

Spec == Init /\ [][Next]_vars

\* Calls go on, the cache follows, and the managers do their work.
FairSpec ==
    /\ Spec
    /\ \A c \in Calls : WF_vars(Step(c))
    /\ \A n \in Names : WF_vars(Watch(n)) /\ WF_vars(Provide(n) \/ Remove(n))

-----------------------------------------------------------------------------
(* Properties. *)

Answered(c, op) == call[c].req.op = op /\ call[c].pc # "ok" /\ call'[c].pc = "ok"

\* validateCapacity finds the smallest multiple of the extent size in the range (the largest,
\* when there is only a limit), and refuses a range only if it is malformed or holds none.
Multiples == {Extent * k : k \in 0..(MaxInt \div Extent)}
InRange(r) == {x \in Multiples : r.min <= x /\ (r.max > 0 => x <= r.max)}
WellFormed(r) == r.min >= 0 /\ r.max >= 0 /\ r.min + r.max > 0
CapacityIsClosest ==
    \A c \in Calls : call[c].pc = "asked" /\ call[c].req.op # "delete" =>
        LET r == call[c].req IN
        IF ~WellFormed(r) \/ InRange(r) = {} THEN Capacity(r) = -1
        ELSE /\ Capacity(r) \in InRange(r)
             /\ \A x \in InRange(r) : IF r.min > 0 THEN Capacity(r) <= x ELSE x <= Capacity(r)

\* A successful CreateVolume or CreateSnapshot means that the object exists, is available and
\* is what was asked for, also when another request made it and the cache is old. A successful
\* ControllerExpandVolume means that the volume has the size, unless it is being deleted.
CreatedAsAsked(r, x) ==
    /\ x.phase = "live" /\ x.avail /\ x.source = r.source
    /\ r.name \in Vols => /\ x.mode = r.mode /\ x.params = r.params /\ Capacity(r) <= x.size
                          /\ \A cap \in r.caps : cap.type = x.type /\ cap.access \in x.access
DoneAsAsked ==
    [][\A c \in Calls :
        LET r == call[c].req IN
        /\ Answered(c, "create") => CreatedAsAsked(r, obj[r.name])
        /\ Answered(c, "expand") /\ known[r.name] = "yes" => Capacity(r) <= obj[r.name].real]_vars

\* A successful DeleteVolume or DeleteSnapshot means that the object is gone: the cache never
\* takes an object for deleted that it has not seen yet.
DeletedIsGone == [][\A c \in Calls : Answered(c, "delete") => obj[call[c].req.name].phase = "none"]_vars

\* Concurrent expansions never shrink a volume, and a Linear volume grows only while no node
\* uses it.
GrowsInOrder ==
    [][\A n \in Vols : obj[n].phase # "none" /\ obj'[n].phase # "none" /\ obj'[n].size # obj[n].size =>
        obj'[n].size > obj[n].size /\ ~(obj[n].mode = "Linear" /\ obj[n].attached)]_vars

\* A call that is not given up returns, unless its volume is being deleted meanwhile.
CallsReturn ==
    \A c \in Calls : (call[c].pc = "asked") ~>
        (call[c].pc \in {"idle", "ok"} \/ (call[c].req.op = "expand" /\ known[call[c].req.name] # "yes"))
=============================================================================
