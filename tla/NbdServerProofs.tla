-------------------------- MODULE NbdServerProofs ---------------------------
(***************************************************************************)
(* Proofs about NbdServer, for every finite set of exports and every value *)
(* of the bounds: caches of any age, any number of restarts of the pod and *)
(* of crashes of the daemon, at any point of any reconcile.                *)
(***************************************************************************)
EXTENDS NbdServer, FiniteSetTheorems, TLAPS

(* The inductive invariant. *)

\* A copy that the manager read in this state lets it withdraw the export.
Drained(x) == x.phase = "deleting" /\ ExportDegraded(x) /\ ~x.client

Working == {"mark", "start", "export", "publish", "health"}
Withdrawing == {"unexport", "unadd", "forget", "finish"}
Pcs == {"idle", "degrade"} \cup Working \cup Withdrawing

\* What every version of an export has in common.
ValueOK(x) ==
    /\ x.client \/ x.avail => x.uri
    /\ x.phase = "none" => x = NoExport
    /\ x.phase = "deleting" => ~x.path

\* The daemon's devices bear the numbers of the table, in which each number occurs once.
TableOK ==
    /\ \A e, f \in Exports : m[e] # None /\ m[e] = m[f] => e = f
    /\ \A e \in Exports, k \in Numbers : dev[k] = e => m[e] = k /\ k # None

\* Once the channel is closed nothing is open in the daemon, nor will be, but for the
\* exports that were starting then; and a daemon that does not run has nothing open.
ShutdownOK ==
    /\ term = "gone" => closes > 0
    /\ closes = 2 => term = "gone"
    /\ closes > 0 => /\ Shutdown
                     /\ \A k \in Numbers : dev[k] # None => dev[k] \in overtaken
                     /\ \A e \in Exports : pc[e] \in {"start", "export"} => e \in overtaken
    /\ ~up => (\A k \in Numbers : dev[k] = None) /\ (\A e \in Exports : pub[e] = None)

\* What a reconcile relies on at each of its steps: while it withdraws the export, no
\* client is there and none can come.
StepOK(e) ==
    /\ pc[e] = "idle" => copy[e] = NoExport
    /\ pc[e] \in Working => copy[e].phase = "live"
    /\ pc[e] \in {"start", "export", "publish"} => ~copy[e].uri
    /\ pc[e] \in Withdrawing \cup {"degrade"} => copy[e].phase = "deleting"
    /\ pc[e] \in Withdrawing => ~obj[e].avail /\ ~obj[e].client
    /\ pc[e] \in {"forget", "finish"} => \A k \in Numbers : dev[k] # e
    /\ pc[e] = "publish" /\ crashes = 0 /\ e \notin overtaken => pub[e] # None

\* How far the cache and the copy of a reconcile may lag behind the API server. That an
\* export is Drained, once seen, stays true; and an export that was seen in deletion before
\* it was started is never started.
CopyOK(e) ==
    /\ ValueOK(obj[e]) /\ ValueOK(cache[e]) /\ ValueOK(copy[e])
    /\ "live" \in {cache[e].phase, copy[e].phase} => obj[e].phase # "none"
    /\ copy[e].phase = "live" /\ cache[e].phase = "deleting" => obj[e].phase = "deleting"
    /\ "deleting" \in {cache[e].phase, copy[e].phase} /\ obj[e].uri => obj[e].phase = "deleting"
    /\ Drained(cache[e]) => ~obj[e].avail /\ ~obj[e].client
    /\ copy[e].phase = "deleting" /\ copy[e].uri /\ cache[e].phase = "live" => ~obj[e].uri
    /\ copy[e].phase = "deleting" /\ ~copy[e].uri =>
          /\ obj[e].phase = "deleting" /\ ~obj[e].uri
          /\ cache[e].phase = "deleting" /\ ~cache[e].uri
          /\ ~queued[e]
    /\ (queued[e] \/ copy[e].phase # "none") /\ cache[e].phase = "deleting" /\ ~cache[e].uri =>
          obj[e].phase = "deleting" /\ ~obj[e].uri

\* ServedAsDeclared of one export.
DeclaredOK(e) ==
    /\ obj[e].phase = "none" => pub[e] = None /\ \A k \in Numbers : dev[k] # e
    /\ obj[e].avail /\ crashes = 0 /\ e \notin overtaken => pub[e] # None

SharedOK == TypeOK /\ TableOK /\ ServesOwnDevice /\ ShutdownOK
ExportOK(e) == StepOK(e) /\ CopyOK(e) /\ DeclaredOK(e)
Inv == SharedOK /\ \A e \in Exports : ExportOK(e)

-----------------------------------------------------------------------------
(* The table of device numbers. *)

\* There are more numbers than exports.
LEMMA NumbersOutnumberExports ==
  ASSUME NEW f \in [Exports -> Numbers \cup {None}]
  PROVE  \E k \in Numbers : \A e \in Exports : f[e] # k
  <1> DEFINE c == Cardinality(Exports)
             used == {f[e] : e \in Exports}
  <1>1. c \in Nat
    BY ExportsAssumption, FS_CardinalityType DEF ExportsAssumption
  <1>2. IsFiniteSet(used) /\ Cardinality(used) <= c
    <2>1. f \in Surjection(Exports, used)
      BY DEF Surjection
    <2>2. QED
      BY <2>1, ExportsAssumption, FS_Surjection DEF ExportsAssumption
  <1>3. 0 \in Int /\ 2 * c \in Int /\ ~(0 > 2 * c)
    BY <1>1
  <1>4. Cardinality(Numbers) = 2 * c - 0 + 1
    BY <1>3, FS_Interval DEF Numbers
  <1>5. ASSUME Numbers \subseteq used
        PROVE  FALSE
    <2>1. Cardinality(Numbers) <= Cardinality(used)
      BY <1>2, <1>5, FS_Subset
    <2>2. Cardinality(used) \in Nat
      BY <1>2, FS_CardinalityType
    <2>3. QED
      BY <1>1, <1>2, <1>4, <2>1, <2>2
  <1>6. QED
    BY <1>5

\* The number that nodeName gives is a number, and is no other export's.
LEMMA NodeName ==
  ASSUME TypeOK, TableOK, ServesOwnDevice, NEW e \in Exports
  PROVE  /\ nodeName(e) \in Numbers /\ nodeName(e) # None
         /\ m[e] # None => nodeName(e) = m[e]
         /\ dev[nodeName(e)] \in {None, e}
         /\ \A f \in Exports : f # e => m[f] # nodeName(e) /\ pub[f] # nodeName(e)
  <1> USE DEF TypeOK
  <1>1. CASE m[e] # None
    <2>1. nodeName(e) = m[e] /\ m[e] \in Numbers
      BY <1>1 DEF nodeName
    <2>2. QED
      BY <1>1, <2>1 DEF TableOK, ServesOwnDevice
  <1>2. CASE m[e] = None
    <2>1. PICK k \in Numbers : \A f \in Exports : m[f] # k
      BY NumbersOutnumberExports
    <2>2. dev[k] = None
      BY <2>1 DEF TableOK
    <2>3. \A f \in Exports : pub[f] # k
      BY <1>2, <2>1, <2>2, ExportsAssumption DEF ServesOwnDevice, ExportsAssumption
    <2>4. \E j \in Numbers : dev[j] = None /\ \A f \in Exports : j \notin {m[f], pub[f]}
      BY <2>1, <2>2, <2>3
    <2>5. nodeName(e) = CHOOSE j \in Numbers : dev[j] = None /\ \A f \in Exports : j \notin {m[f], pub[f]}
      BY <1>2 DEF nodeName
    <2>6. nodeName(e) \in Numbers /\ dev[nodeName(e)] = None
          /\ \A f \in Exports : nodeName(e) \notin {m[f], pub[f]}
      BY <2>4, <2>5
    <2>7. QED
      BY <1>2, <2>6
  <1>3. QED
    BY <1>1, <1>2

-----------------------------------------------------------------------------
(* Every step keeps the invariant. *)

LEMMA NullExport == NoExport \in Export /\ ValueOK(NoExport)
  BY DEF NoExport, Export, ValueOK

\* What concerns one export survives a step that neither changes what is known of it nor
\* opens or withdraws what is its own.
LEMMA OtherExport ==
  ASSUME NEW f \in Exports, ExportOK(f), crashes' = crashes, f \in overtaken => f \in overtaken',
         UNCHANGED <<obj[f], cache[f], copy[f], queued[f], pc[f], pub[f]>>,
         \A k \in Numbers : dev'[k] = f => dev[k] = f
  PROVE  ExportOK(f)'
  BY DEF ExportOK, StepOK, CopyOK, DeclaredOK, ValueOK, Drained, ExportDegraded

LEMMA InvInit == Init => Inv
  <1> SUFFICES ASSUME Init
               PROVE  Inv
    OBVIOUS
  <1>1. TypeOK
    BY NullExport, BoundsAssumption DEF Init, TypeOK, BoundsAssumption
  <1>2. TableOK /\ ServesOwnDevice /\ ShutdownOK
    BY ExportsAssumption DEF Init, TableOK, ServesOwnDevice, ShutdownOK, ExportsAssumption
  <1>3. ASSUME NEW e \in Exports
        PROVE  ExportOK(e)
    <2>1. obj[e] = NoExport /\ cache[e] = NoExport /\ copy[e] = NoExport /\ pc[e] = "idle"
      BY DEF Init
    <2>2. StepOK(e) /\ DeclaredOK(e)
      BY <2>1, ExportsAssumption DEF Init, StepOK, DeclaredOK, Working, Withdrawing, NoExport, ExportsAssumption
    <2>3. CopyOK(e)
      BY <2>1, NullExport DEF CopyOK, NoExport, Drained
    <2>4. QED
      BY <2>2, <2>3 DEF ExportOK
  <1>4. QED
    BY <1>1, <1>2, <1>3 DEF Inv, SharedOK

\* A step of the users of an export, or of the cleanup, that only changes the object. One
\* that is created anew was overtaken by nothing.
ObjectStep(e, x) ==
    /\ obj' = [obj EXCEPT ![e] = x] /\ UNCHANGED <<manager, daemon, term, closes, crashes>>
    /\ \/ UNCHANGED overtaken
       \/ /\ overtaken' = overtaken \ {e}
          /\ pc[e] \notin {"start", "export"} /\ \A k \in Numbers : dev[k] # e
CountsOK ==
    /\ creates \in 0..MaxCreates /\ joins \in 0..MaxJoins /\ terms \in 0..MaxTerms
    /\ crashes \in 0..MaxCrashes

LEMMA ObjectStepKeeps ==
  ASSUME Inv, NEW e \in Exports, NEW x \in Export, ObjectStep(e, x), CountsOK', ExportOK(e)'
  PROVE  Inv'
  <1>1. TypeOK'
    BY DEF Inv, SharedOK, TypeOK, ObjectStep, manager, daemon, CountsOK
  <1>2. TableOK' /\ ServesOwnDevice' /\ ShutdownOK'
    BY DEF Inv, SharedOK, TableOK, ServesOwnDevice, ShutdownOK, Shutdown, ObjectStep, manager, daemon
  <1>3. ASSUME NEW f \in Exports, f # e
        PROVE  ExportOK(f)'
    BY <1>3, OtherExport DEF Inv, SharedOK, TypeOK, ObjectStep, manager, daemon
  <1>4. QED
    BY <1>1, <1>2, <1>3 DEF Inv, SharedOK

\* The users' steps.
LEMMA UserSteps ==
  ASSUME Inv, NEW e \in Exports,
         \/ AskStop(e) \/ CreateExport(e) \/ RequestStop(e) \/ DeleteExport(e)
         \/ JoinExport(e) \/ LeaveExport(e)
  PROVE  Inv'
  <1> DEFINE x == obj[e]
  <1> USE DEF counts, shutdown
  <1>0. /\ ExportOK(e) /\ CountsOK
        /\ x \in Export /\ cache[e] \in Export /\ copy[e] \in Export
        /\ obj \in [Exports -> Export]
    BY DEF Inv, SharedOK, TypeOK, CountsOK
  <1> USE DEF ExportOK, StepOK, CopyOK, DeclaredOK, ValueOK, Drained, ExportDegraded, Working, Withdrawing
  <1>1. CASE AskStop(e) \/ RequestStop(e)
    <2>1. ObjectStep(e, [x EXCEPT !.path = FALSE]) /\ x.phase # "none" /\ UNCHANGED overtaken
      BY <1>0, <1>1 DEF AskStop, RequestStop, ObjectStep, NoExport, shutdown
    <2>2. CountsOK'
      BY <1>0, <1>1 DEF CountsOK, AskStop, RequestStop
    <2>3. [x EXCEPT !.path = FALSE] \in Export /\ obj'[e] = [x EXCEPT !.path = FALSE]
      BY <1>0, <2>1 DEF Export, ObjectStep
    <2>4. ExportOK(e)'
      BY <1>0, <2>1, <2>3 DEF ObjectStep, manager, daemon, Export
    <2>5. QED
      BY <2>1, <2>2, <2>3, <2>4, ObjectStepKeeps
  <1>2. CASE CreateExport(e)
    <2> DEFINE y == [NoExport EXCEPT !.phase = "live", !.path = TRUE]
    <2>1. ObjectStep(e, y) /\ x = NoExport
      BY <1>0, <1>2 DEF CreateExport, ObjectStep, shutdown
    <2>2. CountsOK'
      BY <1>0, <1>2, BoundsAssumption DEF CountsOK, CreateExport, BoundsAssumption
    <2>3. y \in Export /\ obj'[e] = y /\ y.phase = "live" /\ ~y.uri /\ ~y.avail /\ ~y.client
      BY <1>0, <2>1 DEF Export, ObjectStep, NoExport
    <2>4. ExportOK(e)'
      BY <1>0, <2>1, <2>3 DEF ObjectStep, manager, daemon, Export, NoExport
    <2>5. QED
      BY <2>1, <2>2, <2>3, <2>4, ObjectStepKeeps
  <1>3. CASE DeleteExport(e)
    <2> DEFINE y == [x EXCEPT !.phase = "deleting"]
    <2>1. ObjectStep(e, y) /\ x.phase = "live" /\ ~x.path /\ UNCHANGED overtaken
      BY <1>0, <1>3 DEF DeleteExport, ObjectStep, shutdown
    <2>2. CountsOK'
      BY <1>0, <1>3 DEF CountsOK, DeleteExport
    <2>3. y \in Export /\ obj'[e] = y
      BY <1>0, <2>1 DEF Export, ObjectStep
    <2>4. ExportOK(e)'
      BY <1>0, <2>1, <2>3 DEF ObjectStep, manager, daemon, Export
    <2>5. QED
      BY <2>1, <2>2, <2>3, <2>4, ObjectStepKeeps
  <1>4. CASE JoinExport(e)
    <2> DEFINE y == [x EXCEPT !.client = TRUE]
    <2>1. ObjectStep(e, y) /\ x.uri /\ x.avail /\ UNCHANGED overtaken
      BY <1>0, <1>4 DEF JoinExport, ObjectStep, shutdown
    <2>2. CountsOK'
      BY <1>0, <1>4, BoundsAssumption DEF CountsOK, JoinExport, BoundsAssumption
    <2>3. y \in Export /\ obj'[e] = y
      BY <1>0, <2>1 DEF Export, ObjectStep
    <2>4. ExportOK(e)'
      BY <1>0, <2>1, <2>3 DEF ObjectStep, manager, daemon, Export, NoExport
    <2>5. QED
      BY <2>1, <2>2, <2>3, <2>4, ObjectStepKeeps
  <1>5. CASE LeaveExport(e)
    <2> DEFINE y == [x EXCEPT !.client = FALSE]
    <2>1. ObjectStep(e, y) /\ x.client /\ UNCHANGED overtaken
      BY <1>0, <1>5 DEF LeaveExport, ObjectStep, shutdown
    <2>2. CountsOK'
      BY <1>0, <1>5 DEF CountsOK, LeaveExport
    <2>3. y \in Export /\ obj'[e] = y
      BY <1>0, <2>1 DEF Export, ObjectStep
    <2>4. ExportOK(e)'
      BY <1>0, <2>1, <2>3 DEF ObjectStep, manager, daemon, Export, NoExport
    <2>5. QED
      BY <2>1, <2>2, <2>3, <2>4, ObjectStepKeeps
  <1>6. QED
    BY <1>1, <1>2, <1>3, <1>4, <1>5

\* A step that belongs to the export e leaves what is known of the others alone.
Own(e) ==
    /\ {obj', cache', copy'} \subseteq [Exports -> Export]
    /\ queued' \in [Exports -> BOOLEAN] /\ pc' \in [Exports -> Pcs]
    /\ \A f \in Exports \ {e} : UNCHANGED <<obj[f], cache[f], copy[f], queued[f], pc[f]>>

\* A step of the manager that neither talks to the daemon nor shuts down.
LEMMA ManagerStepKeeps ==
  ASSUME Inv, NEW e \in Exports, Own(e), UNCHANGED <<m, daemon, shutdown, counts>>,
         \/ pc'[e] = pc[e]
         \/ pc'[e] \notin {"export", "publish", "forget"} /\ (pc'[e] = "start" => ~Shutdown),
         ExportOK(e)'
  PROVE  Inv'
  <1> USE DEF Inv, SharedOK, Own, daemon, counts, shutdown
  <1>1. TypeOK'
    BY DEF TypeOK, Pcs, Working, Withdrawing
  <1>2. TableOK' /\ ServesOwnDevice'
    BY DEF TableOK, ServesOwnDevice
  <1>3. ShutdownOK'
    BY DEF ShutdownOK, Shutdown
  <1>4. ASSUME NEW f \in Exports, f # e
        PROVE  ExportOK(f)'
    BY <1>4, OtherExport
  <1>5. QED
    BY <1>1, <1>2, <1>3, <1>4

\* Goto, and with it Fail, belongs to its export.
LEMMA GotoOwns ==
  ASSUME TypeOK, NEW e \in Exports, NEW p \in Pcs, NEW x \in Export, Goto(e, p, x)
  PROVE  /\ copy' \in [Exports -> Export] /\ pc' \in [Exports -> Pcs]
         /\ pc'[e] = p /\ copy'[e] = (IF p = "idle" THEN NoExport ELSE x)
         /\ \A f \in Exports \ {e} : UNCHANGED <<copy[f], pc[f]>>
  BY NullExport DEF TypeOK, Goto, Pcs, Working, Withdrawing

\* A reconcile that fails leaves everything in order.
LEMMA FailKeeps ==
  ASSUME Inv, NEW e \in Exports, pc[e] # "idle", Fail(e), UNCHANGED <<obj, cache, dev, pub, crashes, overtaken>>
  PROVE  Own(e) /\ pc'[e] = "idle" /\ ExportOK(e)'
  <1>0. /\ TypeOK /\ ExportOK(e) /\ pc[e] \in Pcs /\ "idle" \in Pcs
        /\ obj[e] \in Export /\ cache[e] \in Export /\ copy[e] \in Export
        /\ {obj, cache} \subseteq [Exports -> Export] /\ queued \in [Exports -> BOOLEAN]
    BY DEF Inv, SharedOK, TypeOK, Pcs, Working, Withdrawing
  <1>1. Goto(e, "idle", NoExport) /\ queued' = [queued EXCEPT ![e] = TRUE]
    BY DEF Fail
  <1>2. /\ pc'[e] = "idle" /\ copy'[e] = NoExport
        /\ copy' \in [Exports -> Export] /\ pc' \in [Exports -> Pcs]
        /\ \A f \in Exports \ {e} : UNCHANGED <<copy[f], pc[f]>>
    BY <1>0, <1>1, GotoOwns, NullExport
  <1>3. /\ queued'[e] /\ queued' \in [Exports -> BOOLEAN]
        /\ \A f \in Exports \ {e} : queued'[f] = queued[f]
    BY <1>0, <1>1
  <1>4. Own(e)
    BY <1>0, <1>2, <1>3 DEF Own
  <1>5. ExportOK(e)'
    BY <1>0, <1>2, <1>3, NullExport
       DEF ExportOK, StepOK, CopyOK, DeclaredOK, ValueOK, Drained, ExportDegraded, Working,
           Withdrawing, NoExport, Export, Pcs
  <1>6. QED
    BY <1>2, <1>4, <1>5

\* Where a reconcile goes first, and what it has made sure of by then.
LEMMA Decisions ==
  ASSUME NEW x \in Export
  PROVE  /\ DrainStep(x) \in {"idle", "unexport"} /\ (DrainStep(x) = "unexport" => ~x.client)
         /\ HealthStep(x) \in {"idle", "health"}
         /\ StartStep(x) \in {"idle", "health", "start"}
         /\ StartStep(x) = "start" => ~x.uri /\ ~Shutdown
         /\ FirstStep(x) \in {"idle", "degrade", "unexport", "mark", "health", "start"}
         /\ FirstStep(x) = "unexport" => Drained(x)
         /\ FirstStep(x) = "degrade" => x.phase = "deleting"
         /\ FirstStep(x) \in {"mark", "health", "start"} => x.phase = "live"
         /\ FirstStep(x) = "start" => ~x.uri /\ ~Shutdown
  <1>1. /\ DrainStep(x) \in {"idle", "unexport"} /\ (DrainStep(x) = "unexport" => ~x.client)
        /\ HealthStep(x) \in {"idle", "health"}
    BY DEF DrainStep, HealthStep
  <1>2. /\ StartStep(x) \in {"idle", "health", "start"}
        /\ StartStep(x) = "start" => ~x.uri /\ ~Shutdown
    BY <1>1 DEF StartStep
  <1>3. CASE x.phase = "none"
    BY <1>1, <1>2, <1>3 DEF FirstStep
  <1>4. CASE x.phase = "live"
    BY <1>1, <1>2, <1>4 DEF FirstStep
  <1>5. CASE x.phase = "deleting"
    BY <1>1, <1>2, <1>5 DEF FirstStep, Drained
  <1>6. QED
    BY <1>3, <1>4, <1>5 DEF Export

\* The steps of a reconcile that read the cache or the watch, or write the object.
LEMMA ManagerSteps ==
  ASSUME Inv, NEW e \in Exports,
         \/ Begin(e) \/ Mark(e) \/ Degrade(e) \/ Publish(e) \/ CheckHealth(e) \/ Finish(e)
         \/ GiveUp(e) \/ Watch(e)
  PROVE  Inv'
  <1> DEFINE x == obj[e]
             y == copy[e]
             z == cache[e]
  <1>0. /\ TypeOK /\ ExportOK(e) /\ x \in Export /\ y \in Export /\ z \in Export
        /\ queued[e] \in BOOLEAN /\ pc[e] \in Pcs
        /\ {obj, cache, copy} \subseteq [Exports -> Export]
        /\ queued \in [Exports -> BOOLEAN] /\ pc \in [Exports -> Pcs]
        /\ "idle" \in Pcs
    BY DEF Inv, SharedOK, TypeOK, Pcs, Working, Withdrawing
  <1> USE DEF ExportOK, StepOK, CopyOK, DeclaredOK, ValueOK, Drained, ExportDegraded, Working, Withdrawing
  <1>1. CASE Begin(e)
    <2> DEFINE p == FirstStep(z)
    <2>1. p \in Pcs /\ p \notin {"export", "publish", "forget"}
      BY <1>0, Decisions DEF Pcs
    <2>2. Goto(e, p, z) /\ queued' = [queued EXCEPT ![e] = FALSE] /\ y = NoExport
          /\ queued[e] /\ UNCHANGED <<obj, cache, m, daemon, shutdown, counts>>
      BY <1>0, <1>1 DEF Begin, At
    <2>3. pc'[e] = p /\ copy'[e] = (IF p = "idle" THEN NoExport ELSE z) /\ queued'[e] = FALSE
      BY <1>0, <2>1, <2>2, GotoOwns
    <2>4. Own(e)
      BY <1>0, <2>1, <2>2, GotoOwns DEF Own
    <2>5. ExportOK(e)'
      <3>1. CASE p = "idle"
        BY <1>0, <2>2, <2>3, <3>1, NullExport DEF daemon, counts, shutdown, NoExport, Export
      <3>2. CASE p \in {"mark", "health", "start"}
        BY <1>0, <2>2, <2>3, <3>2, Decisions DEF daemon, counts, shutdown
      <3>3. CASE p \in {"degrade", "unexport"}
        BY <1>0, <2>2, <2>3, <3>3, Decisions DEF daemon, counts, shutdown
      <3>4. QED
        BY <1>0, <3>1, <3>2, <3>3, Decisions
    <2>6. QED
      BY <1>0, <2>1, <2>2, <2>3, <2>4, <2>5, Decisions, ManagerStepKeeps
  <1>2. CASE Mark(e)
    <2> DEFINE p == StartStep(y)
               v == Unavailable(y)
    <2>1. p \in Pcs /\ p \in {"idle", "health", "start"} /\ v \in Export
      BY <1>0, Decisions DEF Pcs, Unavailable, Export
    <2>2. /\ pc[e] = "mark" /\ x = y /\ obj' = [obj EXCEPT ![e] = v] /\ Goto(e, p, v)
          /\ UNCHANGED <<cache, queued, m, daemon, shutdown, counts>>
      BY <1>2 DEF Mark, At, Update
    <2>3. pc'[e] = p /\ copy'[e] = (IF p = "idle" THEN NoExport ELSE v) /\ obj'[e] = v
      BY <1>0, <2>1, <2>2, GotoOwns
    <2>4. Own(e)
      BY <1>0, <2>1, <2>2, GotoOwns DEF Own
    <2>5. ExportOK(e)'
      BY <1>0, <2>1, <2>2, <2>3, Decisions, NullExport DEF daemon, counts, shutdown, NoExport, Unavailable, Export
    <2>6. QED
      BY <1>0, <2>1, <2>2, <2>3, <2>4, <2>5, Decisions, ManagerStepKeeps
  <1>3. CASE Degrade(e)
    <2> DEFINE p == DrainStep(y)
               v == Unavailable(y)
    <2>1. p \in Pcs /\ p \in {"idle", "unexport"} /\ v \in Export
      BY <1>0, Decisions DEF Pcs, Unavailable, Export
    <2>2. /\ pc[e] = "degrade" /\ x = y /\ obj' = [obj EXCEPT ![e] = v] /\ Goto(e, p, v)
          /\ UNCHANGED <<cache, queued, m, daemon, shutdown, counts>>
      BY <1>3 DEF Degrade, At, Update
    <2>3. pc'[e] = p /\ copy'[e] = (IF p = "idle" THEN NoExport ELSE v) /\ obj'[e] = v
      BY <1>0, <2>1, <2>2, GotoOwns
    <2>4. Own(e)
      BY <1>0, <2>1, <2>2, GotoOwns DEF Own
    <2>5. ExportOK(e)'
      BY <1>0, <2>1, <2>2, <2>3, Decisions, NullExport DEF daemon, counts, shutdown, NoExport, Unavailable, Export
    <2>6. QED
      BY <1>0, <2>1, <2>2, <2>3, <2>4, <2>5, Decisions, ManagerStepKeeps
  <1>4. CASE Publish(e)
    <2> DEFINE p == HealthStep(y)
               v == Started(y)
    <2>1. p \in Pcs /\ p \in {"idle", "health"} /\ v \in Export
      BY <1>0, Decisions DEF Pcs, Started, Export
    <2>2. /\ pc[e] = "publish" /\ x = y /\ obj' = [obj EXCEPT ![e] = v] /\ Goto(e, p, v)
          /\ UNCHANGED <<cache, queued, m, daemon, shutdown, counts>>
      BY <1>4 DEF Publish, At, Update
    <2>3. pc'[e] = p /\ copy'[e] = (IF p = "idle" THEN NoExport ELSE v) /\ obj'[e] = v
      BY <1>0, <2>1, <2>2, GotoOwns
    <2>4. Own(e)
      BY <1>0, <2>1, <2>2, GotoOwns DEF Own
    <2>5. ExportOK(e)'
      BY <1>0, <2>1, <2>2, <2>3, Decisions, NullExport DEF daemon, counts, shutdown, NoExport, Started, Export
    <2>6. QED
      BY <1>0, <2>1, <2>2, <2>3, <2>4, <2>5, Decisions, ManagerStepKeeps
  <1>5. CASE CheckHealth(e)
    <2> DEFINE v == IF Served(e) THEN x ELSE Unavailable(y)
    <2>1. v \in Export
      BY <1>0 DEF Unavailable, Export
    <2>2. /\ pc[e] = "health" /\ (~Served(e) => x = y) /\ obj' = [obj EXCEPT ![e] = v]
          /\ Goto(e, "idle", NoExport) /\ UNCHANGED <<cache, m, daemon, shutdown, counts>>
      BY <1>0, <1>5 DEF CheckHealth, At, Update, Fail
    <2>3. queued' \in [Exports -> BOOLEAN] /\ \A f \in Exports \ {e} : queued'[f] = queued[f]
      BY <1>0, <1>5 DEF CheckHealth, Fail
    <2>4. /\ pc'[e] = "idle" /\ copy'[e] = NoExport
          /\ copy' \in [Exports -> Export] /\ pc' \in [Exports -> Pcs]
          /\ \A f \in Exports \ {e} : UNCHANGED <<copy[f], pc[f]>>
      BY <1>0, <2>2, GotoOwns, NullExport
    <2>5. obj'[e] = v /\ Own(e)
      BY <1>0, <2>1, <2>2, <2>3, <2>4, ZenonT(30) DEF Own
    <2>6. v = x \/ v = [x EXCEPT !.avail = FALSE]
      BY <2>2 DEF Unavailable
    <2>7. ExportOK(e)'
      <3>1. CASE v = x
        BY <1>0, <2>2, <2>4, <2>5, <3>1, NullExport DEF daemon, counts, shutdown, NoExport
      <3>2. CASE v = [x EXCEPT !.avail = FALSE]
        BY <1>0, <2>2, <2>4, <2>5, <3>2, NullExport, SMTT(30) DEF daemon, counts, shutdown, NoExport, Export
      <3>3. QED
        BY <2>6, <3>1, <3>2
    <2>8. QED
      BY <2>2, <2>4, <2>5, <2>7, ManagerStepKeeps
  <1>6. CASE Finish(e)
    <2>1. /\ pc[e] = "finish" /\ x = y /\ obj' = [obj EXCEPT ![e] = NoExport]
          /\ Goto(e, "idle", NoExport) /\ UNCHANGED <<cache, queued, m, daemon, shutdown, counts>>
      BY <1>6 DEF Finish, At, Update
    <2>2. pc'[e] = "idle" /\ copy'[e] = NoExport /\ obj'[e] = NoExport
      BY <1>0, <2>1, GotoOwns, NullExport
    <2>3. Own(e)
      BY <1>0, <2>1, GotoOwns, NullExport DEF Own
    <2>4. pub[e] = None
      BY <1>0, <2>1 DEF Inv, SharedOK, TypeOK, ServesOwnDevice
    <2>5. ExportOK(e)'
      BY <1>0, <2>1, <2>2, <2>4, NullExport DEF daemon, counts, shutdown, NoExport, Export
    <2>6. QED
      BY <2>1, <2>2, <2>3, <2>5, ManagerStepKeeps
  <1>7. CASE GiveUp(e)
    <2>1. pc[e] # "idle" /\ Fail(e) /\ UNCHANGED <<obj, cache, m, daemon, shutdown, counts>>
      BY <1>7 DEF GiveUp, At
    <2>2. Own(e) /\ pc'[e] = "idle" /\ ExportOK(e)'
      BY <2>1, FailKeeps DEF daemon, counts, shutdown
    <2>3. QED
      BY <2>1, <2>2, ManagerStepKeeps
  <1>8. CASE Watch(e)
    <2>1. /\ cache' = [cache EXCEPT ![e] = x]
          /\ queued' = [queued EXCEPT ![e] = queued[e] \/ Generation(z) # Generation(x)]
          /\ UNCHANGED <<obj, copy, pc, m, daemon, shutdown, counts>>
      BY <1>8 DEF Watch
    <2>2. cache'[e] = x /\ queued'[e] = (queued[e] \/ Generation(z) # Generation(x))
      BY <1>0, <2>1
    <2>3. Own(e)
      BY <1>0, <2>1 DEF Own
    <2>4. ExportOK(e)'
      BY <1>0, <2>1, <2>2 DEF daemon, counts, shutdown, Generation, Export, NoExport
    <2>5. QED
      BY <2>1, <2>3, <2>4, ManagerStepKeeps
  <1>9. QED
    BY <1>1, <1>2, <1>3, <1>4, <1>5, <1>6, <1>7, <1>8

\* A step that talks to the daemon about the export e.
LEMMA DaemonStepKeeps ==
  ASSUME Inv, NEW e \in Exports, Own(e), SharedOK', crashes' = crashes, overtaken \subseteq overtaken', ExportOK(e)',
         \A f \in Exports \ {e} : pub'[f] = pub[f],
         \A f \in Exports \ {e}, k \in Numbers : dev'[k] = f => dev[k] = f
  PROVE  Inv'
  <1>1. ASSUME NEW f \in Exports, f # e
        PROVE  ExportOK(f)'
    BY <1>1, OtherExport DEF Inv, Own
  <1>2. QED
    BY <1>1 DEF Inv

\* The steps of StartExport and of StopExport.
LEMMA DaemonSteps ==
  ASSUME Inv, NEW e \in Exports,
         BlockdevAdd(e) \/ BlockExportAdd(e) \/ BlockExportDel(e) \/ BlockdevDel(e) \/ Forget(e)
  PROVE  Inv'
  <1> DEFINE y == copy[e]
             k == nodeName(e)
  <1>0. /\ TypeOK /\ TableOK /\ ServesOwnDevice /\ ShutdownOK /\ ExportOK(e) /\ y \in Export
        /\ {obj, cache, copy} \subseteq [Exports -> Export] /\ queued \in [Exports -> BOOLEAN]
        /\ {"idle", "export", "publish", "unadd", "forget", "finish"} \subseteq Pcs
    BY DEF Inv, SharedOK, TypeOK, Pcs, Working, Withdrawing
  <1>k. /\ k \in Numbers /\ k # None /\ (m[e] # None => k = m[e]) /\ dev[k] \in {None, e}
        /\ \A f \in Exports : f # e => m[f] # k /\ pub[f] # k
    BY <1>0, NodeName
  <1>n. None \notin Exports
    BY ExportsAssumption DEF ExportsAssumption
  <1> USE DEF daemon, counts, shutdown
  <1>1. CASE BlockdevAdd(e)
    <2>1. /\ pc[e] = "start" /\ up /\ (closes > 0 => e \in overtaken)
          /\ m' = [m EXCEPT ![e] = k] /\ UNCHANGED <<obj, cache, pub, up, shutdown, counts>>
      BY <1>0, <1>1 DEF BlockdevAdd, At, ShutdownOK, TypeOK
    <2>2. CASE y.path
      <3>1. dev' = [dev EXCEPT ![k] = e] /\ Goto(e, "export", y) /\ UNCHANGED queued
        BY <1>0, <1>1, <1>k, <2>2 DEF BlockdevAdd, TypeOK
      <3>2. Own(e) /\ pc'[e] = "export" /\ copy'[e] = y
        BY <1>0, <2>1, <3>1, GotoOwns DEF Own
      <3>3. TypeOK'
        BY <1>0, <1>k, <2>1, <3>1, <3>2 DEF TypeOK, Own, Pcs, Working, Withdrawing
      <3>4. TableOK' /\ ServesOwnDevice'
        BY <1>0, <1>k, <1>n, <2>1, <3>1 DEF TypeOK, TableOK, ServesOwnDevice
      <3>5. ShutdownOK'
        BY <1>0, <1>k, <2>1, <3>1, <3>2 DEF ShutdownOK, Shutdown, Own
      <3>6. ExportOK(e)'
        BY <1>0, <2>1, <3>1, <3>2
           DEF ExportOK, StepOK, CopyOK, DeclaredOK, ValueOK, Drained, ExportDegraded, Working, Withdrawing
      <3>7. QED
        BY <1>0, <1>k, <2>1, <3>1, <3>2, <3>3, <3>4, <3>5, <3>6, DaemonStepKeeps DEF SharedOK, TypeOK
    <2>3. CASE ~y.path
      <3>1. Fail(e) /\ UNCHANGED dev
        BY <1>1, <2>3 DEF BlockdevAdd
      <3>2. Own(e) /\ pc'[e] = "idle" /\ ExportOK(e)'
        BY <2>1, <3>1, FailKeeps
      <3>3. TypeOK'
        BY <1>0, <1>k, <2>1, <3>1, <3>2 DEF TypeOK, Own, Pcs, Working, Withdrawing
      <3>4. TableOK' /\ ServesOwnDevice'
        BY <1>0, <1>k, <1>n, <2>1, <3>1 DEF TypeOK, TableOK, ServesOwnDevice
      <3>5. ShutdownOK'
        BY <1>0, <2>1, <3>1, <3>2 DEF ShutdownOK, Shutdown, Own
      <3>6. QED
        BY <2>1, <3>1, <3>2, <3>3, <3>4, <3>5, DaemonStepKeeps DEF SharedOK
    <2>4. QED
      BY <2>2, <2>3
  <1>2. CASE BlockExportAdd(e)
    <2>1. pc[e] = "export" /\ up /\ UNCHANGED <<obj, cache, m, dev, up, shutdown, counts>>
      BY <1>2 DEF BlockExportAdd, At
    <2>2. m[e] \in Numbers /\ (dev[m[e]] # None => dev[m[e]] = e)
      BY <1>0, <2>1 DEF TypeOK, TableOK
    <2>3. CASE pub[e] # None \/ dev[m[e]] # None
      <3>1. /\ pub' = [pub EXCEPT ![e] = IF pub[e] = None THEN m[e] ELSE pub[e]]
            /\ Goto(e, "publish", y) /\ UNCHANGED queued
        BY <1>0, <1>2, <2>3 DEF BlockExportAdd, TypeOK
      <3>2. Own(e) /\ pc'[e] = "publish" /\ copy'[e] = y
        BY <1>0, <2>1, <3>1, GotoOwns DEF Own
      <3>3. TypeOK'
        BY <1>0, <2>1, <2>2, <3>1, <3>2 DEF TypeOK, Own, Pcs, Working, Withdrawing
      <3>4. TableOK' /\ ServesOwnDevice' /\ pub'[e] # None
        BY <1>0, <1>n, <2>1, <2>2, <2>3, <3>1 DEF TypeOK, TableOK, ServesOwnDevice
      <3>5. ShutdownOK'
        BY <1>0, <2>1, <3>2 DEF ShutdownOK, Shutdown, Own
      <3>6. ExportOK(e)'
        BY <1>0, <2>1, <3>1, <3>2, <3>4
           DEF ExportOK, StepOK, CopyOK, DeclaredOK, ValueOK, Drained, ExportDegraded, Working, Withdrawing
      <3>7. QED
        BY <1>0, <2>1, <3>1, <3>2, <3>3, <3>4, <3>5, <3>6, DaemonStepKeeps DEF SharedOK, TypeOK
    <2>4. CASE ~(pub[e] # None \/ dev[m[e]] # None)
      <3>1. Fail(e) /\ UNCHANGED pub
        BY <1>2, <2>4 DEF BlockExportAdd
      <3>2. Own(e) /\ pc'[e] = "idle" /\ ExportOK(e)'
        BY <2>1, <3>1, FailKeeps
      <3>3. QED
        BY <2>1, <3>1, <3>2, ManagerStepKeeps
    <2>5. QED
      BY <2>3, <2>4
  <1>3. CASE BlockExportDel(e)
    <2>1. /\ pc[e] = "unexport" /\ pub' = [pub EXCEPT ![e] = None] /\ Goto(e, "unadd", y)
          /\ UNCHANGED <<obj, cache, queued, m, dev, up, shutdown, counts>>
      BY <1>3 DEF BlockExportDel, At
    <2>2. Own(e) /\ pc'[e] = "unadd" /\ copy'[e] = y
      BY <1>0, <2>1, GotoOwns DEF Own
    <2>3. TypeOK'
      BY <1>0, <2>1, <2>2 DEF TypeOK, Own, Pcs, Working, Withdrawing
    <2>4. TableOK' /\ ServesOwnDevice'
      BY <1>0, <2>1 DEF TypeOK, TableOK, ServesOwnDevice
    <2>5. ShutdownOK'
      BY <1>0, <2>1, <2>2 DEF ShutdownOK, Shutdown, Own
    <2>6. ExportOK(e)'
      BY <1>0, <2>1, <2>2
         DEF TypeOK, ExportOK, StepOK, CopyOK, DeclaredOK, ValueOK, Drained, ExportDegraded, Working, Withdrawing
    <2>7. QED
      BY <1>0, <2>1, <2>2, <2>3, <2>4, <2>5, <2>6, DaemonStepKeeps DEF SharedOK, TypeOK
  <1>4. CASE BlockdevDel(e)
    <2>1. /\ pc[e] = "unadd" /\ \A f \in Exports : pub[f] # k
          /\ m' = [m EXCEPT ![e] = k] /\ dev' = [dev EXCEPT ![k] = None] /\ Goto(e, "forget", y)
          /\ UNCHANGED <<obj, cache, queued, pub, up, shutdown, counts>>
      BY <1>4 DEF BlockdevDel, At
    <2>2. Own(e) /\ pc'[e] = "forget" /\ copy'[e] = y
      BY <1>0, <2>1, GotoOwns DEF Own
    <2>3. TypeOK'
      BY <1>0, <1>k, <2>1, <2>2 DEF TypeOK, Own, Pcs, Working, Withdrawing
    <2>4. \A j \in Numbers : dev'[j] # e
      BY <1>0, <1>k, <1>n, <2>1 DEF TypeOK, TableOK
    <2>5. TableOK' /\ ServesOwnDevice'
      BY <1>0, <1>k, <1>n, <2>1, <2>4 DEF TypeOK, TableOK, ServesOwnDevice
    <2>6. ShutdownOK'
      BY <1>0, <1>k, <2>1, <2>2 DEF TypeOK, ShutdownOK, Shutdown, Own
    <2>7. ExportOK(e)'
      BY <1>0, <2>1, <2>2, <2>4
         DEF TypeOK, ExportOK, StepOK, CopyOK, DeclaredOK, ValueOK, Drained, ExportDegraded, Working, Withdrawing
    <2>8. QED
      BY <1>0, <1>k, <1>n, <2>1, <2>2, <2>3, <2>5, <2>6, <2>7, DaemonStepKeeps DEF SharedOK, TypeOK
  <1>5. CASE Forget(e)
    <2> DEFINE rest == [m EXCEPT ![e] = None]
               last == Shutdown /\ InTable(rest) = {}
    <2>1. /\ pc[e] = "forget" /\ term # "gone" /\ m' = rest
          /\ closes' = (IF last THEN closes + 1 ELSE closes)
          /\ term' = (IF closes' = 2 THEN "gone" ELSE term)
          /\ overtaken' = (IF last THEN overtaken \cup Starting ELSE overtaken)
          /\ Goto(e, "finish", y) /\ UNCHANGED <<obj, cache, queued, daemon, counts>>
      BY <1>5 DEF Forget, At
    <2>2. Own(e) /\ pc'[e] = "finish" /\ copy'[e] = y
      BY <1>0, <2>1, GotoOwns DEF Own
    <2>3. closes \in 0..1 /\ closes' \in 0..2
      BY <1>0, <2>1 DEF TypeOK, ShutdownOK
    <2>4. TypeOK'
      BY <1>0, <2>1, <2>2, <2>3 DEF TypeOK, Own, Pcs, Working, Withdrawing, Starting
    <2>5. TableOK' /\ ServesOwnDevice'
      BY <1>0, <2>1 DEF TypeOK, TableOK, ServesOwnDevice, ExportOK, StepOK
    <2>6. ASSUME last
          PROVE  /\ \A j \in Numbers : dev[j] = None
                 /\ \A f \in Exports : pc'[f] # "export"
      <3>1. \A f \in Exports : rest[f] = None
        BY <2>6 DEF InTable
      <3>2. \A f \in Exports : f # e => m[f] = None /\ pc'[f] = pc[f]
        BY <1>0, <2>2, <3>1 DEF TypeOK, Own
      <3>3. \A j \in Numbers : dev[j] # e
        BY <1>0, <2>1 DEF ExportOK, StepOK
      <3>4. QED
        BY <1>0, <2>2, <3>2, <3>3 DEF TypeOK, TableOK
    <2>7. ShutdownOK'
      <3>1. Shutdown' <=> Shutdown
        BY <1>0, <2>1, <2>3 DEF Shutdown, ShutdownOK
      <3>2. \A f \in Exports : pc'[f] \in {"start", "export"} => pc[f] = pc'[f]
        BY <2>2 DEF Own
      <3>3. CASE last
        <4>1. closes' = closes + 1 /\ closes' > 0 /\ dev' = dev /\ Shutdown'
          BY <2>1, <2>3, <3>1, <3>3
        <4>2. /\ \A j \in Numbers : dev'[j] = None
              /\ \A f \in Exports : pc'[f] # "export"
          BY <2>6, <3>3, <4>1
        <4>3. closes' = 2 => term' = "gone"
          BY <2>1
        <4>4. QED
          BY <1>0, <2>1, <3>1, <3>2, <3>3, <4>1, <4>2, <4>3 DEF ShutdownOK, Starting
      <3>4. CASE ~last
        BY <1>0, <2>1, <2>3, <3>1, <3>2, <3>4 DEF ShutdownOK
      <3>5. QED
        BY <3>3, <3>4
    <2>8. ExportOK(e)'
      BY <1>0, <2>1, <2>2
         DEF TypeOK, ExportOK, StepOK, CopyOK, DeclaredOK, ValueOK, Drained, ExportDegraded, Working, Withdrawing
    <2>9. QED
      BY <1>0, <2>1, <2>2, <2>4, <2>5, <2>7, <2>8, DaemonStepKeeps DEF SharedOK, TypeOK
  <1>6. QED
    BY <1>1, <1>2, <1>3, <1>4, <1>5

\* A table that is empty leaves no device open, and no export half started.
LEMMA EmptyTable ==
  ASSUME Inv, InTable(m) = {}
  PROVE  (\A k \in Numbers : dev[k] = None) /\ (\A e \in Exports : pc[e] # "export")
  <1>1. \A e \in Exports : m[e] = None
    BY DEF InTable
  <1>2. QED
    BY <1>1 DEF Inv, SharedOK, TypeOK, TableOK

\* What is served once the channel is closed was overtaken by the closing.
LEMMA OnlyOvertaken ==
  ASSUME Inv, closes > 0
  PROVE  \A e \in Exports : pub[e] # None => e \in overtaken
  BY ExportsAssumption DEF Inv, SharedOK, TypeOK, ServesOwnDevice, ShutdownOK, ExportsAssumption

\* The steps of the shutdown, and the crash of the daemon.
LEMMA PodSteps ==
  ASSUME Inv, Terminate \/ EndCleanup \/ Cancel \/ Quit \/ ReplacePod \/ CrashQsd
  PROVE  Inv'
  <1> USE DEF manager, daemon, counts, shutdown
  <1>0. TypeOK /\ TableOK /\ ServesOwnDevice /\ ShutdownOK /\ \A e \in Exports : ExportOK(e)
    BY DEF Inv, SharedOK
  <1>n. None \notin Exports
    BY ExportsAssumption DEF ExportsAssumption
  <1>1. CASE Terminate
    <2>1. /\ term = "no" /\ term' = "signalled" /\ terms' \in 0..MaxTerms
          /\ closes' = (IF InTable(m) = {} THEN 1 ELSE 0)
          /\ overtaken' = (IF InTable(m) = {} THEN overtaken \cup Starting ELSE overtaken)
          /\ UNCHANGED <<obj, manager, daemon, creates, joins, crashes>>
      BY <1>0, <1>1, BoundsAssumption DEF Terminate, TypeOK, BoundsAssumption
    <2>2. TypeOK'
      BY <1>0, <2>1 DEF TypeOK, Starting
    <2>3. TableOK' /\ ServesOwnDevice'
      BY <1>0, <2>1 DEF TableOK, ServesOwnDevice
    <2>4. ShutdownOK'
      <3>1. CASE InTable(m) = {}
        BY <1>0, <2>1, <3>1, EmptyTable DEF ShutdownOK, Shutdown, Starting
      <3>2. CASE InTable(m) # {}
        BY <1>0, <2>1, <3>2 DEF ShutdownOK, Shutdown
      <3>3. QED
        BY <3>1, <3>2
    <2>5. \A e \in Exports : ExportOK(e)'
      BY <1>0, <2>1, OtherExport
    <2>6. QED
      BY <2>2, <2>3, <2>4, <2>5 DEF Inv, SharedOK
  <1>2. CASE EndCleanup \/ Cancel
    <2>1. /\ Shutdown /\ Shutdown' /\ term' \in {"told", "gone"}
          /\ term' = "gone" => closes = 1
          /\ term # "gone"
          /\ UNCHANGED <<obj, manager, daemon, closes, overtaken, counts>>
      BY <1>2 DEF EndCleanup, Cancel, Shutdown
    <2>2. TypeOK'
      BY <1>0, <2>1 DEF TypeOK
    <2>3. TableOK' /\ ServesOwnDevice'
      BY <1>0, <2>1 DEF TableOK, ServesOwnDevice
    <2>4. ShutdownOK'
      BY <1>0, <2>1 DEF ShutdownOK
    <2>5. \A e \in Exports : ExportOK(e)'
      BY <1>0, <2>1, OtherExport
    <2>6. QED
      BY <2>2, <2>3, <2>4, <2>5 DEF Inv, SharedOK
  <1>3. CASE Quit
    <2>1. \A e \in Exports : pub[e] # None => e \in overtaken
      BY <1>0, <1>3, OnlyOvertaken DEF Quit, ShutdownOK
    <2>2. /\ dev' = [k \in Numbers |-> None] /\ pub' = [e \in Exports |-> None] /\ up' = FALSE
          /\ UNCHANGED <<obj, manager, shutdown, counts>>
      BY <1>3 DEF Quit
    <2>3. TypeOK'
      BY <1>0, <2>2 DEF TypeOK
    <2>4. TableOK' /\ ServesOwnDevice' /\ ShutdownOK'
      BY <1>0, <1>n, <2>2 DEF TableOK, ServesOwnDevice, ShutdownOK, Shutdown
    <2>5. ASSUME NEW e \in Exports
          PROVE  ExportOK(e)'
      BY <1>0, <1>n, <2>1, <2>2
         DEF ExportOK, StepOK, CopyOK, DeclaredOK, ValueOK, Drained, ExportDegraded, Working, Withdrawing
    <2>6. QED
      BY <2>3, <2>4, <2>5 DEF Inv, SharedOK
  <1>4. CASE ReplacePod
    <2>1. \A e \in Exports : pub[e] = None
      BY <1>0, <1>4 DEF ReplacePod, ShutdownOK
    <2>2. \A k \in Numbers : dev[k] = None
      BY <1>0, <1>4 DEF ReplacePod, ShutdownOK
    <2>3. TypeOK'
      BY <1>0, <1>4, NullExport DEF ReplacePod, TypeOK
    <2>4. TableOK' /\ ServesOwnDevice' /\ ShutdownOK'
      BY <1>4, <1>n, <2>1, <2>2 DEF ReplacePod, TableOK, ServesOwnDevice, ShutdownOK, Shutdown
    <2>5. ASSUME NEW e \in Exports
          PROVE  ExportOK(e)'
      <3>1. /\ cache'[e] = obj'[e] /\ obj'[e] = obj[e] /\ copy'[e] = NoExport /\ pc'[e] = "idle"
            /\ dev' = dev /\ pub' = pub /\ crashes' = crashes
            /\ obj[e].uri /\ e \in overtaken => e \in overtaken'
        BY <1>4 DEF ReplacePod
      <3>2. ExportOK(e) /\ obj[e] \in Export
        BY <1>0 DEF TypeOK
      <3>3. QED
        BY <3>1, <3>2, NullExport
           DEF ExportOK, StepOK, CopyOK, DeclaredOK, ValueOK, Drained, ExportDegraded, Working,
               Withdrawing, NoExport
    <2>6. QED
      BY <2>3, <2>4, <2>5 DEF Inv, SharedOK
  <1>5. CASE CrashQsd
    <2>1. /\ crashes' \in 0..MaxCrashes /\ crashes' > 0
          /\ dev' = [k \in Numbers |-> None] /\ pub' = [e \in Exports |-> None]
          /\ UNCHANGED <<obj, manager, up, shutdown, creates, joins, terms>>
      BY <1>0, <1>5, BoundsAssumption DEF CrashQsd, TypeOK, BoundsAssumption
    <2>2. TypeOK'
      BY <1>0, <2>1 DEF TypeOK
    <2>3. TableOK' /\ ServesOwnDevice' /\ ShutdownOK'
      BY <1>0, <1>n, <2>1 DEF TableOK, ServesOwnDevice, ShutdownOK, Shutdown
    <2>4. ASSUME NEW e \in Exports
          PROVE  ExportOK(e)'
      BY <1>0, <1>n, <2>1
         DEF ExportOK, StepOK, CopyOK, DeclaredOK, ValueOK, Drained, ExportDegraded, Working, Withdrawing
    <2>5. QED
      BY <2>2, <2>3, <2>4 DEF Inv, SharedOK
  <1>6. QED
    BY <1>1, <1>2, <1>3, <1>4, <1>5

-----------------------------------------------------------------------------
(* The theorems. *)

\* Inv is inductive.
LEMMA InvNext == Inv /\ [Next]_vars => Inv'
  <1> SUFFICES ASSUME Inv, [Next]_vars
               PROVE  Inv'
    OBVIOUS
  <1>1. CASE Next
    BY <1>1, UserSteps, ManagerSteps, DaemonSteps, PodSteps DEF Next, Reconcile
  <1>2. CASE UNCHANGED vars
    <2> USE <1>2 DEF vars, manager, daemon, counts, shutdown
    <2>1. SharedOK'
      BY DEF Inv, SharedOK, TypeOK, TableOK, ServesOwnDevice, ShutdownOK, Shutdown
    <2>2. \A e \in Exports : ExportOK(e)'
      BY OtherExport DEF Inv
    <2>3. QED
      BY <2>1, <2>2 DEF Inv
  <1>3. QED
    BY <1>1, <1>2

\* The invariant holds in every reachable state.
THEOREM Invariance == Spec => []Inv
  BY InvInit, InvNext, PTL DEF Spec

\* The state of the manager and of the daemon is always of the right type.
THEOREM TypeCorrect == Spec => []TypeOK
  <1>1. Inv => TypeOK
    BY DEF Inv, SharedOK
  <1>2. QED
    BY <1>1, Invariance, PTL

\* No number is given to two devices, however the reconciles interleave: the daemon serves
\* under an export's name what StartExport opened for it.
THEOREM OwnDevice == Spec => []ServesOwnDevice
  <1>1. Inv => ServesOwnDevice
    BY DEF Inv, SharedOK
  <1>2. QED
    BY <1>1, Invariance, PTL

\* The daemon serves what the NBDExports declare and nothing of one that is gone, however
\* old the copies are from which the reconciles work and whenever the pod is terminated;
\* only an export that was starting when the channel was closed may declare too much.
THEOREM Declared == Spec => []ServedAsDeclared
  <1>1. Inv => ServedAsDeclared
    BY DEF Inv, ExportOK, DeclaredOK, ServedAsDeclared
  <1>2. QED
    BY <1>1, Invariance, PTL

\* StopExport never cuts off a client, and the end of the pod only one of an export that
\* was starting when the channel was closed.
THEOREM ClientsKept == Spec => NeverCutsClients
  <1> DEFINE Kept == \A e \in Exports :
                       obj[e].client /\ pub[e] # None /\ pub'[e] = None => crashes' # crashes \/ e \in overtaken
  <1>1. ASSUME Inv, [Next]_vars
        PROVE  [Kept]_vars
    <2>1. SUFFICES ASSUME Next, crashes' = crashes,
                          NEW e \in Exports, obj[e].client, pub[e] # None, e \notin overtaken
                   PROVE  pub'[e] # None
      BY <1>1
    <2>2. ASSUME Quit
          PROVE  FALSE
      BY <1>1, <2>1, <2>2, OnlyOvertaken DEF Quit, Inv, SharedOK, ShutdownOK
    <2>3. ASSUME BlockExportDel(e)
          PROVE  FALSE
      BY <1>1, <2>1, <2>3 DEF BlockExportDel, At, Inv, ExportOK, StepOK, Withdrawing
    <2>4. ASSUME NEW f \in Exports, f # e, BlockExportDel(f)
          PROVE  pub'[e] = pub[e]
      BY <1>1, <2>4 DEF BlockExportDel, Inv, SharedOK, TypeOK
    <2>5. ASSUME NEW f \in Exports, BlockExportAdd(f)
          PROVE  pub'[e] # None
      BY <1>1, <2>1, <2>5 DEF BlockExportAdd, At, Fail, Inv, SharedOK, TypeOK
    <2>6. ASSUME NEW f \in Exports,
                 \/ Begin(f) \/ Mark(f) \/ Degrade(f) \/ BlockdevAdd(f) \/ Publish(f) \/ CheckHealth(f)
                 \/ BlockdevDel(f) \/ Forget(f) \/ Finish(f) \/ GiveUp(f) \/ Watch(f) \/ AskStop(f)
                 \/ CreateExport(f) \/ RequestStop(f) \/ DeleteExport(f) \/ JoinExport(f) \/ LeaveExport(f)
          PROVE  pub' = pub
      BY <2>6 DEF Begin, Mark, Degrade, BlockdevAdd, Publish, CheckHealth, BlockdevDel, Forget, Finish,
                  GiveUp, Watch, AskStop, CreateExport, RequestStop, DeleteExport, JoinExport,
                  LeaveExport, daemon
    <2>7. ASSUME Terminate \/ EndCleanup \/ Cancel \/ ReplacePod
          PROVE  pub' = pub
      BY <2>7 DEF Terminate, EndCleanup, Cancel, ReplacePod, daemon
    <2>8. ~CrashQsd
      BY <1>1, <2>1 DEF CrashQsd, Inv, SharedOK, TypeOK
    <2>9. QED
      BY <2>1, <2>2, <2>3, <2>4, <2>5, <2>6, <2>7, <2>8 DEF Next, Reconcile
  <1>2. QED
    BY <1>1, Invariance, PTL DEF Spec, NeverCutsClients
=============================================================================
