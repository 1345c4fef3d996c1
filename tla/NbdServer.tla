----------------------------- MODULE NbdServer ------------------------------
(***************************************************************************)
(* One node's NBD server: the reconciler of the NBDExports that the node   *)
(* hosts, the commands it sends to qemu-storage-daemon (q-s-d), and the    *)
(* shutdown of the node manager's pod.                                     *)
(*                                                                         *)
(* ThinAttach follows one export among several nodes. Here several exports *)
(* share one daemon: their reconciles run concurrently, one per export,    *)
(* and share the table of block-device numbers, the flag Shutdown and the  *)
(* channel that ends the server. Each step is one command to the daemon,   *)
(* one critical section of blockdevs' mutex, or one Update, which succeeds *)
(* when it is made from the newest version.                                *)
(*                                                                         *)
(* The manager and the daemon are containers of one pod. The daemon is a   *)
(* sidecar, so that the kubelet ends it only after the manager.            *)
(***************************************************************************)
EXTENDS Naturals, FiniteSets

CONSTANTS Exports,      \* names of NBDExports of this node, and of their devices
          None,         \* no device, no number
          MaxCreates,   \* bound: creations of an export
          MaxJoins,     \* bound: times that a client joins an export
          MaxTerms,     \* bound: terminations of the pod
          MaxCrashes    \* bound: crashes of the daemon

ASSUME ExportsAssumption == IsFiniteSet(Exports) /\ None \notin Exports
ASSUME BoundsAssumption == {MaxCreates, MaxJoins, MaxTerms, MaxCrashes} \subseteq Nat

VARIABLES
    obj,      \* the NBDExports in the API server
    cache,    \* the manager's cache of them
    copy,     \* the copy that a running reconcile works on
    queued,   \* the exports in the work queue
    pc,       \* the step that an export's reconcile takes next
    m,        \* blockdevs.m: the device number given to an export
    dev,      \* the daemon's block devices: number -> device opened under it
    pub,      \* the daemon's block exports: name -> number of the device served
    up,       \* the daemon runs
    term,     \* how far the manager's shutdown has come
    closes,   \* how often shutdownChannel has been closed
    overtaken, \* history: the exports whose start the closing of shutdownChannel overtook
    creates, joins, terms, crashes \* what the bounds count

manager == <<cache, copy, queued, pc, m>>
daemon == <<dev, pub, up>>
counts == <<creates, joins, terms, crashes>>
shutdown == <<term, closes, overtaken>>
vars == <<obj, manager, daemon, shutdown, counts>>

\* Enough numbers for one to be free: the code's counter never gives one twice, so that
\* any number that is not in use stands for the next one.
Numbers == 0..(2 * Cardinality(Exports))

\* path: Spec.Path is set; client: Spec.Clients is not empty; uri: Status.URI is set;
\* avail: condition Available.
Export == [phase: {"none", "live", "deleting"}, path: BOOLEAN, client: BOOLEAN, uri: BOOLEAN, avail: BOOLEAN]
NoExport == [phase |-> "none", path |-> FALSE, client |-> FALSE, uri |-> FALSE, avail |-> FALSE]

TypeOK ==
    /\ {obj, cache, copy} \subseteq [Exports -> Export]
    /\ queued \in [Exports -> BOOLEAN]
    /\ pc \in [Exports -> {"idle", "mark", "start", "export", "publish", "health", "degrade",
                           "unexport", "unadd", "forget", "finish"}]
    /\ m \in [Exports -> Numbers \cup {None}]
    /\ \A e \in Exports : pc[e] \in {"export", "publish", "forget"} => m[e] # None
    /\ dev \in [Numbers -> Exports \cup {None}] /\ pub \in [Exports -> Numbers \cup {None}]
    /\ up \in BOOLEAN /\ term \in {"no", "signalled", "told", "gone"} /\ closes \in 0..2
    /\ overtaken \subseteq Exports
    /\ creates \in 0..MaxCreates /\ joins \in 0..MaxJoins /\ terms \in 0..MaxTerms
    /\ crashes \in 0..MaxCrashes

Init ==
    /\ obj = [e \in Exports |-> NoExport] /\ cache = obj /\ copy = obj
    /\ queued = [e \in Exports |-> FALSE] /\ pc = [e \in Exports |-> "idle"]
    /\ m = [e \in Exports |-> None] /\ dev = [k \in Numbers |-> None] /\ pub = [e \in Exports |-> None]
    /\ up = TRUE /\ term = "no" /\ closes = 0 /\ overtaken = {}
    /\ creates = 0 /\ joins = 0 /\ terms = 0 /\ crashes = 0

-----------------------------------------------------------------------------
(* The table of device numbers. *)

Shutdown == term # "no"
InTable(table) == {e \in Exports : table[e] # None}

\* Mutant: the next number is the length of the table instead of a counter's value.
NodeNameByLength(e) == IF m[e] # None THEN m[e] ELSE Cardinality(InTable(m))
nodeName(e) ==
    IF m[e] # None THEN m[e]
    ELSE CHOOSE k \in Numbers : dev[k] = None /\ \A f \in Exports : k \notin {m[f], pub[f]}

-----------------------------------------------------------------------------
(* The steps of a reconcile of the export e. *)

ExportDegraded(x) == x.uri /\ ~x.avail

\* The exports between Reconcile's look at Shutdown and the number that StartExport takes.
Starting == {e \in Exports : pc[e] = "start"}

\* Where a reconcile goes from each of its decisions.
\* Mutant: the export is withdrawn without waiting for its clients.
DrainStepAtOnce(x) == "unexport"
DrainStep(x) == IF x.client THEN "idle" ELSE "unexport"
HealthStep(x) == IF x.client THEN "health" ELSE "idle"
StartStep(x) == IF ~x.uri /\ ~Shutdown THEN "start" ELSE HealthStep(x)
\* Mutant: an export that is being deleted stays available to new clients.
FirstStepStillAvailable(x) ==
    CASE x.phase = "none" -> "idle"
      [] x.phase = "deleting" -> DrainStep(x)
      [] x.phase = "live" -> IF ~x.path /\ x.avail THEN "mark" ELSE StartStep(x)
FirstStep(x) ==
    CASE x.phase = "none" -> "idle"
      [] x.phase = "deleting" -> IF ~ExportDegraded(x) THEN "degrade" ELSE DrainStep(x)
      [] x.phase = "live" -> IF ~x.path /\ x.avail THEN "mark" ELSE StartStep(x)

At(e, step) == term # "gone" /\ pc[e] = step
\* The reconcile goes on with x as its copy, which it gives up when it returns.
Goto(e, step, x) ==
    /\ pc' = [pc EXCEPT ![e] = step]
    /\ copy' = [copy EXCEPT ![e] = IF step = "idle" THEN NoExport ELSE x]
\* The reconcile returns an error and is queued again.
Fail(e) == Goto(e, "idle", NoExport) /\ queued' = [queued EXCEPT ![e] = TRUE]
Update(e, x) == obj[e] = copy[e] /\ obj' = [obj EXCEPT ![e] = x]

\* Reconcile reads the export from the cache.
Begin(e) ==
    /\ At(e, "idle") /\ queued[e]
    /\ queued' = [queued EXCEPT ![e] = FALSE]
    /\ Goto(e, FirstStep(cache[e]), cache[e])
    /\ UNCHANGED <<obj, cache, m, daemon, shutdown, counts>>

Unavailable(x) == [x EXCEPT !.avail = FALSE]
\* The export is marked unavailable because a stop was requested, or the deletion.
Mark(e) ==
    /\ At(e, "mark") /\ Update(e, Unavailable(copy[e]))
    /\ Goto(e, StartStep(copy[e]), Unavailable(copy[e]))
    /\ UNCHANGED <<cache, queued, m, daemon, shutdown, counts>>
Degrade(e) ==
    /\ At(e, "degrade") /\ Update(e, Unavailable(copy[e]))
    /\ Goto(e, DrainStep(copy[e]), Unavailable(copy[e]))
    /\ UNCHANGED <<cache, queued, m, daemon, shutdown, counts>>

\* Mutant: the number is not remembered.
BlockdevAddUnnamed(e) ==
    /\ At(e, "start") /\ up /\ copy[e].path
    /\ dev' = [dev EXCEPT ![nodeName(e)] = e]
    /\ Goto(e, "export", copy[e])
    /\ UNCHANGED <<obj, cache, queued, m, pub, up, shutdown, counts>>
\* StartExport: blockdev-add, where a node of that name that exists is good enough. The
\* number is taken before the command, and kept when it fails for want of a file name.
BlockdevAdd(e) ==
    LET k == nodeName(e) IN
    /\ At(e, "start") /\ up
    /\ m' = [m EXCEPT ![e] = k]
    /\ IF copy[e].path
       THEN /\ dev' = [dev EXCEPT ![k] = IF @ = None THEN e ELSE @]
            /\ Goto(e, "export", copy[e]) /\ UNCHANGED queued
       ELSE Fail(e) /\ UNCHANGED dev
    /\ UNCHANGED <<obj, cache, pub, up, shutdown, counts>>

\* StartExport: block-export-add, where an export of that name that exists is good enough.
BlockExportAdd(e) ==
    /\ At(e, "export") /\ up
    /\ IF pub[e] # None \/ dev[m[e]] # None
       THEN /\ pub' = [pub EXCEPT ![e] = IF @ = None THEN m[e] ELSE @]
            /\ Goto(e, "publish", copy[e]) /\ UNCHANGED queued
       ELSE Fail(e) /\ UNCHANGED pub
    /\ UNCHANGED <<obj, cache, m, dev, up, shutdown, counts>>

Started(x) == [x EXCEPT !.uri = TRUE, !.avail = TRUE]
Publish(e) ==
    /\ At(e, "publish") /\ Update(e, Started(copy[e]))
    /\ Goto(e, HealthStep(copy[e]), Started(copy[e]))
    /\ UNCHANGED <<cache, queued, m, daemon, shutdown, counts>>

\* QueryBlockExports finds the export.
Served(e) == up /\ pub[e] # None
\* CheckExportHealth: an export that is no longer served is marked unavailable.
CheckHealth(e) ==
    /\ At(e, "health")
    /\ IF Served(e)
       THEN Goto(e, "idle", NoExport) /\ UNCHANGED <<obj, queued>>
       ELSE Update(e, Unavailable(copy[e])) /\ Fail(e)
    /\ UNCHANGED <<cache, m, daemon, shutdown, counts>>

\* StopExport: block-export-del in hard mode, which cuts off clients, and blockdev-del, which
\* is refused while an export uses the device. What does not exist need not be deleted.
BlockExportDel(e) ==
    /\ At(e, "unexport") /\ up
    /\ pub' = [pub EXCEPT ![e] = None]
    /\ Goto(e, "unadd", copy[e])
    /\ UNCHANGED <<obj, cache, queued, m, dev, up, shutdown, counts>>

BlockdevDel(e) ==
    LET k == nodeName(e) IN
    /\ At(e, "unadd") /\ up /\ \A f \in Exports : pub[f] # k
    /\ m' = [m EXCEPT ![e] = k]
    /\ dev' = [dev EXCEPT ![k] = None]
    /\ Goto(e, "forget", copy[e])
    /\ UNCHANGED <<obj, cache, queued, pub, up, shutdown, counts>>

\* Mutant: the channel is closed only when there was no export to begin with.
ForgetQuietly(e) ==
    /\ At(e, "forget")
    /\ m' = [m EXCEPT ![e] = None]
    /\ Goto(e, "finish", copy[e])
    /\ UNCHANGED <<obj, cache, queued, daemon, shutdown, counts>>
\* StopExport: the number is given back, and the last one ends the server when it is to be
\* shut down. A channel cannot be closed twice: the process panics.
Forget(e) ==
    LET rest == [m EXCEPT ![e] = None]
        last == Shutdown /\ InTable(rest) = {}
    IN
    /\ At(e, "forget")
    /\ m' = rest
    /\ closes' = IF last THEN closes + 1 ELSE closes
    /\ overtaken' = IF last THEN overtaken \cup Starting ELSE overtaken
    /\ term' = IF closes' = 2 THEN "gone" ELSE term
    /\ Goto(e, "finish", copy[e])
    /\ UNCHANGED <<obj, cache, queued, daemon, counts>>

\* The finalizer is removed, and with it the object.
Finish(e) ==
    /\ At(e, "finish") /\ Update(e, NoExport)
    /\ Goto(e, "idle", NoExport)
    /\ UNCHANGED <<cache, queued, m, daemon, shutdown, counts>>

\* An Update conflicts, or the daemon cannot be reached.
GiveUp(e) ==
    /\ \/ \E step \in {"mark", "degrade", "publish", "finish"} : At(e, step) /\ obj[e] # copy[e]
       \/ At(e, "health") /\ ~Served(e) /\ obj[e] # copy[e]
       \/ \E step \in {"start", "export", "unexport", "unadd"} : At(e, step) /\ ~up
    /\ Fail(e)
    /\ UNCHANGED <<obj, cache, m, daemon, shutdown, counts>>

\* Mutant: the end of a client is not looked at.
GenerationButClients(x) == <<x.phase, x.path>>
\* The cache follows; only a new generation is reconciled, which a status is not part of.
Generation(x) == <<x.phase, x.path, x.client>>
Watch(e) ==
    /\ term # "gone" /\ cache[e] # obj[e]
    /\ cache' = [cache EXCEPT ![e] = obj[e]]
    /\ queued' = [queued EXCEPT ![e] = @ \/ Generation(cache[e]) # Generation(obj[e])]
    /\ UNCHANGED <<obj, copy, pc, m, daemon, shutdown, counts>>

-----------------------------------------------------------------------------
(* Shutdown of the pod. *)

\* SIGTERM: StopServer. An export that is starting is not in the table yet: it does not
\* keep the channel open.
Terminate ==
    /\ term = "no" /\ terms < MaxTerms
    /\ term' = "signalled" /\ terms' = terms + 1
    /\ closes' = IF InTable(m) = {} THEN 1 ELSE 0
    /\ overtaken' = IF InTable(m) = {} THEN overtaken \cup Starting ELSE overtaken
    /\ UNCHANGED <<obj, manager, daemon, creates, joins, crashes>>

\* triggerCleanup: the exports that the cache shows as started are asked to stop. An Update
\* that conflicts is tried again, though not forever.
AskStop(e) ==
    /\ term = "signalled" /\ cache[e].uri /\ cache[e].path /\ cache[e] = obj[e]
    /\ obj' = [obj EXCEPT ![e].path = FALSE]
    /\ UNCHANGED <<manager, daemon, shutdown, counts>>
EndCleanup ==
    /\ term = "signalled" /\ term' = "told"
    /\ UNCHANGED <<obj, manager, daemon, closes, overtaken, counts>>

\* The channel is closed: the context is cancelled and the process ends.
Cancel ==
    /\ term = "told" /\ closes = 1 /\ term' = "gone"
    /\ UNCHANGED <<obj, manager, daemon, closes, overtaken, counts>>

\* The daemon is told to quit when the channel is closed, or ended after the manager.
Quit ==
    /\ up /\ (closes > 0 \/ term = "gone")
    /\ up' = FALSE /\ dev' = [k \in Numbers |-> None] /\ pub' = [e \in Exports |-> None]
    /\ UNCHANGED <<obj, manager, shutdown, counts>>

\* A new process with a daemon of its own lists the exports and reconciles each, and counts
\* from 0 again. (The comment on blockdevs rules out a new process beside an old daemon.)
ReplacePod ==
    /\ term = "gone" /\ ~up
    /\ cache' = obj /\ copy' = [e \in Exports |-> NoExport]
    /\ queued' = [e \in Exports |-> obj[e].phase # "none"]
    /\ pc' = [e \in Exports |-> "idle"] /\ m' = [e \in Exports |-> None]
    /\ up' = TRUE /\ term' = "no" /\ closes' = 0
    /\ overtaken' = {e \in overtaken : obj[e].uri} \* the others start again
    /\ UNCHANGED <<obj, dev, pub, counts>>

\* The daemon dies, and its container starts again with nothing open.
CrashQsd ==
    /\ up /\ term # "gone" /\ closes = 0 /\ crashes < MaxCrashes /\ crashes' = crashes + 1
    /\ dev' = [k \in Numbers |-> None] /\ pub' = [e \in Exports |-> None]
    /\ UNCHANGED <<obj, manager, up, shutdown, creates, joins, terms>>

-----------------------------------------------------------------------------
(* The users of the exports: the Volume reconcilers of this node and of the others. *)

CreateExport(e) ==
    /\ term # "gone" /\ obj[e].phase = "none" /\ creates < MaxCreates /\ creates' = creates + 1
    /\ obj' = [obj EXCEPT ![e] = [NoExport EXCEPT !.phase = "live", !.path = TRUE]]
    /\ overtaken' = overtaken \ {e}
    /\ UNCHANGED <<manager, daemon, term, closes, joins, terms, crashes>>
RequestStop(e) ==
    /\ term # "gone" /\ obj[e].phase = "live" /\ obj[e].path
    /\ obj' = [obj EXCEPT ![e].path = FALSE]
    /\ UNCHANGED <<manager, daemon, shutdown, counts>>
\* The copy that showed no client may be old: Delete has no precondition.
DeleteExport(e) ==
    /\ term # "gone" /\ obj[e].phase = "live" /\ ~obj[e].path
    /\ obj' = [obj EXCEPT ![e].phase = "deleting"]
    /\ UNCHANGED <<manager, daemon, shutdown, counts>>
\* ConnectClient and DisconnectClient on another node.
JoinExport(e) ==
    /\ obj[e].uri /\ ~ExportDegraded(obj[e]) /\ ~obj[e].client /\ joins < MaxJoins
    /\ obj' = [obj EXCEPT ![e].client = TRUE] /\ joins' = joins + 1
    /\ UNCHANGED <<manager, daemon, shutdown, creates, terms, crashes>>
LeaveExport(e) ==
    /\ obj[e].client
    /\ obj' = [obj EXCEPT ![e].client = FALSE]
    /\ UNCHANGED <<manager, daemon, shutdown, counts>>

-----------------------------------------------------------------------------
Reconcile(e) ==
    \/ Begin(e) \/ Mark(e) \/ Degrade(e) \/ BlockdevAdd(e) \/ BlockExportAdd(e) \/ Publish(e)
    \/ CheckHealth(e) \/ BlockExportDel(e) \/ BlockdevDel(e) \/ Forget(e) \/ Finish(e) \/ GiveUp(e)

Next ==
    \/ \E e \in Exports :
        \/ Reconcile(e) \/ Watch(e) \/ AskStop(e)
        \/ CreateExport(e) \/ RequestStop(e) \/ DeleteExport(e) \/ JoinExport(e) \/ LeaveExport(e)
    \/ Terminate \/ EndCleanup \/ Cancel \/ Quit \/ ReplacePod \/ CrashQsd

Spec == Init /\ [][Next]_vars

\* The manager's work goes on, the pod is replaced, clients leave an export that is
\* degraded, and the host's Volume reconciler carries a stop that it began through to the
\* deletion.
UserReacts(e) == (ExportDegraded(obj[e]) /\ LeaveExport(e)) \/ (~obj[e].client /\ DeleteExport(e))
FairSpec ==
    /\ Spec
    /\ \A e \in Exports : WF_vars(Reconcile(e)) /\ WF_vars(Watch(e)) /\ WF_vars(UserReacts(e))
    /\ WF_vars(EndCleanup \/ Cancel \/ Quit \/ ReplacePod)

-----------------------------------------------------------------------------
(* Properties. *)

\* What the daemon serves under an export's name is the export's own device, whatever
\* other exports were started and stopped meanwhile: no number is given out twice.
ServesOwnDevice == \A e \in Exports : pub[e] # None => dev[pub[e]] = e

\* What an NBDExport says is true of the daemon. One that is gone is neither served nor is
\* its device open, so that the thin LV can be deactivated; one that invites clients is
\* served, whenever and however often the pod was terminated, as long as the daemon has not
\* crashed and the closing of the channel did not overtake StartExport.
ServedAsDeclared ==
    \A e \in Exports :
        /\ obj[e].phase = "none" => pub[e] = None /\ \A k \in Numbers : dev[k] # e
        /\ obj[e].avail /\ crashes = 0 /\ e \notin overtaken => pub[e] # None

\* The manager neither withdraws an export nor ends the daemon under a client: a claim in
\* Spec.Clients made before the export was degraded is always seen. What is left is a crash
\* of the daemon, and an export that StartExport added after the channel had been closed.
NeverCutsClients ==
    [][\A e \in Exports :
        obj[e].client /\ pub[e] # None /\ pub'[e] = None => crashes' # crashes \/ e \in overtaken]_vars

\* The channel that StopServer returns is closed only once there are no clients left, and
\* no client comes after that: whoever waits for it may end the daemon.
ClosedWhenUnused == closes > 0 => \A e \in Exports : ~(obj[e].client /\ pub[e] # None)

\* Once every export that holds a number, or is about to, has been asked to stop, the
\* shutdown completes.
ShutdownCompletes ==
    (term = "told" /\ \A e \in InTable(m) \cup Starting : ~obj[e].path) ~> (term = "gone")

\* An export that is being deleted goes away, whatever becomes of the manager and the
\* daemon meanwhile.
DeletionCompletes == \A e \in Exports : (obj[e].phase = "deleting") ~> (obj[e].phase = "none")
=============================================================================
