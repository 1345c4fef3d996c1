----------------------------- MODULE ThinAttach -----------------------------
(***************************************************************************)
(* Attachment of one Thin volume to several nodes, and the migration of    *)
(* its thin LV between them.                                               *)
(*                                                                         *)
(* The thin LV is active on one node at a time. That node serves it to the *)
(* others through an NBDExport. On every node the user's device is a pair  *)
(* of device-mapper wrappers whose lower one is loaded with the thin LV or *)
(* with the NBD client's device, so that it can be exchanged while I/O is  *)
(* suspended.                                                              *)
(*                                                                         *)
(* Each node manager runs three reconcilers: of the Volume (attach,        *)
(* detach, NBD set-up and clean-up), of the NBDExports it hosts, and of    *)
(* the ThinPoolLv, which is reduced here to the activation and growth of   *)
(* the one thin LV (ThinPool has the rest).                                *)
(*                                                                         *)
(* A reconcile works on copies of the objects that may be old, and an      *)
(* Update succeeds only when made from the newest version. It is a series  *)
(* of effects, each on one object or device. Every effect can be repeated  *)
(* without harm, so that a reconcile which is cut short by an error or a   *)
(* restart comes back to the effect that is due as long as its copies stay *)
(* what they are: the effect due is a function of the copies and of the    *)
(* node's devices (VolumeDue, ExportDue, PoolDue), and each action, whose  *)
(* parameter "due" is that effect, performs one. A reconcile that returns  *)
(* to wait, or whose Update conflicts, changes nothing and is not a step.  *)
(* What a running reconcile knows beyond its copies is kept in "cleared",  *)
(* "joining" and "publishing". An old copy that equals the newest version  *)
(* may as well be refreshed first, so that equality stands for the         *)
(* resource version.                                                       *)
(***************************************************************************)
EXTENDS Integers, Sequences, FiniteSets, SequencesExt

CONSTANTS Nodes,        \* the cluster's nodes
          None,         \* an empty name
          MaxSize,      \* bound: the largest size of the volume, which starts at 1
          MaxStages,    \* bound: calls of NodeStageVolume
          MaxClones,    \* bound: clones made from the volume
          MaxRestarts,  \* bound: restarts of a node manager's process
          MaxTerms,     \* bound: terminations of a node manager's pod
          MaxCrashes    \* bound: crashes of qemu-storage-daemon

ASSUME NodesAssumption == IsFiniteSet(Nodes) /\ None \notin Nodes
ASSUME TablesAssumption == {"none", "zero", "lv"} \cap (Nodes \cup {None}) = {}
ASSUME BoundsAssumption ==
    MaxSize \in Nat \ {0} /\ {MaxStages, MaxClones, MaxRestarts, MaxTerms, MaxCrashes} \subseteq Nat

VARIABLES
    vol, pool, exports,  \* the Volume, the ThinPoolLv and, by host, the NBDExports
    seen,                \* each Volume reconciler's copies of the three
    cleared,             \* the nodes whose Volume reconcile goes on past the end of a
                         \* clean-up that found no export
    xseen,               \* each NBDExport reconciler's copy of its node's export
    pseen,               \* each ThinPoolLv reconciler's copy
    joining,             \* the nodes inside ConnectClient, past the claim
    publishing,          \* the nodes past StartExport, before the URI is published
    checkup,             \* the hosts whose export has a health check ahead
    lvm,                 \* the thin pool and the thin LV in the shared volume group
    dm,                  \* each node's device-mapper wrappers
    conn,                \* each node's NBD client connections, by host (clients.m)
    dead,                \* each node's connections whose server has gone
    qsd,                 \* the nodes whose qemu-storage-daemon serves the volume
    crashed,             \* the hosts where it has died without having been told to
    shut,                \* the nodes whose manager has received SIGTERM
    csi,                 \* how far kubelet is with the volume on each node
    stages, clones, restarts, terms, crashes \* what the bounds count

objects == <<vol, pool, exports>>
copies == <<seen, cleared, xseen, pseen>>
devices == <<lvm, dm, conn, dead, qsd, crashed>>
counts == <<stages, clones, restarts, terms, crashes>>
vars == <<objects, copies, joining, publishing, checkup, devices, shut, csi, counts>>

-----------------------------------------------------------------------------
(* Types. *)

Names == Nodes \cup {None}

\* Spec.AttachToNodes, Status.AttachedToNodes, Status.NBDExport (which is named after
\* its host) and Status.SizeBytes. The volume is available and not being deleted.
Volume == [attach: Seq(Nodes), attached: SUBSET Nodes, export: Names, size: 1..MaxSize]

\* The thin LV's state in Spec and Status, both ActiveOnNode fields, its size in Spec
\* and Status, and whether Spec lists a temporary snapshot "clone-..." as Active.
Pool == [spec: {"Inactive", "Active"}, status: {"Inactive", "Active"}, node: Names, statusNode: Names,
         want: 1..MaxSize, size: 1..MaxSize, clone: BOOLEAN]

\* path: Spec.Path is set; uri: Status.URI is set; avail: condition Available.
Export == [phase: {"none", "live", "deleting"}, path: BOOLEAN, clients: SUBSET Nodes,
           uri: BOOLEAN, avail: BOOLEAN, size: 0..MaxSize]
NoExport == [phase |-> "none", path |-> FALSE, clients |-> {}, uri |-> FALSE, avail |-> FALSE, size |-> 0]

\* A Volume reconciler's copies.
Copies == [vol: Volume, pool: Pool, exp: [Nodes -> Export]]

\* The lower wrapper's table: none, the zero target, the thin LV, or an NBD device named
\* by the host it is connected to; and whether the upper wrapper lets I/O pass.
Wrappers == [lower: {"none", "zero", "lv"} \cup Nodes, live: BOOLEAN, size: 0..MaxSize]
NoWrappers == [lower |-> "none", live |-> FALSE, size |-> 0]

TypeOK ==
    /\ vol \in Volume /\ pool \in Pool /\ exports \in [Nodes -> Export]
    /\ seen \in [Nodes -> Copies]
    /\ xseen \in [Nodes -> Export] /\ pseen \in [Nodes -> Pool]
    /\ lvm \in [lock: Names, on: BOOLEAN] /\ (lvm.on => lvm.lock # None)
    /\ dm \in [Nodes -> Wrappers] /\ conn \in [Nodes -> SUBSET Nodes]
    /\ dead \in [Nodes -> SUBSET Nodes] /\ \A n \in Nodes : dead[n] \subseteq conn[n]
    /\ {joining, publishing, checkup, qsd, crashed, shut} \subseteq SUBSET Nodes
    /\ cleared \subseteq Nodes
    /\ csi \in [Nodes -> {"out", "staging", "in", "cancelling", "unstaging"}]
    /\ stages \in 0..MaxStages /\ clones \in 0..MaxClones
    /\ restarts \in 0..MaxRestarts /\ terms \in 0..MaxTerms /\ crashes \in 0..MaxCrashes

-----------------------------------------------------------------------------
(* The node that the thin pool is to be active on. *)

\* recalcActiveOnNode, called on node n.
NeedsActivation(q) == q.spec = "Active" \/ q.status = "Active" \/ q.clone \/ q.want > q.size
Recalc(n, q) ==
    [q EXCEPT !.node = IF ~NeedsActivation(q) THEN None ELSE IF @ = None THEN n ELSE @]

\* InterestedNodes: a clone source pins the pool to its node. AttachToNodes names no node
\* twice (listType=set, AppendUnique), so there is one entry to take out.
Pinned(q) == q.clone /\ q.node # None
Others(q, nodes) == RemoveFirst(nodes, q.node)
InterestedNodes(q, nodes) == IF Pinned(q) THEN <<q.node>> \o Others(q, nodes) ELSE nodes

\* slices.DeleteFunc works in place: after the call the caller's AttachToNodes lacks the
\* pinned node and ends in empty names.
Mangled(q, nodes) ==
    IF Pinned(q)
    THEN Others(q, nodes) \o [i \in 1..(Len(nodes) - Len(Others(q, nodes))) |-> None]
    ELSE nodes

IsActiveOn(n, q) == q.statusNode = n /\ q.status = "Active"

-----------------------------------------------------------------------------
(* NBDExports, as their users see them. *)

ExportDegraded(e) == e.uri /\ ~e.avail

\* Mutant: the host goes on serving when it is no longer to be attached.
ShouldStopExportIfDegraded(n, h, e, nodes, size) ==
    e.phase # "none" /\ h = n /\ (ExportDegraded(e) \/ size > e.size)
\* Mutant: the size of the export is not compared.
ShouldStopExportAnySize(n, h, e, nodes, size) ==
    e.phase # "none" /\ h = n /\ (ExportDegraded(e) \/ ~Contains(nodes, n) \/ Len(nodes) = 1)
ShouldStopExport(n, h, e, nodes, size) ==
    /\ e.phase # "none" /\ h = n
    /\ \/ ExportDegraded(e)
       \/ size > e.size
       \/ ~Contains(nodes, n) \/ Len(nodes) = 1

\* CheckClient: connected, and whether the connection has to end. A connection whose
\* server is gone has no backend any more.
Connected(n, h, e) == e.uri /\ h \in conn[n]
MustDisconnect(n, h, e) ==
    e.uri /\ IF h \in conn[n] THEN h \in dead[n] \/ ExportDegraded(e) ELSE n \in e.clients

-----------------------------------------------------------------------------
(* The Volume reconciler of node n: reconcileThin. After an effect the next one is due by *)
(* the copies as they are then.                                                           *)

\* The export that Status.NBDExport names, as the reconciler sees it.
ExportSeen(n) == LET h == seen[n].vol.export IN IF h = None THEN NoExport ELSE seen[n].exp[h]

\* reconcileThinNBDCleanup gives up the client's connection.
Releases(n) ==
    LET v == seen[n].vol
        e == ExportSeen(n)
    IN  /\ e.phase # "none"
        /\ (Connected(n, v.export, e) /\ ~Contains(v.attach, n)) \/ MustDisconnect(n, v.export, e)
IsSuspended(n) == dm[n].lower = "none" \/ (dm[n].lower = "zero" /\ ~dm[n].live)

CleanupDue(n) ==
    LET v == seen[n].vol
        q == seen[n].pool
        e == ExportSeen(n)
    IN  CASE v.export = None -> "none"
          [] v.export # None /\ e.phase = "none" -> "clear"
          [] Releases(n) /\ ~IsSuspended(n) -> "suspend"
          [] Releases(n) /\ IsSuspended(n) /\ n \in e.clients -> "leave"
          [] ~(Releases(n) /\ (n \in e.clients \/ ~IsSuspended(n))) /\ e.phase # "none" ->
                IF ~ShouldStopExport(n, v.export, e, InterestedNodes(q, v.attach), q.size) THEN "none"
                ELSE IF e.path THEN "stop" ELSE IF e.clients = {} THEN "delete" ELSE "wait"

\* What the reconcile takes for Spec.AttachToNodes after the clean-up, which calls
\* InterestedNodes when Status names an export, whether or not it has found that.
AttachToNodes(n) ==
    IF ExportSeen(n).phase = "none" /\ n \notin cleared
    THEN seen[n].vol.attach ELSE Mangled(seen[n].pool, seen[n].vol.attach)

\* The claim on the pool by reconcileThinAttaching, and its transfer to the first node
\* that is left by reconcileThinDetaching.
ClaimedPool(n) ==
    LET q == seen[n].pool
    IN  Recalc(n, [q EXCEPT !.spec = "Active", !.node = Head(InterestedNodes(q, AttachToNodes(n)))])
ReleasedPool(n) ==
    LET q == seen[n].pool
        nodes == InterestedNodes(q, AttachToNodes(n))
    IN  IF n \notin {q.statusNode, q.node} THEN q
        ELSE Recalc(n, [q EXCEPT !.spec = IF AttachToNodes(n) = <<>> THEN "Inactive" ELSE @,
                                 !.node = IF nodes = <<>> THEN None ELSE Head(nodes)])

\* The wrappers' tables that reconcileThinAttaching is to load, or none while it waits
\* for the thin LV or for the export.
Target(n) ==
    LET q == seen[n].pool
        e == ExportSeen(n)
    IN  IF q.node = n
        THEN IF IsActiveOn(n, q) THEN [lower |-> "lv", live |-> TRUE, size |-> q.size] ELSE NoWrappers
        ELSE IF e.uri /\ ~ExportDegraded(e) THEN [lower |-> seen[n].vol.export, live |-> TRUE, size |-> e.size]
        ELSE NoWrappers

\* updateStatusAttachedToNodes
RecordedVolume(n, attached) ==
    LET v == seen[n].vol
        q == seen[n].pool
    IN  IF attached
        THEN [v EXCEPT !.attached = @ \cup {n},
                       !.size = IF IsActiveOn(n, q) /\ q.size > @ THEN q.size ELSE @]
        ELSE [v EXCEPT !.attached = @ \ {n}]

\* reconcileThinNBDSetup
NeedsExport(n) ==
    LET q == seen[n].pool
        nodes == InterestedNodes(q, Mangled(q, AttachToNodes(n)))
    IN  /\ IsActiveOn(n, q)
        /\ Contains(nodes, n) /\ Len(nodes) # 1
        /\ seen[n].vol.export # n

\* The next effect of a reconcile that has the copies seen[n].
AttachDue(n) ==
    CASE dm[n].lower = "none" \/ ClaimedPool(n) # seen[n].pool -> "claim"
      [] OTHER ->
           CASE Target(n) = NoWrappers -> "wait"
             [] Target(n).lower = "lv" /\ dm[n] # Target(n) -> "resume"
             [] Target(n).lower \in Nodes /\ n \notin ExportSeen(n).clients -> "join"
             [] Target(n).lower \in Nodes /\ n \in ExportSeen(n).clients /\ dm[n] # Target(n) -> "connect"
             [] OTHER -> IF RecordedVolume(n, TRUE) # seen[n].vol THEN "record"
                         ELSE IF NeedsExport(n) THEN "export" ELSE "none"
\* Mutant: the wrappers stay.
DetachDueKeepsWrappers(n) ==
    IF ReleasedPool(n) # seen[n].pool THEN "release"
    ELSE IF RecordedVolume(n, FALSE) # seen[n].vol THEN "record" ELSE "none"
DetachDue(n) ==
    CASE dm[n].lower # "none" -> "remove"
      [] dm[n].lower = "none" /\ ReleasedPool(n) # seen[n].pool -> "release"
      [] OTHER ->
           IF AttachToNodes(n) = <<>> /\ n \in {seen[n].pool.statusNode, seen[n].pool.node}
                  /\ seen[n].pool.status = "Active" THEN "wait"
           ELSE IF RecordedVolume(n, FALSE) # seen[n].vol THEN "record"
           ELSE IF NeedsExport(n) THEN "export" ELSE "none"
VolumeDue(n) ==
    IF n \in joining THEN "connect"
    ELSE IF CleanupDue(n) # "none" THEN CleanupDue(n)
    ELSE IF Contains(AttachToNodes(n), n) THEN AttachDue(n) ELSE DetachDue(n)

\* Update of an object by the Volume reconciler. The reconcile goes on with what it has
\* written, or it ends and the next one does not find that in its cache yet. An Update of
\* the Volume brings the list back that InterestedNodes has mangled.
UpdateVolume(n, v) ==
    /\ seen[n].vol = vol
    /\ vol' = v
    /\ seen' = [seen EXCEPT ![n].vol = v] \/ UNCHANGED seen
UpdatePool(n, q) ==
    /\ seen[n].pool = pool
    /\ pool' = q
    /\ \/ seen' = [seen EXCEPT ![n].pool = q] /\ UNCHANGED cleared
       \/ UNCHANGED seen /\ cleared' = cleared \ {n}
UpdateExport(n, h, e) ==
    /\ seen[n].exp[h] = exports[h]
    /\ exports' = [exports EXCEPT ![h] = e]
    /\ seen' = [seen EXCEPT ![n].exp[h] = e] \/ UNCHANGED seen

\* dm.Suspend: the lower wrapper lets its device go.
Suspend(n, due) ==
    /\ due = "suspend"
    /\ dm' = [dm EXCEPT ![n] = [@ EXCEPT !.lower = "zero", !.live = FALSE]]
    /\ UNCHANGED <<objects, copies, joining, publishing, checkup, lvm, conn, dead, qsd, crashed, shut, csi, counts>>

\* DisconnectClient, which ends by leaving the list of clients.
LeaveExport(n, due) ==
    LET h == seen[n].vol.export
    IN  /\ due = "leave"
        /\ conn' = [conn EXCEPT ![n] = @ \ {h}] /\ dead' = [dead EXCEPT ![n] = @ \ {h}]
        /\ \/ UpdateExport(n, h, [seen[n].exp[h] EXCEPT !.clients = @ \ {n}])
           \/ seen[n].exp[h] # exports[h] /\ h \in conn[n] /\ UNCHANGED <<exports, seen>>
        /\ UNCHANGED <<vol, pool, cleared, xseen, pseen, joining, publishing, checkup, lvm, dm, qsd, crashed, shut, csi, counts>>

\* The host asks for the end of its export, waits for the clients to leave, deletes it
RequestStop(n, due) ==
    /\ due = "stop"
    /\ UpdateExport(n, n, [seen[n].exp[n] EXCEPT !.path = FALSE])
    /\ UNCHANGED <<vol, pool, cleared, xseen, pseen, joining, publishing, checkup, devices, shut, csi, counts>>

DeleteExport(n, due) ==
    /\ due = "delete" /\ exports[n].phase = "live"
    /\ exports' = [exports EXCEPT ![n].phase = "deleting"]
    /\ UNCHANGED <<vol, pool, copies, joining, publishing, checkup, devices, shut, csi, counts>>

\* and clears Status.NBDExport, as every node does that no longer finds the export, to go
\* on as if it had found one that neither connects nor has to stop.
ClearExport(n, due) ==
    /\ due = "clear" \/ (due = "delete" /\ exports[n].phase # "live")
    /\ UpdateVolume(n, [seen[n].vol EXCEPT !.export = None])
    /\ cleared' = IF due = "clear" /\ seen' # seen THEN cleared \cup {n} ELSE cleared
    /\ UNCHANGED <<pool, exports, xseen, pseen, joining, publishing, checkup, devices, shut, csi, counts>>

\* reconcileThinAttaching: dm.Create, which makes the wrappers on the zero target, and
\* the claim on the pool.
Attach(n, due) ==
    /\ due = "claim"
    /\ dm' = [dm EXCEPT ![n] = IF @.lower # "none" THEN @
                               ELSE [lower |-> "zero", live |-> TRUE, size |-> seen[n].pool.size]]
    /\ \/ UpdatePool(n, ClaimedPool(n))
       \/ /\ seen[n].pool # pool /\ dm[n].lower = "none"
          /\ cleared' = cleared \ {n} /\ UNCHANGED <<pool, seen>>
    /\ UNCHANGED <<vol, exports, xseen, pseen, joining, publishing, checkup, lvm, conn, dead, qsd, crashed, shut, csi, counts>>

\* ConnectClient: first the claim in Spec.Clients, then the connection, then dm.Resume.
JoinExport(n, due) ==
    LET h == seen[n].vol.export
    IN  /\ due = "join"
        /\ UpdateExport(n, h, [seen[n].exp[h] EXCEPT !.clients = @ \cup {n}])
        /\ joining' = joining \cup {n}
        /\ UNCHANGED <<vol, pool, cleared, xseen, pseen, publishing, checkup, devices, shut, csi, counts>>

ConnectClient(n, due) ==
    LET h == seen[n].vol.export
    IN  /\ due = "connect"
        /\ joining' = joining \ {n}
        /\ \/ /\ h \in conn[n] \cup qsd
              /\ conn' = [conn EXCEPT ![n] = @ \cup {h}]
              /\ dm' = [dm EXCEPT ![n] = [lower |-> h, live |-> TRUE, size |-> seen[n].exp[h].size]]
              /\ UNCHANGED <<exports, seen>>
           \/ \* no connection: a best effort to undo the claim
              /\ h \notin conn[n] \cup qsd
              /\ \/ UpdateExport(n, h, [seen[n].exp[h] EXCEPT !.clients = @ \ {n}])
                 \/ seen[n].exp[h] # exports[h] /\ UNCHANGED <<exports, seen>>
              /\ UNCHANGED <<conn, dm>>
        /\ UNCHANGED <<vol, pool, cleared, xseen, pseen, publishing, checkup, lvm, dead, qsd, crashed, shut, csi, counts>>

Resume(n, due) ==
    /\ due = "resume"
    /\ lvm.lock = n /\ lvm.on
    /\ dm' = [dm EXCEPT ![n] = Target(n)]
    /\ UNCHANGED <<objects, copies, joining, publishing, checkup, lvm, conn, dead, qsd, crashed, shut, csi, counts>>

\* reconcileThinDetaching: dm.Remove, then the transfer of the pool.
RemoveWrappers(n, due) ==
    /\ due = "remove"
    /\ dm' = [dm EXCEPT ![n] = NoWrappers]
    /\ UNCHANGED <<objects, copies, joining, publishing, checkup, lvm, conn, dead, qsd, crashed, shut, csi, counts>>

ReleasePool(n, due) ==
    /\ due = "release"
    /\ UpdatePool(n, ReleasedPool(n))
    /\ UNCHANGED <<vol, exports, xseen, pseen, joining, publishing, checkup, devices, shut, csi, counts>>

RecordStatus(n, due) ==
    /\ due = "record"
    /\ UpdateVolume(n, RecordedVolume(n, Contains(AttachToNodes(n), n)))
    /\ cleared' = cleared \ {n}
    /\ UNCHANGED <<pool, exports, xseen, pseen, joining, publishing, checkup, devices, shut, csi, counts>>

\* reconcileThinNBDSetup: an export of that name may still exist.
CreateExport(n, due) ==
    /\ due = "export" /\ exports[n].phase = "none"
    /\ exports' = [exports EXCEPT ![n] = [NoExport EXCEPT !.phase = "live", !.path = TRUE,
                                                          !.size = seen[n].pool.size]]
    /\ UNCHANGED <<vol, pool, copies, joining, publishing, checkup, devices, shut, csi, counts>>

NameExport(n, due) ==
    /\ due = "export" /\ exports[n].phase # "none"
    /\ UpdateVolume(n, [seen[n].vol EXCEPT !.export = n])
    /\ cleared' = cleared \ {n}
    /\ UNCHANGED <<pool, exports, xseen, pseen, joining, publishing, checkup, devices, shut, csi, counts>>

\* A change reaches the reconciler's copies, which stay as they are inside ConnectClient.
SeeVolume(n) ==
    /\ n \notin joining /\ seen[n].vol # vol
    /\ seen' = [seen EXCEPT ![n].vol = vol]
    /\ cleared' = cleared \ {n}
    /\ UNCHANGED <<objects, xseen, pseen, joining, publishing, checkup, devices, shut, csi, counts>>
SeePool(n) ==
    /\ n \notin joining /\ seen[n].pool # pool
    /\ seen' = [seen EXCEPT ![n].pool = pool]
    /\ cleared' = cleared \ {n}
    /\ UNCHANGED <<objects, xseen, pseen, joining, publishing, checkup, devices, shut, csi, counts>>
SeeExport(n, h) ==
    /\ n \notin joining /\ seen[n].exp[h] # exports[h]
    /\ seen' = [seen EXCEPT ![n].exp[h] = exports[h]]
    /\ cleared' = cleared \ {n}
    /\ UNCHANGED <<objects, xseen, pseen, joining, publishing, checkup, devices, shut, csi, counts>>
\* A reconcile that has cleared an export ends, and the next one starts from its cache.
EndReconcile(n) ==
    /\ n \in cleared
    /\ cleared' = cleared \ {n}
    /\ UNCHANGED <<objects, seen, xseen, pseen, joining, publishing, checkup, devices, shut, csi, counts>>

-----------------------------------------------------------------------------
(* The NBDExport reconciler of node n, for the export it hosts. *)

\* The next effect of a reconcile that has the copy xseen[n]. A deleted export that was
\* never published is marked as unavailable all the same.
\* Mutant: the export ends without waiting for its clients.
DrainingAtOnce(e) == "remove"
Draining(e) == IF e.clients # {} THEN "wait" ELSE "remove"
ExportDue(n) ==
    LET e == xseen[n]
    IN  CASE e.phase = "none" -> "none"
          [] e.phase = "deleting" -> IF e.avail THEN "degrade" ELSE Draining(e)
          [] e.phase = "live" /\ ~e.path /\ e.avail -> "degrade"
          [] e.phase = "live" /\ (e.path \/ ~e.avail) ->
                IF ~e.uri /\ n \notin shut THEN "start"
                ELSE IF n \in checkup /\ e.clients # {} THEN "health" ELSE "none"

UpdateOwnExport(n, e) ==
    /\ xseen[n] = exports[n]
    /\ exports' = [exports EXCEPT ![n] = e]
    /\ xseen' = [xseen EXCEPT ![n] = e] \/ UNCHANGED xseen

\* Available turns false when the end of the export is requested, so that no client
\* connects any more and those there are leave.
DegradeExport(n, due) ==
    /\ due = "degrade"
    /\ UpdateOwnExport(n, [xseen[n] EXCEPT !.avail = FALSE])
    /\ UNCHANGED <<vol, pool, seen, cleared, pseen, joining, publishing, checkup, devices, shut, csi, counts>>

\* nbd.StartExport opens the device named by Spec.Path. Then the URI is published.
StartExport(n, due) ==
    /\ due = "start" /\ n \notin publishing
    /\ n \in qsd \/ (xseen[n].path /\ lvm.lock = n /\ lvm.on)
    /\ qsd' = qsd \cup {n}
    /\ publishing' = publishing \cup {n}
    /\ UNCHANGED <<objects, copies, joining, checkup, lvm, dm, conn, dead, crashed, shut, csi, counts>>

PublishExport(n) ==
    /\ n \in publishing
    /\ publishing' = publishing \ {n}
    /\ \/ UpdateOwnExport(n, [xseen[n] EXCEPT !.uri = TRUE, !.avail = TRUE])
       \/ xseen[n] # exports[n] /\ UNCHANGED <<exports, xseen>>
    /\ UNCHANGED <<vol, pool, seen, cleared, pseen, joining, checkup, devices, shut, csi, counts>>

\* CheckExportHealth ends a reconcile of an export that has clients.
CheckHealth(n, due) ==
    /\ due = "health"
    /\ \/ /\ n \in qsd
          /\ checkup' = checkup \ {n}
          /\ UNCHANGED <<exports, xseen>>
       \/ /\ n \notin qsd /\ xseen[n].avail
          /\ UpdateOwnExport(n, [xseen[n] EXCEPT !.avail = FALSE])
          /\ UNCHANGED checkup
    /\ UNCHANGED <<vol, pool, seen, cleared, pseen, joining, publishing, devices, shut, csi, counts>>

\* q-s-d stops serving the volume, which ends the connections there are.
Cut(h) ==
    /\ qsd' = qsd \ {h}
    /\ dead' = [n \in Nodes |-> IF h \in conn[n] THEN dead[n] \cup {h} ELSE dead[n]]

\* reconcileDeleting: nbd.StopExport, then the finalizer.
StopExport(n, due) ==
    /\ due = "remove" /\ n \in qsd
    /\ Cut(n)
    /\ UNCHANGED <<objects, copies, joining, publishing, checkup, lvm, dm, conn, crashed, shut, csi, counts>>

RemoveFinalizer(n, due) ==
    /\ due = "remove" /\ n \notin qsd
    /\ UpdateOwnExport(n, NoExport)
    /\ UNCHANGED <<vol, pool, seen, cleared, pseen, joining, publishing, checkup, devices, shut, csi, counts>>

\* The reconciler is triggered by changes of Spec or DeletionTimestamp only.
Generation(e) == <<e.phase, e.path, e.clients>>
SeeOwnExport(n) ==
    /\ n \notin publishing /\ xseen[n] # exports[n]
    /\ xseen' = [xseen EXCEPT ![n] = exports[n]]
    /\ checkup' = IF Generation(exports[n]) # Generation(xseen[n]) THEN checkup \cup {n} ELSE checkup
    /\ UNCHANGED <<objects, seen, cleared, pseen, joining, publishing, devices, shut, csi, counts>>

-----------------------------------------------------------------------------
(* The ThinPoolLv reconciler of node n. *)

ShouldBeActive(n, q) == q.node = n /\ (q.spec = "Active" \/ q.clone)

\* The device of the thin LV is open below a wrapper or in qemu-storage-daemon.
InUse(n) == dm[n].lower = "lv" \/ n \in qsd

\* reconcileThinPoolLvActivation, then, by the node in charge, the growth of the thin LV
\* and its activation.
PoolDue(n) ==
    LET q == pseen[n]
    IN  CASE ShouldBeActive(n, q) /\ q.statusNode \notin {n, None} -> "wait"
          [] ShouldBeActive(n, q) /\ (q.statusNode = None \/ (q.statusNode = n /\ lvm.lock # n)) -> "activate"
          [] ~ShouldBeActive(n, q) /\ n \in {lvm.lock, q.statusNode} -> "deactivate"
          [] OTHER ->
                IF q.node # n \/ q.statusNode \notin {n, None} THEN "none"
                ELSE IF q.want > q.size THEN "grow"
                ELSE IF q.spec # q.status \/ (q.spec = "Active") # (lvm.lock = n /\ lvm.on) THEN "match" ELSE "none"

UpdateOwnPool(n, q) ==
    /\ pseen[n] = pool
    /\ pool' = q
    /\ pseen' = [pseen EXCEPT ![n] = q] \/ UNCHANGED pseen

\* Each acts on LVM, which grants the pool's lock to one node, and then on Status: both,
\* or LVM alone when the Update fails.
ActivatePool(n, due) ==
    /\ due = "activate" /\ lvm.lock \in {n, None}
    /\ lvm' = [lvm EXCEPT !.lock = n]
    /\ \/ UpdateOwnPool(n, [pseen[n] EXCEPT !.statusNode = n])
       \/ pseen[n] # pool /\ lvm.lock = None /\ UNCHANGED <<pool, pseen>>
    /\ UNCHANGED <<vol, exports, seen, cleared, xseen, joining, publishing, checkup, dm, conn, dead, qsd, crashed, shut, csi, counts>>

\* Mutant: the lock is released before the thin LV is deactivated.
DeactivatePoolHalf(n, due) ==
    /\ due = "deactivate" /\ ~InUse(n)
    /\ lvm' = IF lvm.lock = n THEN [lvm EXCEPT !.lock = None] ELSE lvm
    /\ UpdateOwnPool(n, [pseen[n] EXCEPT !.statusNode = None])
    /\ UNCHANGED <<vol, exports, seen, cleared, xseen, joining, publishing, checkup, dm, conn, dead, qsd, crashed, shut, csi, counts>>
DeactivatePool(n, due) ==
    /\ due = "deactivate" /\ ~InUse(n)
    /\ lvm' = IF lvm.lock = n THEN [lock |-> None, on |-> FALSE] ELSE lvm
    /\ \/ UpdateOwnPool(n, [pseen[n] EXCEPT !.statusNode = None, !.status = "Inactive"])
       \/ pseen[n] # pool /\ lvm.lock = n /\ UNCHANGED <<pool, pseen>>
    /\ UNCHANGED <<vol, exports, seen, cleared, xseen, joining, publishing, checkup, dm, conn, dead, qsd, crashed, shut, csi, counts>>

\* expandThinLv
GrowThinLv(n, due) ==
    /\ due = "grow" /\ lvm.lock \in {n, None}
    /\ UpdateOwnPool(n, [pseen[n] EXCEPT !.size = pseen[n].want])
    /\ UNCHANGED <<vol, exports, seen, cleared, xseen, joining, publishing, checkup, devices, shut, csi, counts>>

\* reconcileThinLvActivations
MatchThinLv(n, due) ==
    LET on == pseen[n].spec = "Active"
    IN  /\ due = "match"
        /\ IF on THEN lvm.lock \in {n, None} ELSE ~InUse(n)
        /\ lvm' = IF on THEN [lock |-> n, on |-> TRUE]
                  ELSE IF lvm.lock = n THEN [lvm EXCEPT !.on = FALSE] ELSE lvm
        /\ \/ UpdateOwnPool(n, [pseen[n] EXCEPT !.status = pseen[n].spec])
           \/ pseen[n] # pool /\ lvm' # lvm /\ UNCHANGED <<pool, pseen>>
        /\ UNCHANGED <<vol, exports, seen, cleared, xseen, joining, publishing, checkup, dm, conn, dead, qsd, crashed, shut, csi, counts>>

SeeOwnPool(n) ==
    /\ pseen[n] # pool
    /\ pseen' = [pseen EXCEPT ![n] = pool]
    /\ UNCHANGED <<objects, seen, cleared, xseen, joining, publishing, checkup, devices, shut, csi, counts>>

-----------------------------------------------------------------------------
(* Requests of users, and faults. *)

\* NodeStageVolume and NodeUnstageVolume (of a volume that is staged, or that kubelet has
\* given up staging) change Spec.AttachToNodes and wait for Status.
Stage(n) ==
    /\ csi[n] = "out" /\ stages < MaxStages
    /\ vol' = [vol EXCEPT !.attach = IF Contains(@, n) THEN @ ELSE Append(@, n)]
    /\ csi' = [csi EXCEPT ![n] = "staging"]
    /\ stages' = stages + 1
    /\ UNCHANGED <<pool, exports, copies, joining, publishing, checkup, devices, shut, clones, restarts, terms, crashes>>

StageReturns(n) ==
    /\ csi[n] = "staging" /\ n \in vol.attached
    /\ csi' = [csi EXCEPT ![n] = "in"]
    /\ UNCHANGED <<objects, copies, joining, publishing, checkup, devices, shut, counts>>

Unstage(n) ==
    /\ csi[n] \in {"staging", "in"}
    /\ vol' = [vol EXCEPT !.attach = RemoveFirst(@, n)]
    /\ csi' = [csi EXCEPT ![n] = IF @ = "in" THEN "unstaging" ELSE "cancelling"]
    /\ UNCHANGED <<pool, exports, copies, joining, publishing, checkup, devices, shut, counts>>

UnstageReturns(n) ==
    /\ csi[n] \in {"cancelling", "unstaging"} /\ n \notin vol.attached
    /\ csi' = [csi EXCEPT ![n] = "out"]
    /\ UNCHANGED <<objects, copies, joining, publishing, checkup, devices, shut, counts>>

\* ControllerExpandVolume of an attached volume: CreateBlob raises the size in Spec.
Expand(n) ==
    /\ pool.want < MaxSize /\ vol.attach # <<>>
    /\ pool' = Recalc(n, [pool EXCEPT !.want = @ + 1])
    /\ UNCHANGED <<vol, exports, copies, joining, publishing, checkup, devices, shut, csi, counts>>

\* A clone of the volume is populated from a temporary snapshot; the cluster manager
\* runs on node n.
BeginClone(n) ==
    /\ ~pool.clone /\ clones < MaxClones
    /\ pool' = Recalc(n, [pool EXCEPT !.clone = TRUE])
    /\ clones' = clones + 1
    /\ UNCHANGED <<vol, exports, copies, joining, publishing, checkup, devices, shut, csi, stages, restarts, terms, crashes>>

EndClone(n) ==
    /\ pool.clone
    /\ pool' = Recalc(n, [pool EXCEPT !.clone = FALSE])
    /\ UNCHANGED <<vol, exports, copies, joining, publishing, checkup, devices, shut, csi, counts>>

\* A new manager process has no reconcile in progress and looks at every export.
\* nbd.Startup finds the NBD devices that have a server.
NewProcess(n) ==
    /\ cleared' = cleared \ {n} /\ joining' = joining \ {n} /\ publishing' = publishing \ {n}
    /\ checkup' = checkup \cup {n}
    /\ conn' = [conn EXCEPT ![n] = @ \ dead[n]] /\ dead' = [dead EXCEPT ![n] = {}]

RestartManager(n) ==
    /\ n \notin shut /\ restarts < MaxRestarts
    /\ restarts' = restarts + 1
    /\ NewProcess(n)
    /\ UNCHANGED <<objects, seen, xseen, pseen, lvm, dm, qsd, crashed, shut, csi, stages, clones, terms, crashes>>

\* SIGTERM: nothing is exported any more, and triggerCleanup requests the end of what
\* the cache shows as exported. The process goes on until q-s-d serves nothing.
Terminate(n) ==
    /\ n \notin shut /\ terms < MaxTerms
    /\ terms' = terms + 1
    /\ shut' = shut \cup {n}
    /\ exports' = [exports EXCEPT ![n].path = @ /\ ~xseen[n].uri]
    /\ UNCHANGED <<vol, pool, copies, joining, publishing, checkup, devices, csi, stages, clones, restarts, crashes>>

ReplacePod(n) ==
    /\ n \in shut /\ n \notin qsd
    /\ shut' = shut \ {n}
    /\ NewProcess(n)
    /\ UNCHANGED <<objects, seen, xseen, pseen, lvm, dm, qsd, crashed, csi, counts>>

\* q-s-d dies, or is killed with its pod at the end of the grace period.
CrashQsd(n) ==
    /\ n \in qsd /\ crashes < MaxCrashes
    /\ crashes' = crashes + 1
    /\ Cut(n) /\ crashed' = crashed \cup {n}
    /\ UNCHANGED <<objects, copies, joining, publishing, checkup, lvm, dm, conn, shut, csi, stages, clones, restarts, terms>>

-----------------------------------------------------------------------------

Init ==
    /\ vol = [attach |-> <<>>, attached |-> {}, export |-> None, size |-> 1]
    /\ pool = [spec |-> "Inactive", status |-> "Inactive", node |-> None, statusNode |-> None,
               want |-> 1, size |-> 1, clone |-> FALSE]
    /\ exports = [h \in Nodes |-> NoExport]
    /\ seen = [n \in Nodes |-> [vol |-> vol, pool |-> pool, exp |-> exports]]
    /\ xseen = exports /\ pseen = [n \in Nodes |-> pool]
    /\ lvm = [lock |-> None, on |-> FALSE]
    /\ dm = [n \in Nodes |-> NoWrappers] /\ conn = [n \in Nodes |-> {}] /\ dead = conn
    /\ cleared = {} /\ joining = {} /\ publishing = {} /\ checkup = {} /\ qsd = {} /\ crashed = {} /\ shut = {}
    /\ csi = [n \in Nodes |-> "out"]
    /\ stages = 0 /\ clones = 0 /\ restarts = 0 /\ terms = 0 /\ crashes = 0

VolumeEffect(n, due) ==
    \/ Suspend(n, due) \/ LeaveExport(n, due) \/ RequestStop(n, due) \/ DeleteExport(n, due) \/ ClearExport(n, due)
    \/ Attach(n, due) \/ JoinExport(n, due) \/ ConnectClient(n, due) \/ Resume(n, due)
    \/ RemoveWrappers(n, due) \/ ReleasePool(n, due) \/ RecordStatus(n, due) \/ CreateExport(n, due) \/ NameExport(n, due)
VolumeStep(n) == \E due \in {VolumeDue(n)} : VolumeEffect(n, due)

ExportEffect(n, due) ==
    \/ DegradeExport(n, due) \/ StartExport(n, due) \/ PublishExport(n)
    \/ CheckHealth(n, due) \/ StopExport(n, due) \/ RemoveFinalizer(n, due)
ExportStep(n) == \E due \in {ExportDue(n)} : ExportEffect(n, due)

PoolEffect(n, due) ==
    ActivatePool(n, due) \/ DeactivatePool(n, due) \/ GrowThinLv(n, due) \/ MatchThinLv(n, due)
PoolStep(n) == \E due \in {PoolDue(n)} : PoolEffect(n, due)

Watch(n) ==
    \/ SeeVolume(n) \/ SeePool(n) \/ SeeOwnExport(n) \/ SeeOwnPool(n) \/ EndReconcile(n)
    \/ \E h \in Nodes : SeeExport(n, h)

Kubelet(n) == StageReturns(n) \/ UnstageReturns(n) \/ ReplacePod(n)

User(n) == Stage(n) \/ Unstage(n) \/ Expand(n) \/ BeginClone(n)
Fault(n) == RestartManager(n) \/ Terminate(n) \/ CrashQsd(n)

SystemStep(n) ==
    VolumeStep(n) \/ ExportStep(n) \/ PoolStep(n) \/ Watch(n) \/ Kubelet(n) \/ EndClone(n)

Next == \E n \in Nodes : SystemStep(n) \/ User(n) \/ Fault(n)
Spec == Init /\ [][Next]_vars

(* Conditions under which no request meets one of the gaps that this code has. *)

\* A clone source does not pin the pool to a node that the volume is attached to: then
\* InterestedNodes has nothing to take out of AttachToNodes.
Unmangled == ~(pool'.clone /\ Contains(vol'.attach, pool'.node))

\* A node that hosts the volume for others is attached as the first one only. As a later
\* one it would become the client of its own export and never give up the thin LV.
HostIsFirst ==
    \A h \in Nodes : Contains(vol'.attach, h) /\ (exports[h].phase = "live" \/ pool.statusNode = h)
                        => h = Head(vol'.attach)

\* A volume is unstaged only where it has been staged. To give up earlier returns at once,
\* and the node could come back at the end of AttachToNodes without having detached.
NotCancelled == \A n \in Nodes : csi'[n] # "cancelling"

\* No request comes between the creation of an export and its entry in Status.NBDExport,
\* which would leave it without a reference, nor between the request to end one that has
\* not started and its deletion, which would leave it without a device.
HalfDone(h) == exports[h].phase = "live" /\ (vol.export # h \/ ~(exports[h].path \/ exports[h].uri))
DoneAtOnce ==
    (\E h \in Nodes : HalfDone(h)) => vol'.attach = vol.attach /\ pool'.clone = pool.clone

\* SIGTERM does not come between the start of an export and the moment that the host's
\* cache shows its URI, which would leave it to the end of the grace period.
PublishedAtOnce ==
    \A h \in qsd \ shut : h \in shut' => h \notin publishing /\ xseen[h].uri

\* What liveness asks of each step.
Patient == Unmangled /\ HostIsFirst /\ NotCancelled /\ DoneAtOnce /\ PublishedAtOnce

\* Every reconciler is run again while something is due, watches deliver every change in
\* the end, kubelet's calls return, and the population of a clone ends. Users owe nothing.
Fairness ==
    \A n \in Nodes :
        /\ WF_vars(VolumeStep(n)) /\ WF_vars(ExportStep(n)) /\ WF_vars(PoolStep(n))
        /\ WF_vars(Watch(n)) /\ WF_vars(Kubelet(n)) /\ WF_vars(EndClone(n))
FairSpec == Spec /\ Fairness

-----------------------------------------------------------------------------
(* Properties. *)

\* NodeStageVolume's promise, kept until NodeUnstageVolume: the wrapper exists, and I/O
\* that passes it reaches the thin LV.
Reaches(n) ==
    \/ dm[n].lower = "lv" /\ lvm.lock = n /\ lvm.on
    \/ dm[n].lower \in (conn[n] \ dead[n]) \cup crashed
StagedIsBacked ==
    \A n \in Nodes : csi[n] = "in" => dm[n].lower # "none" /\ (dm[n].live => Reaches(n))

\* The volume is the shared disk that its users see.
Flows(n) == dm[n].live /\ (dm[n].lower = "lv" \/ dm[n].lower \in conn[n] \ dead[n])
Home == IF lvm.on THEN lvm.lock ELSE None
Device == [n \in Nodes |-> IF dm[n].lower = "none" THEN "absent" ELSE IF Flows(n) THEN "open" ELSE "paused"]
Disk == INSTANCE SharedDisk WITH home <- Home, device <- Device, user <- csi
ImplementsSharedDisk == Disk!DiskSpec

\* The bounds on requests and faults let every behaviour come to rest. Then, if every step
\* was patient, NodeStageVolume and NodeUnstageVolume have returned and no manager is
\* shutting down,
CallsReturn == <>[](shut = {} /\ \A n \in Nodes : csi[n] \in {"out", "in"})

\* every device that a user holds is resumed, with the size that was asked for, and a
\* volume that nobody uses has been given back.
InPlace(n) == Flows(n) /\ dm[n].size = pool.want
GivenBack == lvm.lock = None /\ qsd = {} /\ vol.export = None /\ \A n \in Nodes : dm[n] = NoWrappers
DevicesSettle ==
    <>[]((\A n \in Nodes : csi[n] = "in" => InPlace(n)) /\ (vol.attach = <<>> => GivenBack))
=============================================================================
