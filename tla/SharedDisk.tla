----------------------------- MODULE SharedDisk -----------------------------
(***************************************************************************)
(* What KubeSAN promises the users of a volume that several nodes share.   *)
(*                                                                         *)
(* The data has one home, a node or none. A user's device on a node can be *)
(* absent, paused, in which case I/O waits, or open, in which case I/O     *)
(* reaches the data. The home changes only while no device is open, so     *)
(* that no user's I/O is lost or overtaken by the move. A device that the  *)
(* user holds, from the return of NodeStageVolume to the call of           *)
(* NodeUnstageVolume, does not disappear, though it may be paused at any   *)
(* time.                                                                   *)
(***************************************************************************)
EXTENDS FiniteSets

CONSTANTS Nodes, None

VARIABLES home,   \* where the data is active
          device, \* each node's device: "absent", "paused" or "open"
          user    \* each node's user: "out", "staging", "in", "cancelling" or "unstaging"

diskVars == <<home, device, user>>

DiskInit ==
    /\ home = None
    /\ device = [n \in Nodes |-> "absent"]
    /\ user = [n \in Nodes |-> "out"]

Opened == {n \in Nodes : device[n] = "open"}

Settle(n) == home = None /\ home' = n /\ UNCHANGED <<device, user>>
Unsettle == home # None /\ Opened = {} /\ home' = None /\ UNCHANGED <<device, user>>

\* A device is made and removed for a user that does not hold it: a request that is
\* given up may leave one for a while.
Provide(n) ==
    /\ device[n] = "absent" /\ user[n] # "in"
    /\ device' = [device EXCEPT ![n] = "paused"]
    /\ UNCHANGED <<home, user>>

OpenDevice(n) ==
    /\ device[n] = "paused" /\ home # None
    /\ device' = [device EXCEPT ![n] = "open"]
    /\ UNCHANGED <<home, user>>

\* The failure of a server pauses all who depend on it.
Pause(S) ==
    /\ S # {} /\ S \subseteq Opened
    /\ device' = [n \in Nodes |-> IF n \in S THEN "paused" ELSE device[n]]
    /\ UNCHANGED <<home, user>>

Withdraw(n) ==
    /\ device[n] # "absent" /\ user[n] # "in"
    /\ device' = [device EXCEPT ![n] = "absent"]
    /\ UNCHANGED <<home, user>>

Request(n) ==
    /\ \/ user[n] = "out" /\ user' = [user EXCEPT ![n] = "staging"]
       \/ user[n] = "staging" /\ user' = [user EXCEPT ![n] = "cancelling"]
       \/ user[n] = "in" /\ user' = [user EXCEPT ![n] = "unstaging"]
    /\ UNCHANGED <<home, device>>

Confirm(n) ==
    /\ \/ user[n] = "staging" /\ device[n] # "absent" /\ user' = [user EXCEPT ![n] = "in"]
       \/ user[n] = "cancelling" /\ user' = [user EXCEPT ![n] = "out"]
       \/ user[n] = "unstaging" /\ device[n] = "absent" /\ user' = [user EXCEPT ![n] = "out"]
    /\ UNCHANGED <<home, device>>

DiskNext ==
    \/ Unsettle
    \/ \E S \in SUBSET Nodes : Pause(S)
    \/ \E n \in Nodes :
          Settle(n) \/ Provide(n) \/ OpenDevice(n) \/ Withdraw(n) \/ Request(n) \/ Confirm(n)

DiskSpec == DiskInit /\ [][DiskNext]_diskVars
=============================================================================
