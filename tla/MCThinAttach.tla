---------------------------- MODULE MCThinAttach ----------------------------
(***************************************************************************)
(* ThinAttach for TLC.                                                     *)
(***************************************************************************)
EXTENDS ThinAttach, TLC

CONSTANT Slow \* bound: the nodes whose Volume reconciler may have old copies of the Volume
              \* and of the NBDExports for long

\* How many disturbances of each kind a behaviour has had. A slow node has caught up
\* before the first, and is slow no more.
Disturbances == clones + restarts + terms + crashes + pool.want - 1
SlowNow == IF Disturbances = 0 THEN Slow ELSE {}

\* The other copies are refreshed before anything else happens, in a fixed order.
Old(n, slow) ==
    IF n \notin publishing /\ xseen[n] # exports[n] THEN "own export"
    ELSE IF pseen[n] # pool THEN "own pool"
    ELSE IF n \in joining THEN "none"
    ELSE IF seen[n].pool # pool THEN "pool"
    ELSE IF n \in slow THEN "none"
    ELSE IF seen[n].vol # vol THEN "volume"
    ELSE IF seen[n].exp # exports THEN "exports"
    ELSE "none"
Behind(slow) == {n \in Nodes : Old(n, slow) # "none"}
SeeNext(n) ==
    CASE Old(n, SlowNow) = "own export" -> SeeOwnExport(n)
      [] Old(n, SlowNow) = "own pool" -> SeeOwnPool(n)
      [] Old(n, SlowNow) = "pool" -> SeePool(n)
      [] Old(n, SlowNow) = "volume" -> SeeVolume(n)
      [] OTHER -> SeeExport(n, CHOOSE h \in Nodes : seen[n].exp[h] # exports[h])
PromptWatch == SeeNext(CHOOSE n \in Behind(SlowNow) : TRUE)

\* A call of kubelet returns as soon as it can: until then it holds nothing up, and a
\* request to unstage is the same before and after NodeStageVolume has returned.
Returns(n) == csi[n] \in IF n \in vol.attached THEN {"staging"} ELSE {"cancelling", "unstaging"}
PromptReturns ==
    (\E n \in Nodes : Returns(n)) => \E n \in Nodes : Returns(n) /\ (StageReturns(n) \/ UnstageReturns(n))
Prompt == IF Behind(SlowNow) # {} THEN PromptWatch ELSE PromptReturns

\* Bound: one disturbance of any kind in a behaviour. With slow nodes, calls are given up
\* only after it.
OneDisturbance ==
    /\ Disturbances' <= 1
    /\ Disturbances' > Disturbances => Behind({}) = {}
    /\ SlowNow # {} => NotCancelled
    /\ Prompt
=============================================================================
