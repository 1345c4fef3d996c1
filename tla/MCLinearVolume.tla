--------------------------- MODULE MCLinearVolume ---------------------------
(***************************************************************************)
(* LinearVolume for TLC.                                                   *)
(***************************************************************************)
EXTENDS LinearVolume, TLC

NodeSymmetry == Permutations(Nodes)

\* Nodes differ in name only, so that the first leader may be any of them.
FirstLeader == CHOOSE n \in Nodes : TRUE
InitFrom == Init /\ leader = FirstLeader
FairSpecFrom == InitFrom /\ [][Next]_vars /\ Fairness

\* A node that the Volume has nothing to do with, neither in its copies nor on the server,
\* finds nothing to do whatever old copy it reads: its watch events and reconciles need not
\* wait.
Bystander(n) ==
    /\ \A v \in {vol, cache[n], local[n]} : n \notin {v.label} \cup v.attachTo \cup v.attached
    /\ active[n] = "no" /\ job[n] = NoJob
Behind(n) == Bystander(n) /\ (cache[n] # vol \/ queued[n] \/ pc[n] # "idle")
Catches(n) == cache'[n] # cache[n] \/ queued'[n] # queued[n] \/ pc'[n] # pc[n]
PromptBystanders ==
    (\E n \in Nodes : Behind(n)) => \E n \in Nodes : Behind(n) /\ Catches(n)

\* Bound: a volume is staged on one node at a time, on the same or another in turn.
OneUserAtATime == stages' > stages => \A n \in Nodes : kubelet[n] = "idle"

\* The orchestrator deletes a volume only after CreateVolume has returned it.
DeletedWhenReported == deletePending' => published
=============================================================================
