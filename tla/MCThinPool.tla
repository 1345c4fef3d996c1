----------------------------- MODULE MCThinPool -----------------------------
(***************************************************************************)
(* ThinPool for TLC.                                                       *)
(***************************************************************************)
EXTENDS ThinPool, TLC

NodeSymmetry == Permutations(Nodes)

\* A node that the pool has nothing to do with, neither in its cache nor on the
\* server, finds nothing to do whatever old copy it reads: its watch events and
\* reconciles need not wait.
Bystander(n) ==
    /\ n \notin {cache[n].node, cache[n].statusNode, pool.node, pool.statusNode, lvm.lock}
    /\ pc[n] = "idle"
Behind(n) == Bystander(n) /\ (cache[n] # pool \/ queued[n])
PromptBystanders ==
    (\E n \in Nodes : Behind(n))
        => \E n \in Nodes : Behind(n) /\ (cache'[n] # cache[n] \/ queued'[n] # queued[n])

\* Bound: how many elections, faults, deletions and expansions a behaviour holds, at
\* any step. None of them is under fairness, so leaving some out loses no behaviour
\* that the liveness properties need.
Disturbances == elections + faults + Cardinality(deleting) + size.spec - 1
FewDisturbances == Disturbances' <= IF kind = "Snapshot" THEN 2 ELSE 1
OneDisturbance == \* and a clone's source is left alone
    Disturbances' <= 1 /\ (kind = "Snapshot" \/ (Vol \notin deleting' /\ size'.spec = 1))
=============================================================================
