---------------------------- MODULE MCNbdServer -----------------------------
(***************************************************************************)
(* NbdServer for TLC.                                                      *)
(***************************************************************************)
EXTENDS NbdServer

CONSTANT Slow \* bound: the exports of which the manager's cache may be old for long

\* The cache of the others is refreshed before anything else happens to it.
Late == {e \in Exports \ Slow : term # "gone" /\ cache[e] # obj[e]}
Prompt == Late # {} => Watch(CHOOSE e \in Late : TRUE)

\* The exports differ only by name: the one that a client joins is the first.
First == CHOOSE e \in Exports : TRUE
JoinsFirst == joins' # joins => obj'[First] # obj[First]

\* Bound: one disturbance of any kind in a behaviour, or a third creation without a client.
OneDisturbance ==
    /\ terms' + crashes' + (IF creates' = 3 THEN 1 + joins' ELSE 0) <= 1
    /\ Prompt /\ JoinsFirst
=============================================================================
