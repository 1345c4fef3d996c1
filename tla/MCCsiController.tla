-------------------------- MODULE MCCsiController ---------------------------
(***************************************************************************)
(* CsiController for TLC: the requests of an orchestrator.                 *)
(***************************************************************************)
EXTENDS CsiController

CONSTANTS v1, v2, s1

Cap(type, access) == [type |-> type, access |-> access]
Plain == [op |-> "create", name |-> v1, mode |-> "Thin", params |-> 0, caps |-> {Cap("block", "single node")},
          min |-> 2, max |-> 0, source |-> None]

\* Creations of one name that differ in one field each.
MCCreates ==
    {Plain, [Plain EXCEPT !.mode = "Linear"], [Plain EXCEPT !.params = 1],
     [Plain EXCEPT !.caps = {Cap("block", "single node"), Cap("block", "multi node")}],
     [Plain EXCEPT !.caps = {Cap("filesystem", "single node")}], [Plain EXCEPT !.min = 3, !.max = 5]}
\* A clone of the volume and of its snapshot, and the snapshot.
MCCopies ==
    {[Plain EXCEPT !.name = v2, !.source = v1], [Plain EXCEPT !.name = v2, !.source = s1],
     [Plain EXCEPT !.name = s1, !.source = v1]}
MCExpands == {[Plain EXCEPT !.op = "expand", !.min = i] : i \in {4, 6}}
MCDeletes == {[Plain EXCEPT !.op = "delete", !.name = n] : n \in {v1, s1}}
\* Ranges of all kinds, told apart by their parameters.
MCRanges == {[Plain EXCEPT !.params = 2, !.min = i, !.max = j] : i, j \in -1..MaxInt}
MCRequests == MCCreates \cup MCCopies \cup MCExpands \cup MCDeletes \cup MCRanges

\* Bound: only the first request has any range, and then it is the only one.
RangeAsked(c) == call[c].pc # "idle" /\ call[c].req.op # "none" /\ call[c].req.params = 2
OneRange ==
    requests' # requests => /\ \A n \in Names : obj[n].params # 2
                            /\ (\E c \in Calls : RangeAsked(c)') => requests = 0
=============================================================================
