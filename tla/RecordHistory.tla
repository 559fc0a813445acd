---------------------------- MODULE RecordHistory ----------------------------
(***************************************************************************)
(* What a temporal data source promises about the records it stores, to all *)
(* its users together: versions are added, one at a time, and none is ever   *)
(* changed or removed.  The id of a version names it, and is later than the  *)
(* dataset it is stored in and than the datasets it imports.                 *)
(***************************************************************************)
EXTENDS Naturals

CONSTANTS
    Version,  \* possible versions, with fields id, data_set, imports and others
    Given     \* the versions there are at first

VARIABLE history

Fits(r) ==
    /\ r.id > r.data_set
    /\ \A i \in r.imports : r.id > i
    /\ \A q \in history : q.id # r.id

Init == history = Given

Add(r) == Fits(r) /\ history' = history \cup {r}

\* The new version is looked for in the new history, so that TLC need not
\* enumerate all the versions there could be.
Next == \E r \in history' \ history : r \in Version /\ Add(r)

Spec == Init /\ [][Next]_history
=============================================================================
