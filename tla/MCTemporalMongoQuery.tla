------------------------- MODULE MCTemporalMongoQuery -------------------------
(* Instances of TemporalMongoQuery for TLC.                                   *)
EXTENDS TemporalMongoQuery

CONSTANTS Base, Other

\* A query with each combination of filter and sort, and with each kind of cutoff.
MCQueries ==
    [where : {None, {1}}, sorted : BOOLEAN, cutoff : {None}, imports_cutoff : {None}]
    \cup [where : {None}, sorted : {TRUE}, cutoff : {3}, imports_cutoff : {None}]
    \cup [where : {None}, sorted : BOOLEAN, cutoff : {None}, imports_cutoff : {2}]

FilterQueries ==
    [where : {None, {1}}, sorted : {TRUE}, cutoff : {None}, imports_cutoff : {None}]

\* Delete markers have no element; records of a type the query cannot cast have
\* the same value.
Contents == [type : {Base}, value : Value] \cup [type : {Other}, value : {1}]
               \cup [type : {None}, value : {NoValue}]

\* The first n versions of the collection.  Keys are interchangeable, so the first
\* version is one of a fixed key.
Filled(n) ==
    {{[id |-> i, key |-> f[i][1], data_set |-> f[i][2], type |-> f[i][3].type, value |-> f[i][3].value]
        : i \in 1 .. n} :
     f \in {g \in [1 .. n -> Key \X DataSetId \X Contents] : g[1][1] = CHOOSE k \in Key : TRUE}}

\* With MaxId = 3, the first leave room for one write, the second for none.
TwoVersions == Filled(2)
UpToThreeVersions == TwoVersions \cup Filled(3)
=============================================================================
