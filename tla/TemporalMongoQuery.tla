-------------------------- MODULE TemporalMongoQuery --------------------------
(***************************************************************************)
(* A query of a temporal data source: TemporalMongoQueryImpl and the         *)
(* iterator of its cursor, beside writers that use the same collection.      *)
(*                                                                         *)
(* The collection holds every version of every record; a query has to give   *)
(* its caller the latest versions only.  The cursor does so in batches.      *)
(* It runs the query of the caller and takes ids and keys from it until it    *)
(* has batch_size different keys, looks up the latest version of these keys   *)
(* with a second query, loads those of them that the batch contains with a    *)
(* third, and hands them out one by one in the order of the batch.  All the   *)
(* while other threads and processes write new versions.                     *)
(*                                                                         *)
(* The projection made by select is a single aggregation instead.            *)
(***************************************************************************)
EXTENDS Naturals, Sequences, FiniteSets, SequencesExt

CONSTANTS
    Key,             \* values of _key
    DataSetId,       \* datasets
    DataType,        \* types of the records stored, other than DeletedRecord
    Derived,         \* those equal to the type of the query, or derived from it
    Value,           \* values of the element the query filters and sorts by
    load_from,       \* the dataset of the query
    LookupList,      \* its lookup list (module TemporalMongoDataSource)
    batch_size,
    None,
    Queries,         \* the queries a caller may make
    Collections,     \* the contents of the collection when it does
    MaxId            \* bound: ids

Id == 1 .. MaxId

\* A delete marker has no element; that sorts as less than every value.
NoValue == 0
Version == [id : Id, key : Key, data_set : DataSetId, type : DataType \cup {None},
            value : Value \cup {NoValue}]
Deleted(r) == r.type = None

\* where: the values accepted, or None without a filter; sorted: whether sort_by
\* was called; cutoff and imports_cutoff: what get_cutoff_time and
\* get_imports_cutoff_time return for load_from.
Query == [where : {None} \cup SUBSET Value, sorted : BOOLEAN,
          cutoff : Id \cup {None}, imports_cutoff : Id \cup {None}]

ASSUME ConstantsAssumption ==
    /\ Derived \subseteq DataType /\ None \notin DataType
    /\ DataSetId \subseteq Nat /\ load_from \in LookupList /\ LookupList \subseteq DataSetId
    /\ Value \subseteq Nat \ {NoValue}
    /\ batch_size \in Nat \ {0}
    /\ MaxId \in Nat /\ None \notin Nat
    /\ Queries \subseteq Query
    /\ Collections \subseteq SUBSET Version
    /\ \A C \in Collections : \A r, q \in C : q.id = r.id => q = r

VARIABLES
    db,              \* the versions in the collection
    query,           \* the query
    pc,              \* what the query does next
    rows,            \* the versions the first query returns
    taken,           \* step_one_enumerator_: how many of them it has returned
    continue_query_,
    batch_ids_list_, \* the versions of the batch not yet passed
    record_ids,      \* local of batch_load
    record_dict_,
    yielded,         \* history: the records given to the caller
    current,         \* history: the versions that were the latest at some time
    touched          \* history: the keys written since the query began

batch == <<continue_query_, batch_ids_list_, record_ids, record_dict_>>
vars == <<db, query, pc, rows, taken, batch, yielded, current, touched>>

Init ==
    /\ db \in Collections
    /\ query \in Queries
    /\ pc = "new"
    /\ rows = <<>> /\ taken = 0
    /\ continue_query_ = TRUE
    /\ batch_ids_list_ = <<>>
    /\ record_ids = {}
    /\ record_dict_ = {}
    /\ yielded = <<>>
    /\ current = {}
    /\ touched = {}

-----------------------------------------------------------------------------
\* The parts of the queries.

\* apply_final_constraints.
FinalConstraints(r) ==
    /\ r.data_set \in LookupList
    /\ query.cutoff # None => r.id < query.cutoff

\* The filters of the caller: a comparison never matches a missing element.
Where(r) == query.where # None => r.value \in query.where

\* Mutant: the newest record of any dataset comes first.
SortsFirstById(r, q) == r.id >= q.id

\* Of two versions of a key, r comes before q.
SortsFirst(r, q) == r.data_set > q.data_set \/ (r.data_set = q.data_set /\ r.id >= q.id)

\* Mutant: the cutoff time of the imports is applied to the dataset itself.
UnfrozenEverywhere(r) ==
    \/ query.imports_cutoff = None
    \/ r.id < query.imports_cutoff

\* The freeze rule of the second query.
Unfrozen(r) ==
    \/ query.imports_cutoff = None
    \/ r.data_set = load_from
    \/ r.id < query.imports_cutoff

\* The first version of each of the keys, in the order of the second query.
LatestOf(keys) ==
    LET found == {r \in db : r.key \in keys /\ FinalConstraints(r) /\ Unfrozen(r)}
    IN {r \in found : \A q \in found : q.key = r.key => SortsFirst(r, q)}

\* What the first query may return: with a sort, in its order; the order of equal
\* elements, and the order without a sort, are up to the server.
InOrder(s) == query.sorted => \A i, j \in 1 .. Len(s) : i < j => s[i].value <= s[j].value
RowOrders(found) == {s \in SetToSeqs(found) : InOrder(s)}

\* The rows still to come.
Rest == SubSeq(rows, taken + 1, Len(rows))

BatchKeys(s, n) == Cardinality({s[i].key : i \in 1 .. n})

\* A batch ends with the version that brings its last key, or with the query.
Full(s) == \E n \in 1 .. Len(s) : BatchKeys(s, n) = batch_size
BatchLength(s) ==
    IF Full(s)
    THEN CHOOSE n \in 1 .. Len(s) : /\ BatchKeys(s, n) = batch_size
                                    /\ \A m \in 1 .. n - 1 : BatchKeys(s, m) < batch_size
    ELSE Len(s)

-----------------------------------------------------------------------------
\* What a query promises: version r answers for its key when it is visible and no
\* visible version of the key is in a later dataset, or later in the same one.
Visible(r) ==
    /\ r.data_set \in LookupList
    /\ query.cutoff # None => r.id < query.cutoff
    /\ query.imports_cutoff # None /\ r.data_set # load_from => r.id < query.imports_cutoff
Hides(q, r) ==
    /\ q.key = r.key /\ Visible(q)
    /\ q.data_set > r.data_set \/ (q.data_set = r.data_set /\ q.id > r.id)
Answer(r) == Visible(r) /\ \A q \in db : ~Hides(q, r)
Answers == {r \in db : Answer(r)}

-----------------------------------------------------------------------------
\* The cursor.

\* The constructor of the iterator executes the first query.
Begin ==
    /\ pc = "new"
    /\ rows' \in RowOrders({r \in db : FinalConstraints(r) /\ Where(r)})
    /\ current' = Answers
    /\ pc' = "batch"
    /\ UNCHANGED <<db, query, taken, batch, yielded, touched>>

\* Mutants: the end of the first query is not noticed; the order of the batch is
\* that of a set of ids.
GoesOn(s) == TRUE
InIdOrder(s) == SortSeq(s, LAMBDA r, q : r.id < q.id)

InRowOrder(s) == s
Continues(s) == Full(s)

\* batch_load up to the second query.  It is not entered when the first query is
\* complete, and ends the iteration when that has no row left.
TakeBatch ==
    /\ pc = "batch"
    /\ IF ~continue_query_
       THEN pc' = "end" /\ UNCHANGED <<taken, continue_query_, batch_ids_list_>>
       ELSE /\ continue_query_' = Continues(Rest)
            /\ batch_ids_list_' = InRowOrder(SubSeq(Rest, 1, BatchLength(Rest)))
            /\ taken' = taken + BatchLength(Rest)
            /\ pc' = IF Rest = <<>> /\ ~Continues(Rest) THEN "end" ELSE "lookup"
    /\ UNCHANGED <<db, query, rows, record_ids, record_dict_, yielded, current, touched>>

\* Mutant: the versions of the batch are not compared with the latest ones.
InBatch(latest, ids) == ids

\* The latest versions that are in the batch.
LatestInBatch(latest, ids) == ids \cap latest

\* The second query and its loop; without a result the next batch is taken.
Lookup ==
    /\ pc = "lookup"
    /\ LET inBatch == ToSet(batch_ids_list_)
           latest == LatestOf({r.key : r \in inBatch})
           ids == {r.id : r \in LatestInBatch(latest, inBatch)} IN
        /\ record_ids' = ids
        /\ pc' = IF ids = {} THEN "batch" ELSE "load"
    /\ UNCHANGED <<db, query, rows, taken, continue_query_, batch_ids_list_, record_dict_,
                   yielded, current, touched>>

\* The third query.
Load ==
    /\ pc = "load"
    /\ record_dict_' = {r \in db : r.id \in record_ids}
    /\ pc' = "walk"
    /\ UNCHANGED <<db, query, rows, taken, continue_query_, batch_ids_list_, record_ids,
                   yielded, current, touched>>

\* get_next_record: the next version of the batch, which is given to the caller
\* when it is in the dictionary, is no delete marker and can be cast.
Walk ==
    /\ pc = "walk"
    /\ batch_ids_list_ # <<>>
    /\ LET r == Head(batch_ids_list_) IN
        IF r \in record_dict_ /\ ~Deleted(r) /\ r.type \in Derived
        THEN yielded' = Append(yielded, r)
        ELSE UNCHANGED yielded
    /\ batch_ids_list_' = Tail(batch_ids_list_)
    /\ UNCHANGED <<db, query, pc, rows, taken, continue_query_, record_ids, record_dict_,
                   current, touched>>

EndBatch ==
    /\ pc = "walk"
    /\ batch_ids_list_ = <<>>
    /\ pc' = "batch"
    /\ UNCHANGED <<db, query, rows, taken, batch, yielded, current, touched>>

-----------------------------------------------------------------------------

\* select: the filters of the caller come before the first version of each key is
\* chosen, the type after it.  The freeze rule is not applied.
Select ==
    /\ pc = "new"
    /\ LET found == {r \in db : FinalConstraints(r) /\ Where(r)}
           first == {r \in found : \A q \in found : q.key = r.key => SortsFirst(r, q)}
       IN yielded' \in RowOrders({r \in first : ~Deleted(r) /\ r.type \in Derived})
    /\ current' = Answers
    /\ pc' = "selected"
    /\ UNCHANGED <<db, query, rows, taken, batch, touched>>

\* Another data source saves a version, or a delete marker.  The first query may
\* still come to it, in any place its order allows.
Write ==
    /\ pc \notin {"new", "end", "selected"}
    /\ \E id \in Id, k \in Key, d \in DataSetId, t \in DataType \cup {None}, v \in Value \cup {NoValue} :
        LET r == [id |-> id, key |-> k, data_set |-> d, type |-> t, value |-> v] IN
        /\ \A q \in db : id > q.id
        /\ (t = None) = (v = NoValue)
        /\ db' = db \cup {r}
        /\ touched' = IF FinalConstraints(r) THEN touched \cup {k} ELSE touched
        /\ \/ UNCHANGED rows
           \/ /\ continue_query_ /\ FinalConstraints(r) /\ Where(r)
              /\ \E i \in taken + 1 .. Len(rows) + 1 :
                    InOrder(InsertAt(rows, i, r)) /\ rows' = InsertAt(rows, i, r)
    /\ UNCHANGED <<query, pc, taken, batch, yielded>>
    /\ current' = current \cup Answers'

Iterate == Begin \/ TakeBatch \/ Lookup \/ Load \/ Walk \/ EndBatch

Next == Iterate \/ Select \/ Write

\* The caller iterates to the end.
Spec == Init /\ [][Next]_vars /\ WF_vars(Iterate)

-----------------------------------------------------------------------------
\* Properties.

\* However the versions of a key are spread over the batches and whatever is
\* written to other keys meanwhile, the cursor finds every record that matches,
\* "the latest record in the latest dataset" (temporal_mongo_query_cursor_impl.hpp:103),
\* unless its own key is written.
UntouchedFound ==
    pc = "end" =>
        \A r \in db : (/\ r.key \notin touched
                       /\ Answer(r) /\ Where(r) /\ ~Deleted(r) /\ r.type \in Derived)
            => r \in ToSet(yielded)

\* The cursor yields no superseded version: every record it gives to the caller
\* was the answer for its key at some time since the query began
\* (temporal_mongo_query_cursor_impl.hpp:143).
NothingStale ==
    pc # "selected" => \A i \in 1 .. Len(yielded) : yielded[i] \in current

\* The cursor gives the caller one record of a key at most, though the versions of
\* a key turn up in several batches, unless the key is written meanwhile.
KeyOnce ==
    pc # "selected" =>
        \A i, j \in 1 .. Len(yielded) :
            (yielded[i].key = yielded[j].key /\ yielded[i].key \notin touched) => i = j

\* "Records are returned in the same order as the original query"
\* (temporal_mongo_query_cursor_impl.hpp:137), across batches.
OrderKept ==
    query.sorted =>
        \A i, j \in 1 .. Len(yielded) : i < j => yielded[i].value <= yielded[j].value

\* The iteration ends (writers add a bounded number of versions).
QueryEnds == pc = "batch" ~> pc = "end"

\* A delete marker "ensures that a record in another dataset does not become
\* visible during lookup in a sequence of datasets"
\* (temporal_mongo_data_source.hpp:95): no query finds a record whose key is
\* answered by a delete marker.
DeleteMarkerHides ==
    pc = "selected" =>
        \A i \in 1 .. Len(yielded) :
            \A q \in db : (Deleted(q) /\ Answer(q)) => q.key # yielded[i].key
=============================================================================
