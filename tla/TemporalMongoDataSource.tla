----------------------- MODULE TemporalMongoDataSource -----------------------
(***************************************************************************)
(* TemporalMongoDataSource: several data source objects, each used by one   *)
(* thread, over one MongoDB database.                                       *)
(*                                                                         *)
(* A record is never changed: saving writes a new version under a new id,   *)
(* deleting writes a delete marker.  A record is stored in a dataset; a     *)
(* dataset is a record itself (type DataSet), stored in another dataset or  *)
(* in the root dataset, and lists the datasets it imports.  Settings of a   *)
(* dataset are in a DataSetDetail record, stored beside the dataset.        *)
(*                                                                         *)
(* Every data source caches what it read about datasets: their ids by name, *)
(* the dataset that holds each of them, their details and their expanded    *)
(* lists of imports.  Nothing ever leaves these caches.                     *)
(*                                                                         *)
(* Each access to the database is a step, and the steps of the data sources *)
(* interleave.  get_data_set_lookup_list, build_data_set_lookup_list and    *)
(* get_data_set_detail_or_empty call each other recursively; the frames of  *)
(* these calls are the sequence stack[s], innermost first, below which is   *)
(* the public method call[s].                                               *)
(***************************************************************************)
EXTENDS Naturals, Sequences, FiniteSets

CONSTANTS
    Source,          \* data source objects
    ReadOnlySource,  \* those whose read_only flag is set
    cutoff_time,     \* the cutoff_time each is configured with, or None
    DataKey,         \* keys of ordinary records
    DataType,        \* types of ordinary records, all of one collection
    Assignable,      \* pairs <<requested type, stored type>> that may be cast
    Name,            \* values of data_set_name
    None,            \* null
    Error,           \* an exception left the method
    Initial,         \* the records in the database when the data sources open it
    \* Bounds of the model.
    MaxId,           \* ids
    MaxSkip,         \* smaller free ids that a generated id may leave to other sources
    MaxBatch,        \* records per save_many
    Imports,         \* sets of datasets imported
    Targets,         \* datasets written to and loaded from
    DeletedKeys,     \* keys of the records deleted
    Details,         \* settings saved in detail records
    Ops,             \* public methods called
    Faults           \* failures: "write", "read", "crash"

Root == 0
Id == 1 .. MaxId
DataSetId == 0 .. MaxId
NullableId == Nat \cup {None}

Detail == [read_only : BOOLEAN, cutoff_time : NullableId, imports_cutoff_time : NullableId]

\* A missing detail record, or one with no element set: the two act alike.
NoDetail == [read_only |-> FALSE, cutoff_time |-> None, imports_cutoff_time |-> None]

\* The primary key of a record: its collection and _key.
DataSetKeyOf(n) == <<"DataSet", n>>
DataSetDetailKeyOf(d) == <<"DataSetDetail", d>>
DataKeyOf(k) == <<"Data", k>>
Key == ({"DataSet"} \X Name) \cup ({"DataSetDetail"} \X DataSetId) \cup ({"Data"} \X DataKey)

Record == [id : DataSetId, data_set : DataSetId, key : Key, type : DataType \cup {None},
           deleted : BOOLEAN, imports : SUBSET DataSetId, detail : Detail]

Method == {"none", "save", "detail", "delete", "load", "load_id", "create", "get"}
Phase == {"idle", "check", "assign", "insert", "find", "find_id", "found_id",
          "find_detail", "build", "done"}

\* A public method in progress: its key and dataset, the records it writes, how
\* many of them the current loop has passed, and the record it has found.  When
\* done, the outcome is in result (a record, null or an exception) and, for the
\* methods that return the id of a dataset, in found.
Call == [op : Method, phase : Phase, key : Key \cup {None}, ds : DataSetId,
         recs : Seq(Record), count : Nat, result : Record \cup {None, Error}, found : DataSetId]

NoCall == [op |-> "none", phase |-> "idle", key |-> None, ds |-> Root,
           recs |-> <<>>, count |-> 0, result |-> None, found |-> Root]

\* A frame of the recursion.  "detail": get_data_set_detail_or_empty(of);
\* "lookup": get_data_set_lookup_list(of); "loaded": the same, its load_or_null
\* has read rec; "build": build_data_set_lookup_list(rec), result so far in acc.
Frame == [step : {"detail", "lookup"}, of : DataSetId, rec : {None}, acc : {{}}]
             \cup [step : {"loaded", "build"}, of : DataSetId, rec : Record, acc : SUBSET DataSetId]

DetailFrame(n) == [step |-> "detail", of |-> n, rec |-> None, acc |-> {}]
LookupFrame(n) == [step |-> "lookup", of |-> n, rec |-> None, acc |-> {}]
LoadedFrame(r) == [step |-> "loaded", of |-> r.id, rec |-> r, acc |-> {}]
BuildFrame(r, acc) == [step |-> "build", of |-> r.id, rec |-> r, acc |-> acc]

VARIABLES
    db,       \* the records in the database
    issued,   \* every id generated so far
    prev,     \* prev_object_id_ of each data source
    names,    \* data_set_dict_
    owners,   \* data_set_owners_dict_
    details,  \* data_set_detail_dict_
    parents,  \* data_set_parent_dict_
    stack,    \* frames of the recursive methods
    call,     \* the public method in progress
    mine      \* history: ids of the records each data source knows to be saved

caches == <<names, owners, details, parents>>
vars == <<db, issued, prev, names, owners, details, parents, stack, call, mine>>

ASSUME ConstantsAssumption ==
    /\ ReadOnlySource \subseteq Source
    /\ cutoff_time \in [Source -> NullableId]
    /\ Assignable \subseteq DataType \X DataType
    /\ None \notin Nat /\ None # Error
    /\ None \notin DataType /\ None \notin Key /\ \A S \in SUBSET DataSetId : None # S
    /\ None \notin Detail /\ None \notin Record /\ Error \notin Record
    /\ MaxId \in Nat /\ MaxSkip \in Nat /\ MaxBatch \in Nat
    /\ Imports \subseteq SUBSET DataSetId /\ Targets \subseteq DataSetId
    /\ DeletedKeys \subseteq Key
    /\ Details \subseteq Detail
    /\ Initial \subseteq Record
    /\ \A r \in Initial : /\ r.id > r.data_set
                          /\ \A i \in r.imports : r.id > i
                          /\ \A q \in Initial : r.id = q.id => r = q

TypeOK ==
    /\ db \subseteq Record
    /\ issued \subseteq Id
    /\ prev \in [Source -> DataSetId]
    /\ names \in [Source -> [Name -> DataSetId \cup {None}]]
    /\ owners \in [Source -> [DataSetId -> DataSetId \cup {None}]]
    /\ details \in [Source -> [DataSetId -> Detail \cup {None}]]
    /\ parents \in [Source -> [DataSetId -> (SUBSET DataSetId) \cup {None}]]
    /\ stack \in [Source -> Seq(Frame)]
    /\ call \in [Source -> Call]
    /\ mine \in [Source -> SUBSET DataSetId]

EmptyCaches(s) ==
    /\ names' = [names EXCEPT ![s] = [n \in Name |-> None]]
    /\ owners' = [owners EXCEPT ![s] = [d \in DataSetId |-> None]]
    /\ details' = [details EXCEPT ![s] = [d \in DataSetId |-> None]]
    /\ parents' = [parents EXCEPT ![s] = [d \in DataSetId |-> None]]

Init ==
    /\ db = Initial
    /\ issued = {r.id : r \in Initial}
    /\ prev = [s \in Source |-> Root]
    /\ names = [s \in Source |-> [n \in Name |-> None]]
    /\ owners = [s \in Source |-> [d \in DataSetId |-> None]]
    /\ details = [s \in Source |-> [d \in DataSetId |-> None]]
    /\ parents = [s \in Source |-> [d \in DataSetId |-> None]]
    /\ stack = [s \in Source |-> <<>>]
    /\ call = [s \in Source |-> NoCall]
    /\ mine = [s \in Source |-> {}]

-----------------------------------------------------------------------------
\* What the methods compute from the database and the caches.

TemporalIdMin(a, b) ==
    IF a = None THEN b ELSE IF b = None THEN a ELSE IF a < b THEN a ELSE b

\* Mutant: the cutoff time itself is let through.
BeforeCutoffInclusive(id, cutoff) == cutoff # None => id <= cutoff
BeforeCutoff(id, cutoff) == cutoff # None => id < cutoff

\* The caches answer get_data_set_detail_or_empty(n), get_data_set_lookup_list(n).
HasDetail(s, n) == n # Root => details[s][n] # None
HasLookupList(s, n) == n # Root => parents[s][n] # None

DataSetDetailOf(s, n) == IF n = Root THEN NoDetail ELSE details[s][n]
LookupList(s, n) == IF n = Root THEN {Root} ELSE parents[s][n]

CutoffTime(s, n) == TemporalIdMin(cutoff_time[s], DataSetDetailOf(s, n).cutoff_time)

\* Mutant: only the settings of the data source are looked at.
WritableAnyDataSet(s, n) == s \notin ReadOnlySource /\ cutoff_time[s] = None

\* The records of a dataset may be written.
Writable(s, n) ==
    /\ s \notin ReadOnlySource
    /\ ~DataSetDetailOf(s, n).read_only
    /\ cutoff_time[s] = None
    /\ DataSetDetailOf(s, n).cutoff_time = None

\* The versions of a key that load_or_null(key, from) considers.
FinalConstraints(s, key, from) ==
    {r \in db : /\ r.key = key
                /\ r.data_set \in LookupList(s, from)
                /\ BeforeCutoff(r.id, CutoffTime(s, from))}

\* Mutant: the oldest version of the latest dataset comes first.
SortsFirstAscending(r, q) ==
    r.data_set > q.data_set \/ (r.data_set = q.data_set /\ r.id <= q.id)

\* Sorted by dataset, then by id, both descending: r comes before q.
SortsFirst(r, q) ==
    r.data_set > q.data_set \/ (r.data_set = q.data_set /\ r.id >= q.id)

LoadByKey(s, key, from) ==
    LET found == FinalConstraints(s, key, from)
        first == {r \in found : ~r.deleted /\ \A q \in found : SortsFirst(r, q)}
    IN IF first = {} THEN None ELSE CHOOSE r \in first : TRUE

\* The records of a collection that have an id (one at most).
LoadById(id, collection) ==
    {r \in db : r.id = id /\ r.key[1] = collection /\ ~r.deleted}

DataSetRecords == {r \in db : r.key[1] = "DataSet" /\ ~r.deleted}

\* The datasets a caller can name, and those it writes to and loads from.
KnownDataSets == {Root} \cup {r.id : r \in DataSetRecords}
KnownTargets == KnownDataSets \cap Targets

\* A record whose id and dataset are not assigned yet.
NewRecord(key, type) ==
    [id |-> Root, data_set |-> Root, key |-> key, type |-> type,
     deleted |-> FALSE, imports |-> {}, detail |-> NoDetail]

-----------------------------------------------------------------------------
\* Control.

Push(s, f) == stack' = [stack EXCEPT ![s] = <<f>> \o @]
Pop(s) == stack' = [stack EXCEPT ![s] = Tail(@)]
Become(s, f) == stack' = [stack EXCEPT ![s] = <<f>> \o Tail(@)]

At(s, step) == stack[s] # <<>> /\ Head(stack[s]).step = step
In(s, phase) == stack[s] = <<>> /\ call[s].phase = phase

Done(s, result) ==
    call' = [call EXCEPT ![s].phase = "done", ![s].result = result,
                         ![s].recs = <<>>, ![s].count = 0]

\* An exception passes through every frame to the caller of the public method.
Throw(s) == Done(s, Error) /\ stack' = [stack EXCEPT ![s] = <<>>]

Proceed(s, phase) == call' = [call EXCEPT ![s].phase = phase]

\* The ids create_ordered_object_id may return: later than the previous one of
\* this data source and never returned before (module OrderedIds).  The clocks
\* of the data sources need not agree, so the id of one may fall below those
\* that others have generated already.
FreeIds(s) == {id \in Id \ issued : id > prev[s]}
NewIds(s) == {id \in FreeIds(s) : Cardinality({i \in FreeIds(s) : i < id}) <= MaxSkip}

\* Bound: the ids a call may need are not used up.
IdsLeft(s, n) == Cardinality(FreeIds(s)) >= n

Begin(s, op, phase, key, ds, recs) ==
    /\ op \in Ops
    /\ call[s].phase = "idle"
    /\ recs # <<>> => IdsLeft(s, Len(recs))
    /\ call' = [call EXCEPT ![s] = [NoCall EXCEPT !.op = op, !.phase = phase, !.key = key,
                                                   !.ds = ds, !.recs = recs]]
    /\ UNCHANGED <<db, issued, prev, caches, stack, mine>>

-----------------------------------------------------------------------------
\* The public methods.

\* save_many of ordinary records.
SaveMany(s) ==
    \E ds \in KnownTargets, n \in 1 .. MaxBatch :
        \E recs \in [1 .. n -> {NewRecord(DataKeyOf(k), t) : k \in DataKey, t \in DataType}] :
            Begin(s, "save", "check", None, ds, recs)

\* save_one of a detail record, into the dataset that holds the dataset.
SaveDetail(s) ==
    \E r \in DataSetRecords, d \in Details :
        Begin(s, "detail", "check", None, r.data_set,
              <<[NewRecord(DataSetDetailKeyOf(r.id), None) EXCEPT !.detail = d]>>)

\* delete_record.
DeleteRecord(s) ==
    \E ds \in KnownTargets, key \in DeletedKeys :
        Begin(s, "delete", "check", key, ds, <<[NewRecord(key, None) EXCEPT !.deleted = TRUE]>>)

\* load_or_null of a key.
LoadOrNull(s) ==
    \E ds \in KnownTargets, k \in DataKey : Begin(s, "load", "find", DataKeyOf(k), ds, <<>>)

\* create_data_set, that is save_data_set of a new DataSet.
CreateDataSet(s) ==
    \E ds \in KnownTargets, n \in Name, imports \in Imports :
        /\ imports \subseteq KnownDataSets
        /\ Begin(s, "create", "check", DataSetKeyOf(n), ds,
                 <<[NewRecord(DataSetKeyOf(n), None) EXCEPT !.imports = imports]>>)

\* get_data_set_or_empty: the dataset has to be found, or its name is cached.
GetDataSet(s) ==
    \E ds \in KnownTargets, n \in Name :
        /\ names[s][n] = None
        /\ Begin(s, "get", "find", DataSetKeyOf(n), ds, <<>>)

GetCachedDataSet(s) ==
    /\ "get" \in Ops
    /\ call[s].phase = "idle"
    /\ \E n \in Name :
        /\ names[s][n] # None
        /\ call' = [call EXCEPT ![s] = [NoCall EXCEPT !.op = "get", !.phase = "done",
                                        !.key = DataSetKeyOf(n), !.found = names[s][n]]]
    /\ UNCHANGED <<db, issued, prev, caches, stack, mine>>

\* load_or_null of an id.  The record is read first, the cutoff time of its
\* dataset is looked up afterwards.
LoadOrNullById(s) ==
    \E id \in issued, t \in DataType :
        LET inTime == BeforeCutoff(id, cutoff_time[s])
            found == LoadById(id, "Data") IN
        /\ "load_id" \in Ops
        /\ call[s].phase = "idle"
        /\ \/ /\ ~(inTime /\ found # {})
              /\ call' = [call EXCEPT ![s] = [NoCall EXCEPT !.op = "load_id", !.phase = "done"]]
           \/ /\ inTime
              /\ \E r \in found :
                    call' = [call EXCEPT ![s] =
                        IF <<t, r.type>> \in Assignable
                        THEN [NoCall EXCEPT !.op = "load_id", !.phase = "found_id", !.result = r]
                        ELSE [NoCall EXCEPT !.op = "load_id", !.phase = "done", !.result = Error]]
        /\ UNCHANGED <<db, issued, prev, caches, stack, mine>>

\* The method returns, or its exception is caught.
Return(s) ==
    /\ call[s].phase = "done"
    /\ call' = [call EXCEPT ![s] = NoCall]
    /\ UNCHANGED <<db, issued, prev, caches, stack, mine>>

-----------------------------------------------------------------------------
\* The recursive methods on datasets.

\* Mutant: the detail record is looked for in the dataset itself.
OwnerItself(s, n) == n

\* operator[] of data_set_owners_dict_: the root dataset when n has no entry.
OwnerOf(s, n) == IF owners[s][n] = None THEN Root ELSE owners[s][n]

\* Mutant: the record is cached as it is.
SettingsUnchecked(found) == found

Settings(found) == IF found = None THEN NoDetail ELSE found.detail

\* get_data_set_detail_or_empty(n): load the detail from the dataset that holds
\* n, which operator[] of the dictionary stores when it had no entry.
ResolveDetail(s) ==
    /\ At(s, "detail")
    /\ LET n == Head(stack[s]).of
           owner == OwnerOf(s, n)
           found == LoadByKey(s, DataSetDetailKeyOf(n), owner) IN
        /\ owners' = [owners EXCEPT ![s][n] = owner]
        /\ \/ /\ ~HasLookupList(s, owner)
              /\ Push(s, LookupFrame(owner))
              /\ UNCHANGED details
           \/ /\ HasLookupList(s, owner) /\ ~HasDetail(s, owner)
              /\ Push(s, DetailFrame(owner))
              /\ UNCHANGED details
           \/ /\ HasLookupList(s, owner) /\ HasDetail(s, owner)
              /\ details' = [details EXCEPT ![s][n] = Settings(found)]
              /\ Pop(s)
    /\ UNCHANGED <<db, issued, prev, names, parents, call, mine>>

\* get_data_set_lookup_list(n), not cached: load_or_null reads the dataset by id.
ResolveLookup(s) ==
    /\ At(s, "lookup")
    /\ LET n == Head(stack[s]).of
           found == LoadById(n, "DataSet") IN
        \/ /\ ~(BeforeCutoff(n, cutoff_time[s]) /\ found # {})
           /\ Throw(s)
        \/ /\ BeforeCutoff(n, cutoff_time[s])
           /\ \E r \in found : Become(s, LoadedFrame(r))
           /\ UNCHANGED call
    /\ UNCHANGED <<db, issued, prev, caches, mine>>

\* The end of load_or_null and the check that the root dataset holds n.
ResolveLoaded(s) ==
    /\ At(s, "loaded")
    /\ LET r == Head(stack[s]).rec IN
        \/ /\ ~HasDetail(s, r.data_set)
           /\ Push(s, DetailFrame(r.data_set))
           /\ UNCHANGED call
        \/ /\ HasDetail(s, r.data_set)
           /\ BeforeCutoff(r.id, CutoffTime(s, r.data_set)) /\ r.data_set = Root
           /\ Become(s, BuildFrame(r, {}))
           /\ UNCHANGED call
        \/ /\ HasDetail(s, r.data_set)
           /\ ~(BeforeCutoff(r.id, CutoffTime(s, r.data_set)) /\ r.data_set = Root)
           /\ Throw(s)
    /\ UNCHANGED <<db, issued, prev, caches, mine>>

\* build_data_set_lookup_list(r), up to "add self to the result".
BuildSelf(s) ==
    /\ At(s, "build")
    /\ Head(stack[s]).acc = {}
    /\ LET r == Head(stack[s]).rec IN
        \/ /\ ~HasDetail(s, r.data_set)
           /\ Push(s, DetailFrame(r.data_set))
           /\ UNCHANGED parents
        \/ /\ HasDetail(s, r.data_set)
           /\ BeforeCutoff(r.id, CutoffTime(s, r.data_set))
           /\ Become(s, BuildFrame(r, {r.id}))
           /\ UNCHANGED parents
        \/ /\ HasDetail(s, r.data_set)
           /\ ~BeforeCutoff(r.id, CutoffTime(s, r.data_set))
           /\ parents' = [parents EXCEPT ![s][r.id] = {}]
           /\ Pop(s)
    /\ UNCHANGED <<db, issued, prev, names, owners, details, call, mine>>

\* Mutant: imports are walked again after they were added.
ImportsLeftAlways(r, acc) == r.imports
ImportsLeft(r, acc) == r.imports \ acc

\* Mutant: the imports of an import are not added.
WithImportOnly(s, acc, i) == acc \cup {i}
WithImport(s, acc, i) == acc \cup {i} \cup LookupList(s, i)

\* Its loop over the imports.  An import that is in the result already is passed
\* over; a dataset that imports itself was refused by DataSetImpl::init.
BuildImports(s) ==
    /\ At(s, "build")
    /\ Head(stack[s]).acc # {}
    /\ LET r == Head(stack[s]).rec
           acc == Head(stack[s]).acc
           left == ImportsLeft(r, acc) IN
        \/ /\ left = {}
           /\ parents' = [parents EXCEPT ![s][r.id] = acc]
           /\ Pop(s)
        \/ /\ \E i \in left :
                IF HasLookupList(s, i)
                THEN Become(s, BuildFrame(r, WithImport(s, acc, i)))
                ELSE Push(s, LookupFrame(i))
           /\ UNCHANGED parents
    /\ UNCHANGED <<db, issued, prev, names, owners, details, call, mine>>

\* The public method needs a detail or a lookup list that is not cached.
Demand(s) ==
    /\ stack[s] = <<>>
    /\ \/ /\ call[s].phase = "check" /\ s \notin ReadOnlySource
          /\ ~HasDetail(s, call[s].ds)
          /\ Push(s, DetailFrame(call[s].ds))
       \/ /\ call[s].phase = "find"
          /\ ~HasLookupList(s, call[s].ds)
          /\ Push(s, LookupFrame(call[s].ds))
       \/ /\ call[s].phase = "find"
          /\ HasLookupList(s, call[s].ds) /\ ~HasDetail(s, call[s].ds)
          /\ Push(s, DetailFrame(call[s].ds))
       \/ /\ call[s].phase = "found_id"
          /\ ~HasDetail(s, call[s].result.data_set)
          /\ Push(s, DetailFrame(call[s].result.data_set))
    /\ UNCHANGED <<db, issued, prev, caches, call, mine>>

-----------------------------------------------------------------------------
\* save_many, delete_record.

\* check_not_read_only.
CheckNotReadOnly(s) ==
    /\ In(s, "check")
    /\ s \notin ReadOnlySource => HasDetail(s, call[s].ds)
    /\ IF Writable(s, call[s].ds)
       THEN Proceed(s, "assign") /\ UNCHANGED stack
       ELSE Throw(s)
    /\ UNCHANGED <<db, issued, prev, caches, mine>>

\* Mutant: the id is not compared with the dataset the record is saved to.
MayHaveIdAnywhere(rec, id, ds) == \A i \in rec.imports : id > i

\* The id of a record must be later than its dataset, and later than every import
\* of a DataSet (DataSetImpl::init).
MayHaveId(rec, id, ds) == id > ds /\ \A i \in rec.imports : id > i

\* What the loop of save_many does to the next record.
Assign(s) ==
    /\ In(s, "assign")
    /\ LET c == call[s]
           next == c.count + 1
           Assigned(id) == [c.recs EXCEPT ![next].id = id, ![next].data_set = c.ds] IN
        \E id \in NewIds(s) :
            /\ prev' = [prev EXCEPT ![s] = id]
            /\ issued' = issued \cup {id}
            /\ IF MayHaveId(c.recs[next], id, c.ds)
               THEN call' = [call EXCEPT ![s].recs = Assigned(id),
                                ![s].phase = IF next = Len(c.recs) THEN "insert" ELSE @,
                                ![s].count = IF next = Len(c.recs) THEN 0 ELSE next]
               ELSE Done(s, Error)
    /\ UNCHANGED <<db, caches, stack, mine>>

\* Mutant: a new version takes the place of the old one.
Replacing(rec) == {r \in db : ~(r.key = rec.key /\ r.data_set = rec.data_set)} \cup {rec}
Adding(rec) == db \cup {rec}

\* The server applies the next insert of the ordered bulk write.
Insert(s) ==
    /\ In(s, "insert")
    /\ call[s].count < Len(call[s].recs)
    /\ db' = Adding(call[s].recs[call[s].count + 1])
    /\ call' = [call EXCEPT ![s].count = @ + 1]
    /\ UNCHANGED <<issued, prev, caches, stack, mine>>

\* Mutant: the root dataset is taken for the holder.
CacheDataSetInRoot(s, r) ==
    /\ names' = [names EXCEPT ![s][r.key[2]] = r.id]
    /\ owners' = [owners EXCEPT ![s][r.id] = Root]
    /\ call' = [call EXCEPT ![s].phase = "build", ![s].found = r.id, ![s].result = None,
                            ![s].recs = <<>>, ![s].count = 0]
    /\ IF parents[s][r.id] = None THEN Push(s, BuildFrame(r, {})) ELSE UNCHANGED stack
    /\ UNCHANGED <<details, parents>>

\* The dataset is known: its name and holder are cached, its lookup list is built.
CacheDataSet(s, r) ==
    /\ names' = [names EXCEPT ![s][r.key[2]] = r.id]
    /\ owners' = [owners EXCEPT ![s][r.id] = r.data_set]
    /\ call' = [call EXCEPT ![s].phase = "build", ![s].found = r.id, ![s].result = None,
                            ![s].recs = <<>>, ![s].count = 0]
    /\ IF parents[s][r.id] = None THEN Push(s, BuildFrame(r, {})) ELSE UNCHANGED stack
    /\ UNCHANGED <<details, parents>>

\* The bulk write is acknowledged.
Saved(s) ==
    /\ In(s, "insert")
    /\ call[s].count = Len(call[s].recs)
    /\ mine' = [mine EXCEPT ![s] = @ \cup {call[s].recs[i].id : i \in 1 .. Len(call[s].recs)}]
    /\ \/ call[s].op \in {"save", "detail", "delete"} /\ Done(s, None) /\ UNCHANGED <<caches, stack>>
       \/ call[s].op = "create" /\ CacheDataSet(s, call[s].recs[1])
       \/ call[s].op = "get" /\ CacheDataSet(s, call[s].result)
    /\ UNCHANGED <<db, issued, prev>>

-----------------------------------------------------------------------------
\* load_or_null, get_data_set_or_empty.

Find(s) ==
    /\ In(s, "find")
    /\ HasLookupList(s, call[s].ds) /\ HasDetail(s, call[s].ds)
    /\ LET found == LoadByKey(s, call[s].key, call[s].ds) IN
        IF call[s].op = "get" /\ found # None
        THEN call' = [call EXCEPT ![s].phase = "find_detail", ![s].result = found]
        ELSE Done(s, found)
    /\ UNCHANGED <<db, issued, prev, caches, stack, mine>>

\* get_data_set_or_empty looks for the detail record, and saves one when there is
\* none: its data_set_id is left empty.
FindDetail(s) ==
    /\ In(s, "find_detail")
    /\ LET c == call[s] IN
        IF LoadByKey(s, DataSetDetailKeyOf(c.result.id), c.ds) # None
        THEN CacheDataSet(s, c.result)
        ELSE /\ call' = [call EXCEPT ![s].phase = "check",
                            ![s].recs = <<NewRecord(DataSetDetailKeyOf(Root), None)>>]
             /\ UNCHANGED <<caches, stack>>
    /\ UNCHANGED <<db, issued, prev, mine>>

\* The lookup list is cached: save_data_set or get_data_set_or_empty ends.
Built(s) ==
    /\ In(s, "build")
    /\ Proceed(s, "done")
    /\ UNCHANGED <<db, issued, prev, caches, stack, mine>>

\* load_or_null of an id, the full check of the cutoff time.
FoundId(s) ==
    /\ In(s, "found_id")
    /\ LET r == call[s].result IN
        /\ HasDetail(s, r.data_set)
        /\ Done(s, IF BeforeCutoff(r.id, CutoffTime(s, r.data_set)) THEN r ELSE None)
    /\ UNCHANGED <<db, issued, prev, caches, stack, mine>>

-----------------------------------------------------------------------------
\* Failures.

\* The bulk write reports an error, after any prefix of it was applied.
WriteFails(s) ==
    /\ "write" \in Faults
    /\ In(s, "insert")
    /\ Throw(s)
    /\ UNCHANGED <<db, issued, prev, caches, mine>>

\* A query throws.
ReadFails(s) ==
    /\ "read" \in Faults
    /\ At(s, "detail") \/ At(s, "lookup") \/ In(s, "find") \/ In(s, "find_detail")
    /\ Throw(s)
    /\ UNCHANGED <<db, issued, prev, caches, mine>>

\* The process ends and another one opens the database.
Restart(s) ==
    /\ "crash" \in Faults
    /\ prev' = [prev EXCEPT ![s] = Root]
    /\ EmptyCaches(s)
    /\ stack' = [stack EXCEPT ![s] = <<>>]
    /\ call' = [call EXCEPT ![s] = NoCall]
    /\ mine' = [mine EXCEPT ![s] = {}]
    /\ UNCHANGED <<db, issued>>

-----------------------------------------------------------------------------

\* A caller starts a method.
Request(s) ==
    \/ SaveMany(s) \/ SaveDetail(s) \/ DeleteRecord(s) \/ LoadOrNull(s) \/ LoadOrNullById(s)
    \/ CreateDataSet(s) \/ GetDataSet(s) \/ GetCachedDataSet(s)

\* The method advances.
Step(s) ==
    \/ ResolveDetail(s) \/ ResolveLookup(s) \/ ResolveLoaded(s) \/ BuildSelf(s) \/ BuildImports(s)
    \/ Demand(s) \/ CheckNotReadOnly(s) \/ Assign(s) \/ Insert(s) \/ Saved(s)
    \/ Find(s) \/ FindDetail(s) \/ Built(s) \/ FoundId(s) \/ Return(s)

Fault(s) == WriteFails(s) \/ ReadFails(s) \/ Restart(s)

Next == \E s \in Source : Request(s) \/ Step(s) \/ Fault(s)

\* A thread inside a method keeps running.
Fairness == \A s \in Source : WF_vars(Step(s))

Spec == Init /\ [][Next]_vars /\ Fairness
-----------------------------------------------------------------------------
\* Properties.

\* "TemporalId of the record must be strictly later than TemporalId of the
\* dataset where it is stored" (temporal_mongo_data_source.cpp:129) and later
\* than its imports (data_set_data.cpp:33), whatever the clocks of the data
\* sources do and whichever calls fail; an id names one record.
StoreOrdered ==
    \A r \in db :
        /\ r.id > r.data_set
        /\ \A i \in r.imports : r.id > i
        /\ \A q \in db : q.id = r.id => q = r

\* Data source s follows the imports of dataset r: it has read the settings of the
\* dataset that holds r, and no cutoff time hides r from it.
Follows(s, r) == HasDetail(s, r.data_set) /\ BeforeCutoff(r.id, CutoffTime(s, r.data_set))

\* With each dataset in S that s follows, its imports are in S.
ImportsWithin(s, S) ==
    \A r \in DataSetRecords : r.id \in S /\ Follows(s, r) => r.imports \subseteq S

\* get_data_set_lookup_list returns "imports of imports to unlimited depth with
\* cyclic references and duplicates removed" (temporal_mongo_data_source.hpp:128):
\* every list that is cached, in whatever order the lists were built and
\* whichever calls failed on the way, is the least set that has the dataset and
\* the imports of the datasets in it; it is empty when a cutoff time hides the
\* dataset itself.
LookupListIsClosure ==
    \A s \in Source, d \in DataSetId :
        parents[s][d] # None =>
            \E r \in DataSetRecords :
                LET closed == {S \in SUBSET DataSetId : d \in S /\ ImportsWithin(s, S)} IN
                /\ r.id = d
                /\ IF Follows(s, r)
                   THEN /\ parents[s][d] \in closed
                        /\ \A S \in closed : parents[s][d] \subseteq S
                   ELSE parents[s][d] = {}

\* A name that is cached is the name of a dataset that is stored, and the
\* dataset that holds it is cached with it: a save that failed leaves no trace.
NamesConsistent ==
    \A s \in Source, n \in Name :
        names[s][n] # None =>
            \E r \in DataSetRecords :
                /\ r.id = names[s][n] /\ r.key = DataSetKeyOf(n)
                /\ owners[s][r.id] = r.data_set

\* The mutual recursion of get_data_set_detail_or_empty, get_data_set_lookup_list
\* and build_data_set_lookup_list never comes back to a call that has not
\* returned, which would not end.
NoReentry ==
    \A s \in Source : \A i, j \in 1 .. Len(stack[s]) :
        /\ i < j
        /\ stack[s][i].of = stack[s][j].of
        => (stack[s][i].step = "detail") # (stack[s][j].step = "detail")

\* Every method returns or throws (unless the ids of the model run out).
MethodsReturn ==
    \A s \in Source :
        call[s].phase # "idle" ~> (call[s].phase = "idle" \/ FreeIds(s) = {})

\* What data source s has just loaded by key is no older than what it last saved
\* under that key.
ReadsOwnWrites(s) ==
    LET c == call[s]
        Here == {r \in db : r.key = c.key /\ r.data_set = c.ds}
        Own == {r \in Here : r.id \in mine[s]} IN
    (/\ c.op = "load" /\ c.phase = "done" /\ c.result # Error
     /\ CutoffTime(s, c.ds) = None
     /\ \A d \in DataSetRecords : d.id = c.ds => Follows(s, d))
        => \A r \in Own :
            IF c.result = None
            THEN \E q \in Here : q.deleted /\ q.id >= r.id
            ELSE /\ c.result.data_set = c.ds
                 /\ c.result.id >= r.id
                 /\ r.deleted => c.result.id > r.id

\* A data source reads its own writes: load_or_null of a key from a dataset
\* returns the version of the key this data source last saved there and was told
\* so, or a later one of that dataset; null only for a delete marker.  (No cutoff
\* time is set for the dataset, and that of the dataset that holds it does not
\* hide it: a dataset that is hidden can be written and not be read.)
ReadYourWrites == \A s \in Source : ReadsOwnWrites(s)

\* No data source that may write can still store a record whose id is less than c.
WritersPast(c) ==
    \A s \in {t \in Source \ ReadOnlySource : cutoff_time[t] = None} :
        /\ prev[s] >= c
        /\ \A i \in 1 .. Len(call[s].recs) : call[s].recs[i].id # Root => call[s].recs[i].id >= c

\* The records of key that s can load from d are the same after the step.
ViewStays(s, d, key) ==
    (/\ cutoff_time[s] # None
     /\ WritersPast(cutoff_time[s])
     /\ HasLookupList(s, d) /\ HasDetail(s, d)
     /\ HasLookupList(s, d)' /\ HasDetail(s, d)')
        => LoadByKey(s, key, d)' = LoadByKey(s, key, d)

\* "Historical view of the data" (temporal_mongo_data_source.cpp:497): when all
\* writers generate ids past the cutoff time of a data source, what it can load
\* does not change, whatever they save and delete.
HistoricalViewFrozen ==
    [][\A s \in Source, d \in DataSetId, k \in DataKey : ViewStays(s, d, DataKeyOf(k))]_vars

\* A data source with a cutoff time gives its caller nothing that is not before
\* it (temporal_mongo_data_source.hpp:226), by key, by id or by name.
NothingPastCutoff ==
    \A s \in {t \in Source : cutoff_time[t] # None} :
        /\ call[s].phase = "done" /\ call[s].result \notin {None, Error}
              => call[s].result.id < cutoff_time[s]
        /\ \A n \in Name : names[s][n] # None => names[s][n] < cutoff_time[s]

\* "If specified, write operations to the referenced dataset will result in an
\* error" (data_set_detail_data.hpp:52): a dataset holds no record later than the
\* detail record that made it read-only, unless a detail record between the two
\* replaced that one.
ReadOnlyHonoured ==
    \A q \in db : \A r \in db :
        (q.key = DataSetDetailKeyOf(r.data_set) /\ q.detail.read_only /\ r.id > q.id)
            => \E p \in db : p.key = q.key /\ q.id < p.id /\ p.id < r.id

\* The element data_set_id of a detail record is "TemporalId of the referenced
\* dataset" (data_set_detail_data.hpp:49).
DetailsReferToDataSets ==
    \A r \in db : r.key[1] = "DataSetDetail" => \E q \in DataSetRecords : r.key = DataSetDetailKeyOf(q.id)

\* "Methods that preserve history" (mongo_data_source.hpp:102): saving and
\* deleting, by any number of data sources, with failures and restarts, only add
\* versions to the history of the database.
History == INSTANCE RecordHistory WITH Version <- Record, Given <- Initial, history <- db
HistoryIsKept == History!Spec

\* "Imported records (records loaded through the Imports list) where TemporalId is
\* greater than or equal to CutoffTime will be ignored by load methods and
\* queries" (data_set_detail_data.hpp:68).
ImportsCutoffHonoured ==
    \A s \in Source :
        LET c == call[s] IN
        (c.op = "load" /\ c.phase = "done" /\ c.result \notin {None, Error} /\ c.result.data_set # c.ds)
            => BeforeCutoff(c.result.id, DataSetDetailOf(s, c.ds).imports_cutoff_time)
=============================================================================
