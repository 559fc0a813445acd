----------------------------- MODULE ContextBase ----------------------------
(* ContextBase and the part of DataSource that all data sources share: what a *)
(* program does with records, through contexts that have a data source and a  *)
(* dataset, while a data source itself saves datasets through the context it  *)
(* was initialised with.  A call is one step; when one throws, what it has    *)
(* changed until then is said at its action.                                  *)
EXTENDS Integers, Sequences, FiniteSets, SequencesExt

CONSTANTS
    Context,
    DataStore,          \* the data sources, each with a database of its own
    HomeOf,             \* the context that each was initialised with
    RecordObject,       \* the program's record objects
    RecordKeys,         \* keys of ordinary records
    DataSetName,
    GivenSet,           \* bound: the datasets that a call names, besides that of its context
    MaxContextCalls     \* bound: calls of a program

ASSUME ContextAssumption == HomeOf \in [DataStore -> Context] /\ GivenSet \subseteq Nat

VARIABLES
    data_source,    \* of each context; does not change
    data_set,       \* of each context, its other property
    stored,     \* the versions in the database of each data source, in the order of their ids
    names,      \* data_set_dict_ of each data source
    lists,      \* data_set_parent_dict_
    record,     \* the fields of the record objects
    last_id,    \* the last id that was generated
    asked,      \* what the program last wrote in each dataset under each key
    unsaved,    \* record objects of a save that failed, or of a database that was dropped
    dropped,    \* the data sources whose database was dropped
    contextCalls

stores == <<stored, names, lists, last_id, dropped>>
contextVars == <<data_source, data_set, stores, record, asked, unsaved, contextCalls>>

Own == -1           \* no dataset is given: an overload without one
Deleted == 0        \* the value of a delete marker
RecordValues == {1, 2}

Version(id, key, d, value, imports) ==
    [id |-> id, key |-> key, data_set |-> d, value |-> value, imports |-> imports]
DataSetKeyFor(n) == <<"DataSet", n>>
DataKeyFor(k) == <<"Data", k>>
ObjectOf(v, c) == [key |-> v.key, value |-> v.value, id |-> v.id, data_set |-> v.data_set, context |-> c]
With(f, x, v) == [y \in DOMAIN f \cup {x} |-> IF y = x THEN v ELSE f[y]]

------------------------------------------------------------------------------
(* What a data source finds.                                                  *)

StoredSets(s, d) == {v \in Range(stored[s]) : v.id = d /\ v.key[1] = "DataSet" /\ v.data_set = 0}
\* The lookup list of a dataset is empty when it, or an import of it, is not found, which
\* is an error.
LookupLists(s) ==
    LET list[d \in 0 .. last_id] ==
            IF d = 0 THEN {0}
            ELSE IF d \in DOMAIN lists[s] THEN lists[s][d]
            ELSE IF StoredSets(s, d) = {} \/ \E v \in StoredSets(s, d) : \E i \in v.imports : list[i] = {}
            THEN {}
            ELSE {d} \cup UNION {UNION {list[i] : i \in v.imports} : v \in StoredSets(s, d)}
    IN  list
\* A list that is built is cached with those of the imports.
Cached(s, d) == [x \in DOMAIN lists[s] \cup (LookupLists(s)[d] \ {0}) |-> LookupLists(s)[x]]
\* One that is built of the record of a dataset, wherever that is stored; it is not cached
\* when an import of it is not found.
CachedOfRecord(s, id, imports) ==
    LET found == UNION {LookupLists(s)[i] : i \in imports}
    IN  IF id \in DOMAIN lists[s] \/ \E i \in imports : LookupLists(s)[i] = {} THEN lists[s]
        ELSE With([x \in DOMAIN lists[s] \cup (found \ {0}) |-> LookupLists(s)[x]], id, {id} \cup found)

\* By dataset, then by id, both from the latest.
LoadByKey(s, key, d) ==
    LET found == {v \in Range(stored[s]) : v.key = key /\ v.data_set \in LookupLists(s)[d]}
    IN  {v \in found : v.value # Deleted /\
             \A q \in found : v.data_set > q.data_set \/ (v.data_set = q.data_set /\ v.id >= q.id)}

------------------------------------------------------------------------------
\* The datasets that contexts and calls may name.
DataSets == {0} \cup {v.id : v \in {q \in UNION {Range(stored[s]) : s \in DataStore} : q.key[1] = "DataSet"}}

ContextInit ==
    /\ data_source \in [Context -> DataStore]
    /\ data_set \in [Context -> {0, 1, 2}]
    \* Dataset 2 imports dataset 1, which holds a record of each key.
    /\ \E s \in DataStore, k \in RecordKeys, n, m \in DataSetName :
          /\ stored = [t \in DataStore |->
                 IF t # s THEN <<>>
                 ELSE <<Version(1, DataSetKeyFor(n), 0, 1, {}), Version(2, DataSetKeyFor(m), 0, 1, {1}),
                        Version(3, DataKeyFor(k), 1, 1, {})>>]
          /\ n # m
          /\ asked = [t \in DataStore |-> IF t = s THEN [x \in {<<1, k>>} |-> 1] ELSE <<>>]
    /\ names = [s \in DataStore |-> <<>>]
    /\ lists = [s \in DataStore |-> <<>>]
    /\ record = [o \in RecordObject |-> ObjectOf(Version(0, DataKeyFor(CHOOSE k \in RecordKeys : TRUE), 0, 1, {}), "none")]
    /\ last_id = 3
    /\ unsaved = {} /\ dropped = {}
    /\ contextCalls \in 0 .. MaxContextCalls      \* the program makes as many calls less

ContextCall == contextCalls < MaxContextCalls /\ contextCalls' = contextCalls + 1

\* The overloads without a dataset use the one of the context.
Target(c, given) == IF given = Own THEN data_set[c] ELSE given

\* The program sets the dataset of a context, and fields of a record.
SetDataSet(c) ==
    /\ ContextCall
    /\ \E d \in DataSets : data_set' = [data_set EXCEPT ![c] = d]
    /\ UNCHANGED <<data_source, stores, record, asked, unsaved>>
EditRecord ==
    /\ ContextCall
    /\ \E o \in RecordObject, k \in RecordKeys, v \in RecordValues :
          record' = [record EXCEPT ![o].key = DataKeyFor(k), ![o].value = v]
    /\ UNCHANGED <<data_source, data_set, stores, asked, unsaved>>

\* What was found is given to the program; load throws where load_or_null returns null.
LoadInto(o, s, found) ==
    IF found = {} THEN UNCHANGED <<record, unsaved>>
    ELSE \E v \in found :
             /\ record' = [record EXCEPT ![o] = ObjectOf(v, HomeOf[s])]
             /\ unsaved' = unsaved \ {o}

Load(c) ==
    \E k \in RecordKeys, given \in GivenSet \cup {Own}, o \in RecordObject :
        LET s == data_source[c]
            d == Target(c, given)
        IN  /\ ContextCall
            /\ LookupLists(s)[d] # {}
            /\ lists' = [lists EXCEPT ![s] = Cached(s, d)]
            /\ LoadInto(o, s, LoadByKey(s, DataKeyFor(k), d))
            /\ UNCHANGED <<data_source, data_set, stored, names, last_id, dropped, asked>>
LoadById(c) ==
    \E o \in RecordObject :
        \E v \in {q \in Range(stored[data_source[c]]) : q.key[1] = "Data" /\ q.value # Deleted} :
            /\ ContextCall
            /\ LoadInto(o, data_source[c], {v})
            /\ UNCHANGED <<data_source, data_set, stores, asked>>

\* Mutant: a record that was loaded goes back to where it came from.
SaveTargetOfRecord(c, given, o) ==
    IF given = Own /\ record[o].id # 0 THEN record[o].data_set ELSE Target(c, given)
SaveTarget(c, given, o) == Target(c, given)

\* save_one is save_many of a list of one.
RecordLists == {<<o>> : o \in RecordObject} \cup (RecordObject \X RecordObject)
LastOf(o, records) == CHOOSE i \in DOMAIN records : records[i] = o /\ \A j \in DOMAIN records : records[j] = o => j <= i
\* What was asked, after versions were written to a dataset in their order.
AskedAfter(f, d, versions) ==
    LET of(x) == {i \in DOMAIN versions : x = <<d, versions[i].key[2]>>}
    IN  [x \in DOMAIN f \cup {<<d, versions[i].key[2]>> : i \in DOMAIN versions} |->
            IF of(x) = {} THEN f[x] ELSE versions[Max(of(x))].value]
Prepared(records, s, d) ==
    [o \in RecordObject |->
        IF o \in Range(records)
        THEN [record[o] EXCEPT !.id = last_id + LastOf(o, records), !.data_set = d, !.context = HomeOf[s]]
        ELSE record[o]]
DocumentOf(r) == Version(r.id, r.key, r.data_set, r.value, {})
\* save_many: ids, dataset and context of every record first, then the inserts in order.
\* A record that is twice in the list has the second id in both documents, of which the
\* server refuses the second; it may fail anyway after any of them.
SaveMany(c) ==
    \E given \in GivenSet \cup {Own}, records \in RecordLists :
        LET s == data_source[c]
            d == SaveTarget(c, given, records[1])
            saved == Prepared(records, s, d)
            Written(n) == [i \in 1 .. n |-> DocumentOf(saved[records[i]])]
        IN  /\ ContextCall
            /\ record' = saved
            /\ last_id' = last_id + Len(records)
            /\ \E n \in 0 .. Cardinality(Range(records)) :
                  /\ stored' = [stored EXCEPT ![s] = @ \o Written(n)]
                  /\ unsaved' = {o \in unsaved \cup Range(records) :
                                    \A i \in 1 .. n : records[i] # o}
                  /\ asked' = [asked EXCEPT ![s] = AskedAfter(@, Target(c, given), Written(n))]
            /\ UNCHANGED <<data_source, data_set, names, lists, dropped>>

DeleteRecord(c) ==
    \E given \in GivenSet \cup {Own}, k \in RecordKeys :
        LET s == data_source[c]
            d == Target(c, given)
        IN  /\ ContextCall
            /\ last_id' = last_id + 1
            /\ stored' = [stored EXCEPT ![s] = Append(@, Version(last_id + 1, DataKeyFor(k), d, Deleted, {}))]
            /\ asked' = [asked EXCEPT ![s] = With(@, <<d, k>>, Deleted)]
            /\ UNCHANGED <<data_source, data_set, names, lists, dropped, record, unsaved>>

\* The caches stay, those of names and lists among them.
DeleteDb(c) ==
    LET s == data_source[c] IN
    /\ ContextCall
    /\ stored' = [stored EXCEPT ![s] = <<>>]
    /\ dropped' = dropped \cup {s}
    /\ asked' = [asked EXCEPT ![s] = <<>>]
    /\ unsaved' = RecordObject
    /\ UNCHANGED <<data_source, data_set, names, lists, last_id, record>>

------------------------------------------------------------------------------
(* Datasets: whatever the overload, a list of imports or none, and the flags  *)
(* that nothing reads.                                                        *)

\* The data source saves through its own context, to the data source of that.
SavesTo(s) == data_source[HomeOf[s]]

\* The overloads add no imports, or those given.
DataSetRecord(id, n, imports, d) == Version(id, DataSetKeyFor(n), d, 1, imports)
CreateDataSet(c) ==
    \E given \in GivenSet \cup {Own}, n \in DataSetName, imports \in SUBSET DataSets :
        LET s == data_source[c]
            id == last_id + 1
        IN  /\ ContextCall
            /\ Cardinality(imports) <= 1
            /\ last_id' = id
            /\ stored' = [stored EXCEPT ![SavesTo(s)] =
                             Append(@, DataSetRecord(id, n, imports, Target(c, given)))]
            /\ names' = [names EXCEPT ![s] = With(@, n, id)]
            /\ lists' = [lists EXCEPT ![s] = CachedOfRecord(s, id, imports)]
            /\ UNCHANGED <<data_source, data_set, record, asked, unsaved, dropped>>

\* get_data_set, get_data_set_or_empty and get_common: from the cache, by name alone, or
\* else from the database, with a detail record, which has no effect here but for its id.
GetDataSet(c) ==
    \E given \in GivenSet \cup {Own}, n \in DataSetName :
        LET s == data_source[c]
            d == Target(c, given)
        IN  /\ ContextCall
            /\ n \notin DOMAIN names[s]
            /\ LookupLists(s)[d] # {}
            /\ \E v \in LoadByKey(s, DataSetKeyFor(n), d) :
                  /\ names' = [names EXCEPT ![s] = With(@, n, v.id)]
                  /\ lists' = [lists EXCEPT ![s] = CachedOfRecord(s, v.id, v.imports)]
                  /\ last_id' = last_id + 1
            /\ UNCHANGED <<data_source, data_set, stored, record, asked, unsaved, dropped>>

ContextNext ==
    \/ EditRecord
    \/ \E c \in Context :
          \/ SetDataSet(c) \/ Load(c) \/ LoadById(c) \/ SaveMany(c)
          \/ DeleteRecord(c) \/ DeleteDb(c) \/ CreateDataSet(c) \/ GetDataSet(c)
ContextSpec == ContextInit /\ [][ContextNext]_contextVars

------------------------------------------------------------------------------
\* What the latest dataset of those that a context looks in was last asked to hold.
AskedFor(s, k, d) ==
    LET places == {e \in LookupLists(s)[d] : <<e, k>> \in DOMAIN asked[s]}
        latest == CHOOSE e \in places : \A f \in places : f <= e
    IN  IF places = {} THEN {} ELSE {asked[s][<<latest, k>>]} \ {Deleted}

\* "When dataset is not specified explicitly, the value of dataset from the context, not
\* from the record, is used" (context_base.hpp:196): a record that was loaded from an
\* import and is saved, or a key that is deleted, changes nothing that is seen from the
\* import, and what a dataset shows is what was last asked of it and its imports, whoever
\* asked and through whichever context, before and after the database is dropped.
LoadsAsAsked ==
    \A s \in DataStore, d \in DataSets, k \in RecordKeys :
        LookupLists(s)[d] # {} => {v.value : v \in LoadByKey(s, DataKeyFor(k), d)} = AskedFor(s, k, d)

\* A record object that was loaded, or saved without an error, carries the id and dataset
\* of a version in a database; after an error it has those of one that is not there.
ObjectsStored ==
    \A o \in RecordObject \ unsaved :
        record[o].id # 0 =>
            \E s \in DataStore : \E v \in Range(stored[s]) :
                v.id = record[o].id /\ v.data_set = record[o].data_set

\* A dataset whose name is cached is in the database of that data source, provided that
\* the data source of its context is itself.
NamesStored ==
    \A s \in {t \in DataStore \ dropped : SavesTo(t) = t} : \A n \in DOMAIN names[s] :
        \E v \in Range(stored[s]) : v.id = names[s][n] /\ v.key = DataSetKeyFor(n)

ContextsAsAsked == LoadsAsAsked /\ ObjectsStored /\ NamesStored
=============================================================================
