# A verification development for DataCentric C++

TLA+ models, model-checking runs and machine-checked proofs for the C++ port of
DataCentric (`src/cpp/src`): a temporal, dataset-aware record store over MongoDB, the
serialization between its objects and BSON, and the small object library (`dot`) all of
it is written with.

The modules model the code, not its comments. Where a comment promises something the
code does not do, a run shows it (see *Findings*).

## 1. The system and its parts

| Component (directory under `src/cpp/src`) | State | Operations | Interacts with | Module |
|---|---|---|---|---|
| Temporal data source (`datacentric/dc/platform/data_source/mongo/temporal_mongo_data_source.*`) | the database; four caches of datasets (`data_set_dict_`, `data_set_owners_dict_`, `data_set_detail_dict_`, `data_set_parent_dict_`); a cache of collections; the `cutoff_time` and `read_only` settings | `save_many`, `delete_record`, `load_or_null` by key and by id, `save_data_set`, `get_data_set_or_empty`, `get_query` | ids, datasets, collections; calls itself recursively through `load_or_null` | `TemporalMongoDataSource`, `RecordHistory` |
| Ids (`types/record/temporal_id.*`, `mongo_data_source.cpp:89`) | `prev_object_id_` of each data source; the counter of the process's ObjectIds; the clock | `generate_new_id`, `create_ordered_object_id`, comparisons | every save | `OrderedIds` |
| Query and cursor (`temporal_mongo_query*`) | filters and sort keys; the first query's position; the batch, the ids to load, the loaded records | `where`, `sort_by`, `get_cursor` and its iteration, `select` | `apply_final_constraints` and the cutoff times of the data source; concurrent writers through the server | `TemporalMongoQuery` |
| Mongo data source (`mongo_data_source.*`, `env_type.hpp`) | environment, database name, client | `init`, `delete_db` | server | `MongoDataSource` |
| Collections, data types and indexes (`get_or_create_collection`, `types/record/data_type_info.*`, `attributes/class/index_elements_attribute.*`) | `collection_dict_`; cached type information; the indexes on the server | root type and collection name, merging and parsing index definitions, creating indexes | every load and save | `Collections` |
| Context, data source base, datasets (`platform/context`, `data_source`, `data_set`) | the context's data source and current dataset | `load`, `save_one`, `save_many`, `delete_record`, `create_data_set`, `get_data_set`, `save_data_set` in all their overloads; `DataSetImpl::init` | forward to the data source, which saves datasets through the context it was initialised with | `ContextBase`, `TemporalMongoDataSource` |
| Records and keys (`types/record`) | none beyond the record | the semicolon form of a key, written and parsed | `_key` of every query | `RecordKey` |
| Query builder (`dotcpp-mongo/dot/mongo/mongo_db/query`) | the pipeline, the sort keys not flushed yet; the lists that `&&` and `\|\|` share; the chains of `make_prop` | `where`, `sort_by`, `then_by`, `group_by`, `limit`, `select`, `get_cursor`; filter expressions | the server runs the pipeline | `QueryPipeline`, `FilterTokens` |
| Collections of the driver (`mongo_db/mongo`, `cursor`) | none | `insert_one`, `insert_many`, `create_index`, `drop_database` | MongoDB driver | in the modules that call them |
| Tree writers (`dotcpp/dot/serialization`, `dotcpp-mongo/dot/mongo/serialization`) | a state and a stack of elements; what is built | start and end of documents, elements, dictionaries, arrays, values | serializers drive writers; a data or tuple writer builds objects | `TreeWriter`, `BsonWriter`, `JsonWriter`, `DataWriter`, `TupleWriter`, `TreeWriterClient` |
| Record serializers (same directories) | none | `serialize`, `deserialize` of records, keys, data, lists | reflection, writers | `BsonRecordSerializer`, `JsonRecordSerializer`, `RecordTypes`, `RecordSerialization` |
| Reference counting (`dotcpp/dot/system/ptr.hpp`, `weak_ptr.hpp`, `detail/reference_counter.hpp`) | a count in each object | copy, assign, cast, lock, destroy | everything | `ReferenceCounting`, `ReferenceSemantics` |
| Boxed values (`Object`, `Nullable`, `Variant`, `List`, `HashSet`, `Dictionary`) | values | boxing, conversion, equality, hashing, insertion | reflection | `BoxedValues` |
| Reflection (`dotcpp/dot/system/type.*`) | the maps of types by name, the list of derived types | builders, lookups of members | serializers, collections | `TypeRegistry` |
| NodaTime (`dotcpp/dot/noda_time`) | calendar values | arithmetic, comparison, conversion to stored integers | fields of records, ids | `NodaTime`, `CalendarWalk` |
| Time zones, logging, tests, command line | | | | not modelled |

The code starts no thread and holds no lock; only reference counts are made for threads.
What is hard in it is elsewhere:

* **several data sources on one database.** Processes on hosts whose clocks disagree
  write the same collections. Each access to the server is atomic; what lies between two
  accesses is not. An id is generated before the record is inserted, a query of a cursor
  reads three times, a lookup by id reads the record and then the settings it depends on.
* **caches that nothing ever clears**, filled by methods that call one another and that
  may throw between two assignments.
* **failure in the middle**: an ordered bulk write that stops after some records, an
  acknowledgement that is lost, a process that ends and comes back with empty caches.
* **ordering by id.** Visibility, freezing and the priority of datasets all rest on the
  order of ids, which rests on clocks.
* **two lookup rules, several implementations.** The latest version in the latest dataset
  is found by key, by cursor and by `select`, each with a query of its own.
* **one protocol, four writers.** BSON, JSON, data and tuple writers each repeat the
  transitions of the protocol by hand and check different parts of it; a serializer that is
  right for one may lose a value in another.
* **types that are built while they are asked for**, expressions that share and change lists
  in place, and calls that are deferred (sort keys, indexes, element names).
* **references without a collector**: a count that two threads change, and a release that may
  destroy the object an assignment is about to take.

What makes each part correct: ids grow and are unique; versions are only added and are
later than their dataset; a lookup list is the closure of the imports; caches agree with
the database; recursion ends; a data source reads its own writes; a historical view shows
nothing past its cutoff and never changes; read-only and frozen datasets are honoured; a
cursor finds every record once, in order, and no superseded one; a record that is written
and read without an exception is the same; a handle is never used after its object was
destroyed, and nothing unowned stays; a filter matches what was written; a type has the
members of its bases; a cached collection has its indexes. `PROJECT.json` lists the
hazards at their lines, with the property that guards each.

## 2. Modules

Definitions carry the names of the methods and fields they stand for. Every module marks
as `Mutant` the operators that exist to show that a property can fail.

### `OrderedIds`: where ids come from
State: true time `now`, the ObjectId counter of each process, `prev_object_id_` of each
data source, the local `result` of a call, and the history of returned ids. `Call` is
`create_ordered_object_id` up to its first id, `Retry` an iteration of its `while`, `Return`
the rest. An id is the triple compared by `memcmp`: milliseconds, the random value of the
process, the counter, which wraps. A clock reading is anywhere within `ClockError` of the
true time, so clocks disagree and step back. The server-side part of an ObjectId is external.

### `TemporalMongoDataSource`: datasets and records
State: `db`, the set of stored versions; the ids issued and `prev`; the four caches of each
data source; and, for the method in progress, `call[s]` with a `stack[s]` of recursion frames.
Every access to the server is a step of its own, so that two data sources interleave between
them and any of them may fail.

* `SaveMany`, `SaveDetail`, `DeleteRecord`, `LoadOrNull`, `LoadOrNullById`, `CreateDataSet`,
  `GetDataSet`, `GetCachedDataSet` begin a public method with arguments of a caller.
* `CheckNotReadOnly`, `Assign` (the id, its check, `DataSetImpl::init`), `Insert` (one
  document of the ordered bulk write), `Saved` (the acknowledgement, and what
  `save_data_set` and `get_data_set_or_empty` cache then) are a save.
* `Find`, `FindDetail`, `Built`, `FoundId`, `Return` are the loads.
* `Demand`, `ResolveDetail`, `ResolveLookup`, `ResolveLoaded`, `BuildSelf`, `BuildImports`
  are `get_data_set_detail_or_empty`, `get_data_set_lookup_list` and
  `build_data_set_lookup_list`. A method that finds a cache empty pushes the frame of the
  call that fills it, and looks again when the frame is gone.
* `WriteFails`, `ReadFails`, `Restart` are the faults.

A detail that was not found and one with no element set act alike, and are one value
(`NoDetail`). `operator[]` of the owners' dictionary inserts the root dataset for an unknown
key, and so does `ResolveDetail`.

### `RecordHistory`: what a data source promises
The abstract specification: a set of versions to which one fitting version at a time is
added. `TemporalMongoDataSource` implements it with `history <- db`.

### `TemporalMongoQuery`: a query beside writers
State: the collection, the query, the rows of its first query and how many were taken, the
batch, the ids to load, the records loaded, what was yielded. `Begin` is the constructor of
the iterator, `TakeBatch`, `Lookup`, `Load` are `batch_load` cut at its accesses to the
server, `Walk` and `EndBatch` are `get_next_record`, `Select` is the projection. `Write` is
another data source that saves or deletes; the first query may or may not come to what it
wrote, in any place its order allows. `LookupList` and the cutoff times are constants here:
they come from caches that do not change while a query runs. A collection holds one record of
an id at most (`ConstantsAssumption`), which the server ensures for `_id`.

### `MongoDataSource`, `Collections`: databases and their collections
`MongoDataSource` has the settings each data source was opened with and the databases of the
server. `init` accepts or throws by `Accepted`; a name is the sequence of its parts between
semicolons, so that two environments may have one. `Collections` adds `collection_dict_` and
one `task` per data source: a call of `get_or_create_collection` creates an index at a step,
any of which may fail, while others go on. `DataTypeInfo`, `get_attributes_dict` and
`parse_definition` are operators over the classes of the instance. What C++ and the templates
see to is assumed of them (`ClassesAssumption`): no class is its own base, and a class derived
from `TypedKey`, `TypedRecord` or `RootRecord` is the argument of that template; these
templates are classes of the instance too (`TemplateClass`). `lost` is a history: the cached
classes whose database was dropped since.

### `ContextBase`: what a program asks for
Contexts with a data source and a dataset, record objects of the program, and the data
sources behind them, which save datasets through their own context. One call is a step,
including the part of it that an exception leaves behind: `SaveMany` sets the ids of all
records first (`Prepared`) and may then insert any prefix of the documents. Lookup lists and
names are cached by data source and survive `DeleteDb`. `asked` is a history: the last value
the program wrote, or that it deleted, for each dataset and key. The details of records and cutoff times are left to
`TemporalMongoDataSource`.

### `TreeWriter` and the writers
`TreeWriter` has what the writers share: the transition helper `Move`, the composite calls of
the base class and a model of the builders of the BSON and JSON libraries, which are external.
Each writer module defines a method as a function from the writer before the call to the
writer after it, so that serializers, clients and proofs use the same definitions; `exception`
says that the call threw. `DataWriter` keeps its objects on a heap, because it fills an object
after storing it, and `TupleWriter` delegates to one. `RecordKey` is the semicolon form of keys
with tokens for characters. `TreeWriterClient` makes arbitrary calls on a BSON and a JSON writer.

### `BsonRecordSerializer`, `JsonRecordSerializer`, `RecordTypes`, `RecordSerialization`
A serializer is the sequence of calls that it makes on a writer, in either direction;
`RecordSerialization` executes them one call at a time: an object to a document, the document
to an object, or to a tuple of selected fields. `RecordTypes` describes reflected classes.

### `NodaTime`, `CalendarWalk`
Days, milliseconds and periods as numbers (a `long` too wide for TLC is a pair), with the
operators of each class. `CalendarWalk` adds and subtracts the same periods to a date, a time
and a moment.

### `ReferenceCounting`, `ReferenceSemantics`
Threads with `Ptr` and `WeakPtr` variables. Each operator of `Ptr` is the sequence of steps
that it makes, a step being one access to the atomic count or one assignment of the raw
pointer. `ReferenceSemantics` is the abstract specification, references as C# has them, which
`ReferenceCounting` implements with an object's reference hidden while its handle is `Stale`.
Disciplines of the modelled program: an assignment does not drop the last owner of what it
takes (`Survives`), and a weak reference is locked while its object is held, as records hold
their context. The code does not check either. `HandlesAssumption` says that a variable is a
variable of one thread and the field of an object is used by one thread, its home: a `Ptr` is
not atomic, only the count is. Variables of any threads may refer to one object at first.

### `BoxedValues`, `TypeRegistry`, `FilterTokens`, `QueryPipeline`, `IdentifierForms`
* `BoxedValues`: values move between `Nullable`s, `Object`s, `Variant`s, their texts and
  containers; history variables say what each place should hold.
* `TypeRegistry`: builders of types, each asking for others in the middle of its own work.
* `FilterTokens`: expressions over `make_prop` as tokens on a heap; `means` is a history of
  what the expression was written as. A filter changed in place by a later expression, and a
  chain that was moved from, count as given up (`usable`).
* `QueryPipeline`: stages are run as sets of possible results, because a sort leaves equal
  documents in any order; `expected` applies every call at once.
* `IdentifierForms`: the bytes and digits of ids, with a byte of four values.

### `...Proofs`
The theorems. `TemporalMongoDataSourceProofs` has the types and the database of
`TemporalMongoDataSource`; `TemporalMongoCacheProofs` extends it with what sources know of
datasets and what a load returns. `OrderedIdsProofs`, `TemporalMongoQueryProofs`
and `ContextBaseProofs` are each about one module; `ObjectsProofs` is about `ReferenceCounting`
and `BoxedValues`, `SerializationProofs` about `TreeWriterClient` and `CalendarWalk`,
`QueriesProofs` about `MongoDataSource`, `Collections` and `QueryPipeline`.

### `MC...` and `.cfg`
`MCOrderedIds`, `MCTemporalMongoDataSource` and `MCTemporalMongoQuery` give constants their
values: databases a data source may open, settings, queries. `MCRecordSerialization`,
`MCObjects` and `MCQueries` each put modules that do not interact side by side: a behaviour is
of one of them, chosen in the initial state, while the variables of the others stand still.

## 3. Runs

| Run | Question | Bounds, and why they are enough |
|---|---|---|
| `ordered_ids` | Are ids ordered and unique whatever clocks do, and does the retry end? | three sources, two of them in one process, so that both kinds of sharing occur; a counter of 2 values wraps within one call; clock error 1; 2 calls, any two ids suffice to break the order |
| `datasets` | Are the caches of datasets right, whatever fails between two steps? | one source; 4 ids: `Common` and three more datasets, importing one another through one and two levels; failures of reads, writes and the process anywhere |
| `records` | Is the database a history, and does a source read what it wrote? | two sources whose clocks disagree by an id (`MaxSkip`), one of which may be behind the dataset; bulk writes of 2, saves, deletes, cutoffs and restarts |
| `history` | Is a historical view faithful and frozen, and a read-only dataset left alone? | a source with cutoff 6 beside a writer; a dataset that is read-only and frozen, one that imports it, one nested in it; ids before, at and past both cutoffs |
| `query` | Does a cursor find every record once, in order, none superseded? | every collection of 2 and 3 versions over 2 keys and 2 datasets; a batch of 2 keys, so that versions of a key fall in one batch and in two and a batch may be exactly full; one write between any two steps when there are 2 versions at first |
| `serialization` | Do the writers agree on any calls, and do records, calendar values and datasets come back as they were? | 11 calls open and fill an element in an array in an element; the classes have every kind of field, and objects differ from the default in each field and in all; walks of 3 periods cross days, months, leap days and the epoch; 3 calls through two contexts of one data source, or 2 through contexts with a data source each, suffice to save what was loaded from an import and look again |
| `objects` | Are counts exact and references kept, and values kept in boxes and containers? | 2 threads, 3 variables, a weak one and 2 objects that hold each other: an object is shared, released by both, and freed with what it holds; 4 moves put a value through every kind of place and an equal one of another type into a set |
| `queries` | Do filters, pipelines, types, collections, databases and ids mean what they were asked to? | expressions of two operators over documents around the epoch; pipelines over three documents with ties in each field; three classes, of two modules with one short name, that need one another in every order; two data sources over environments that share a database, with two sibling classes whose indexes agree or conflict; three ids |
| `read_only_set`, `detail_created`, `imports_frozen`, `select_deleted` | the findings below | the smallest instance that shows each |

`serialization` is symmetric in the record objects of the program and `queries` in the data
sources: neither is named by a definition or a property, and the runs have no liveness
property. The other runs use no symmetry. `CHECK_DEADLOCK FALSE` is set because ids, time,
calls or the query run out: the bounds let the models stop.

Properties worth a reader's attention, beside type invariants where proofs rest on them:

* `SourceOrdered`, `CrossSourceOrder`, `IdsUnique`: order and uniqueness, each with the
  exact condition under which it holds (twice the clock error; a lap of the counter).
* `LookupListIsClosure`: a cached list is the least set that has the dataset and, with each
  dataset the source follows (one its cutoff times do not hide), the imports of it, in every
  order of building and whichever calls failed; it is empty when the dataset itself is hidden.
* `NamesConsistent`: a cached name is a stored dataset and its holder is cached with it.
* `NoReentry`, `MethodsReturn`: the recursion never reaches a call in progress, and ends.
* `ReadYourWrites`, `HistoricalViewFrozen`, `NothingPastCutoff`, `ReadOnlyHonoured`. The first
  is about datasets that are not hidden: a data source without a cutoff time may be given a
  dataset that lies in one frozen before it. Its lookup list is empty then, so that the source
  can write to it and not read it back.
* `UntouchedFound`, `NothingStale`, `KeyOnce`, `OrderKept`: what a cursor gives, against a
  definition of the answer (`Answer`) that shares no operator with the cursor's.
  `UntouchedFound` and `KeyOnce` leave out keys written while the query runs: such a key may be
  missed, or found twice, and the code does nothing against it.

* `JsonFollowsBson`, `SameTree`: two writers written apart never part ways, whatever the
  client calls; it may even break the protocol.
* `NothingLostSilently`, `ReadableIsRead`, `TupleIsSelection`, `WalksStored`: what is read
  is what was written, or an exception; the exceptions are listed in `Readable` and `Selectable`.
* `ReferencesKept`: a refinement; `UnownedFreed`: nothing unowned stays; `NoUseAfterFree`, which
  includes that counts are exact in the middle of every operator.
* `ContextsAsAsked`: what a dataset shows is what was last asked of it and of its imports,
  through whichever context, after failures and after `delete_db`.
* `RegistryComplete`, which holds of classes whose bases are complete first (`BasesFirst`);
  `CollectionsIndexed`; `DropsItsOwn`, which leaves out groups with semicolons;
  `FilterMeans`, `CursorAsAsked`, `IdsFollowTime`, `ValuesKept`, `ContainersByValue`.

Every property has a mutant in `PROJECT.json`: a plausible bug in a mapped definition under
which the run finds the property violated.

### Fairness
`OrderedIds`: time passes, and a thread inside the loop keeps running; without the first the
retry loop may spin for ever on a clock that stands still. `TemporalMongoDataSource`: a
thread inside a method keeps running (`WF` of `Step`); no caller is obliged to call, and no
fault to occur. `TemporalMongoQuery`: the caller iterates to the end. `ReferenceCounting`: a
thread inside an operator of `Ptr` keeps running (`WF` of `Step(t)`), which is all that
`UnownedFreed` needs; no thread is obliged to begin one. The other modules state none.

### Findings
1. **A dataset made read-only is still written** (`read_only_set`). `data_set_detail_data.hpp:52`
   promises an error. The detail of a dataset is cached for ever, also when there is none.
2. **The detail record that a lookup creates refers to no dataset** (`detail_created`).
   `temporal_mongo_data_source.cpp:232` sets the id on the key, not on the record.
3. **`load_or_null` ignores the imports cutoff time** (`imports_frozen`), which
   `data_set_detail_data.hpp:68` says load methods honour.
4. **A filtered `select` uncovers deleted records** (`select_deleted`): the filter removes the
   delete marker before the first version of each key is taken
   (`temporal_mongo_query.cpp:62`, against `temporal_mongo_data_source.hpp:95`).

Comments that the code does not follow, met while modelling and without a run of their own:
`mongo_data_source.hpp:73` "Defaults to local server" (an empty server throws, `.cpp:82`);
`data_source_data.hpp:305` "make context.DataSet its sole import" (no overload adds an import, and
nothing reads the flags); `context_base.hpp:82` "If Record property is set" (keys cache no record);
`object_id.hpp:67` "less or equal to any other" (`object_id.cpp:69` overwrites the bytes of the
time in the processor's order, so the order of such ids is not that of their times);
`env_type.hpp:82` a user's environment and `:101` a custom one (neither can be initialised);
`object_impl.hpp:56` equals and hash_code together (calendar types override one of them).

## 4. Proofs

Proved by TLAPS, for every value of the constants that these assumptions allow, which TLC
evaluates on the instances of the runs:

* `ConstantsAssumption` of each module: ids, sizes and bounds are numbers, marks such as `None`
  are none of the values, and what is stored at first is well formed, one record of an id;
* `HandlesAssumption`, the homes of `Ptr` variables (section 2);
* `SettingsAssumption`: a data source is opened with settings of their type, names in parts;
* `ClassesAssumption`, `AttributesAssumption`: what C++, the templates and the type of
  `IndexElementsAttribute` enforce of classes (section 2);
* `ContextAssumption`: each data source was initialised with a context, and datasets are ids;
* `ClientAssumption`: clients write values of types both tree writers accept, and the mark for no
  key is no element name;
* `ValueAssumption`: 0, 1 and the sentinel are among the values, and nothing is none of them;
* `CalendarAssumption`: moments and periods are whole days and a millisecond of a day, amounts are
  integers.

| Theorem | Statement | Argument |
|---|---|---|
| `OrderedIdsProofs!TypeCorrect` | `Spec => []TypeOK` | inductive as it stands |
| `OrderedIdsProofs!SourceOrder` | `Spec => []SourceOrdered` | `OrderInv`: every returned id is at most `prev`, and `Return` is entered with a later one |
| `OrderedIdsProofs!CrossSource` | `Spec => []CrossSourceOrder` | `OrderInv` also bounds the milliseconds of every id from below by the true time its call began, and from above by the time it ended, each less or more the clock error |
| `OrderedIdsProofs!Unique` | `Spec => []IdsUnique` | `UniqueInv`: until the counter has run a lap, the count of every id in play, returned or about to be compared, is younger (`Age`) than the number of draws; a value `Age` says was drawn a lap ago is not in play |
| `TemporalMongoDataSourceProofs!TypeCorrect` | `Spec => []TypeOK` | strengthened with `CallInv`, what phase and stack say of the records and the result of a call |
| `TemporalMongoDataSourceProofs!StoreIsOrdered` | `Spec => []StoreOrdered` | `StoreInv`: a record about to be inserted fits the history, and its id is unique among issued ones, stored ones and those of all pending bulk writes |
| `TemporalMongoDataSourceProofs!HistoryImplemented` | `Spec => HistoryIsKept` | under `StoreInv` every step is `RecordHistory!Next` or leaves `db` alone |
| `TemporalMongoCacheProofs!CutoffKept` | `Spec => []NothingPastCutoff` | `CacheInv` |
| `TemporalMongoCacheProofs!NamesAreStored` | `Spec => []NamesConsistent` | `CacheInv` |
| `TemporalMongoCacheProofs!RecursionDescends` | `Spec => []NoReentry` | `CacheInv`: every call of the recursion is for an earlier dataset than its caller |
| `TemporalMongoCacheProofs!ListsAreClosures` | `Spec => []LookupListIsClosure` | `CacheInv` |
| `TemporalMongoCacheProofs!OwnWritesRead` | `Spec => []ReadYourWrites` | `ViewInv`: `CacheInv`, the phases in which a method may wait for the recursion, and the property itself; the step that ends a load reads the database once (`FindReads`) |
| `TemporalMongoCacheProofs!ViewIsFrozen` | `Spec => HistoricalViewFrozen` | under `CacheInv` a record inserted is past the cutoff time, and lists and details, once cached, stay |
| `TemporalMongoQueryProofs!EveryAnswerIsYielded` | `Spec => []UntouchedFound` | `QueryInv` |
| `TemporalMongoQueryProofs!YieldedWereAnswers` | `Spec => []NothingStale` | `QueryInv` |
| `TemporalMongoQueryProofs!YieldedOnce` | `Spec => []KeyOnce` | `QueryInv`, and that two versions of a key cannot both be its answer |
| `TemporalMongoQueryProofs!YieldedInOrder` | `Spec => []OrderKept` | `QueryInv` |
| `SerializationProofs!FollowsBson` | `ClientSpec => []JsonFollowsBson` | `Follows`: both writers are records of their shape and agree. A lemma per method shows that the method keeps it, from two lemmas about the transition helper (`BothMove`) and about what builders do (`BsonWrites`, ...); the composite calls are chains of these |
| `ObjectsProofs!CountsExact` | `Spec => []NoUseAfterFree` | `CountingInv` |
| `ObjectsProofs!ReferencesImplemented` | `Spec => ReferencesKept` | under `CountingInv` a step changes what one handle refers to at most (`RefStep`), and that handle can be named in `ReferenceSemantics` or belongs to an object that cannot be reached |
| `ObjectsProofs!ValuesAreKept` | `BoxedSpec => []ValuesKept` | `BoxedInv` |
| `ObjectsProofs!ContainersHoldValues` | `BoxedSpec => []ContainersByValue` | `BoxedInv`: two objects of one item are one object (`ItemsApart`), so what `Find` gives is that object or nothing |
| `SerializationProofs!CalendarsStayTogether` | `CalendarSpec => []DateAndTimeFollow` | `CalendarInv` |
| `QueriesProofs!DropsAreOwn` | `CollectionsSpec => DropsItsOwn` | a database that goes is the one of the source that drops it; two names with plain groups that are one sequence have one type, group and environment |
| `QueriesProofs!CollectionsHaveIndexes` | `CollectionsSpec => []CollectionsIndexed` | `IndexInv` |
| `QueriesProofs!CursorsAsAsked` | `QuerySpec => []CursorAsAsked` | `QueryInv` of the pipeline: what was asked for is what the stages and the sort still pending give |
| `ContextBaseProofs!ProgramsGetWhatTheyAsked` | `ContextSpec => []ContextsAsAsked` | `ContextInv` |

`Unique` also rests on `RandomsDiffer`, that no two processes drew the same 5 random bytes: the
driver makes that likely, nothing makes it certain. No other theorem uses it.

The inductive invariants, and why the properties alone are not inductive:

* `JsonFollowsBson`: a step changes fields of the writers, which an invariant has to know to be
  records. The theorem needs no bound on calls, names, values or depth.
* `StoreOrdered`: an insert adds a record that was given its id several steps earlier, while
  other sources went on, so `StoreInv` speaks of the records in flight.
* `CacheInv` (`StoreInv` and, for each source, `SourceKnows`): a list is put together over many
  steps, interrupted by the building of other lists and by whatever other sources write. The
  invariant says of each frame of the recursion what its part of the list already is
  (`Gathered`: contained in every closed set, closed but for the dataset itself), and that the
  frames of a stack are for ever earlier datasets; that is where `StoreOrdered` comes in, for a
  dataset is later than its imports and its holder. Two facts carry it over the steps of others:
  `db` grows by records with new ids, and the caches of a source only grow. So a list closed
  when it was cached is closed for ever.
* `ViewInv` (`CacheInv`, `ViewShape` and the property itself): a save is followed by a load that
  is several steps long, and others may write between them.
* `QueryInv`: the records yielded, the batch at hand and the rows to come follow one another in
  the rows of the first query, where no version is twice (`RowsInv`, `PlaceInv`); each record the
  query owes is yielded, in the batch and found by the lookup that was made for it, or to come
  (`DueInv`); and what was looked up was the answer then and is one still, if nobody wrote to its
  key (`AnswerInv`). `NothingStale` needs the last for the records in the dictionary, which are
  yielded steps after they were looked up. The length of a batch is what `BatchLength` chooses,
  which exists because a row adds no key or one (`KeysGrow`).
* `CountingInv`: a count is exact in the middle of operators only relative to what each thread is
  still to do, so the invariant says of `todo[t]` which rests of operators there are (`Shape`: the
  frees of nested deletions, then the end of one operator), and what the operator relies on until
  its end (`OperatorInv`: the handle it writes is a variable of the thread or the field of an
  object that another of its variables holds, and so is the one it reads). It follows that no
  other thread writes either handle (`SafeHandle`), and that the object stays live. `CountInv` is
  then the number of handles that are not `Missing` plus the operators between their increment
  and their assignment, and `FreesInv` gives each dying object to one thread, to free it once. A
  release that finds a count of 1 was the last holder (`LastHolder`), wherever the others are.
  The discipline `Survives` is what makes `SetInv` true: without it the assigned object may go
  between its release and its copy.
* `ReferencesImplemented` maps a handle to what it refers to unless it is `Stale`, and the objects
  to those that have memory and whose first handle is bound. Operators take effect in their first
  and last steps: the release is `Clear`, or `Collect` when the field belongs to a dying object,
  the last step is `Assign` or `New`, a free is `Collect`; all others change no reference.
  `Reachable` is stated by closed sets, not by recursion, so that the provers can use it.

* `IndexInv` (`CachedInv`, `TaskInv`): a call creates its indexes one at a time while others
  create and drop theirs, so the invariant says of a call at work which indexes are there
  already, and what it still has to create. That the collection is the one of the root of its
  class rests on `ClassesAssumption` and on walking up the bases, which ends (`DataTypeInfo`).
* `QueryInv` of `QueryPipeline` needs no induction over the stages: each call adds one, and
  `Aggregate` of a sequence with one stage more is that stage of what it gave before.
* `ContextInv`: a load chooses among datasets first and versions second, and `asked` among
  datasets alone. `StoredAsAsked` ties them under one key in one dataset: the latest version has
  the value that was asked for, and there is one for each thing asked. The ids of a version, of
  an object that is saved and of a record that is twice in a list come from one counter, so ids
  stay unique, and the documents of a failed bulk write are a prefix of those asked for
  (`DocumentsWritten`). How a lookup list is computed plays no part: what is found in any set of
  datasets is what was asked of them (`FoundAsAsked`), also when a list is stale because the
  database was dropped.

* `BoxedInv` (`PlacesInv`, `ContainersInv`): a value moves through one class after another, so the
  invariant gives the type of what each place holds and says that it is exactly what is wanted
  there; a conversion that keeps a value only if it was well formed before relies on that. Of the
  containers it says that their objects are finitely many objects and that the items of these
  are the members and entries wanted.
* `CalendarInv` (`CalendarTypes`, `Together`): the three values are compared by the milliseconds
  since the origin, and by days only while whole days were added; in between, the invariant says
  that time and moment are at the same millisecond of a day. Months, years
  and weekdays begin a new origin, and take the date and the day of the moment through the same
  function. What boost's day number algorithm (`CivilDate`) computes plays no part here but that
  it gives integers; that it is the inverse of `DayNumber` was evaluated for the years 1400 to 9999.

The proofs have a lemma per action or group of actions and, below it, a step per conjunct the
action can disturb; lemmas about sequences, lists and answers come first.
`QueryInv`, `CountingInv` and `ContextInv` were also found true by TLC, on the instances of the
runs `query`, `objects` and `serialization`; no run lists them, because the theorems say more.

Model-checked only:

* liveness (`CallsReturn`, `MethodsReturn`, `QueryEnds`, `UnownedFreed`), which the prover cannot
  treat with fairness;
* `ReadOnlyHonoured`, which is true of the instance of `history` and false of the code
  (finding 1): it is no theorem of the specification;
* of the run `serialization`: `SameTree`, `NothingLostSilently`, `ReadableIsRead`,
  `TupleIsSelection`, `WalksStored`; of `queries`: `FilterMeans`, `RegistryComplete`,
  `IdsFollowTime`. They are about recursion over data (documents and the stack of a writer,
  filters, classes, the digits of a text), which the prover does not treat.

## 5. Bounds and abstractions

* Ids of the data source are natural numbers in the order of generation; `OrderedIds` gives
  the reason why a source gets increasing ones. `MaxId` bounds them, `MaxSkip` how far apart
  two clocks are. `MaxBatch` bounds a bulk write.
* A record is its id, dataset, key, type, delete mark, imports and settings. Other elements
  do not influence any decision of the code modelled. The query adds one element to filter and
  sort by.
* The server is a linearizable store: each query reads one state. An iteration over a result
  that is fetched in several portions is a list of rows into which later writes may fall.
* `serialization`, `objects`, `queries`: `MaxCalls`, `MaxSteps`, `MaxMoves`, `MaxItems`,
  `MaxContextCalls`, `MaxRequests`, `MaxIds`, `MaxClock`, `MaxToken` bound calls, values and ids;
  `GivenSet` the datasets a call names explicitly. A string is a value or a sequence of
  tokens, a BSON document or JSON text the tree it stands for.
* A data source is initialised once. Ids are made from the epoch on.
* `BoxedValues`: equal values of one type have one hash code, and different types may share it.
* `ContextBase`: datasets have at most one import each, so that a lookup list that cannot be
  built has cached nothing on its way.
* Imports are datasets that exist. Records are saved with at least one in the list:
  `save_many` reads `records[0]`.

## 6. Not modelled, and the plan

Planned, in this order:

1. A part of `SameTree` for every client: the frames of the BSON builder from the stack (`Nested`).
2. Runs of their own for the parts that share one now, with larger bounds: three levels of
   expressions, four classes, threads with two weak references.
3. `DataSetImpl::init` and details within `ContextBase`; detail records written through the
   context of another data source.

Left out: the MongoDB server and driver beyond what the code relies on; boost's calendar beyond
day numbers, among it the exceptions outside the years 1400 to 9999;
formatting and parsing of texts where no property is about them, among them the methods of
`String` and the texts of calendar values; reflection macros, and method and constructor
wrappers, which only call what they wrap; members of containers that pass on to the standard
library; the comparison of doubles, which the code modelled does not use; time zones (a record
without operations), logging (enumerations), tests and the command line.
