----------------------- MODULE TemporalMongoCacheProofs -----------------------
(***************************************************************************)
(* What the data sources know about datasets, proved for any settings,      *)
(* initial records and bounds: the names, holders and lookup lists that a   *)
(* data source caches agree with the database, the recursion that fills     *)
(* them ends, and nothing past a cutoff time gets in.                       *)
(*                                                                         *)
(* The argument is an invariant of one data source.  The others only add    *)
(* records with new ids to the database, which is all it has to bear from   *)
(* them; and its own caches only grow.                                      *)
(***************************************************************************)
EXTENDS TemporalMongoDataSourceProofs, WellFoundedInduction

-----------------------------------------------------------------------------
\* The invariant.

Writing == {"check", "assign", "insert"}

IsDataSetKey(key) == \E n \in Name : key = DataSetKeyOf(n)

\* A result that is a record is before the cutoff time of s.
InTime(s, result) == result \notin {None, Error} => BeforeCutoff(result.id, cutoff_time[s])

\* The public method c of s: a data source with a cutoff time never reaches the
\* loop of save_many; the dataset that a method is about to cache is stored.
CallKnows(s, c) ==
    /\ c.phase \in {"assign", "insert"} => s \notin ReadOnlySource /\ cutoff_time[s] = None
    /\ c.phase = "insert" => \A i \in 1 .. c.count : c.recs[i] \in db
    /\ c.op = "create" /\ c.phase \in Writing =>
          Len(c.recs) = 1 /\ IsDataSetKey(c.recs[1].key) /\ ~c.recs[1].deleted
    /\ c.op = "get" /\ c.phase = "find" => IsDataSetKey(c.key)
    /\ c.op = "get" /\ c.phase \in {"find_detail"} \cup Writing =>
          c.result \in DataSetRecords /\ IsDataSetKey(c.result.key)
    /\ InTime(s, c.result)

\* The ids that s knows to be saved are stored.
MineStored(s) == \A i \in mine[s] : \E r \in db : r.id = i

\* A cached name is that of a stored dataset, whose holder is cached.
NameKnown(s, n) ==
    names[s][n] # None =>
        \E r \in DataSetRecords :
            /\ r.id = names[s][n] /\ r.key = DataSetKeyOf(n)
            /\ owners[s][r.id] = r.data_set
            /\ BeforeCutoff(r.id, cutoff_time[s])

\* The holder of a dataset is earlier than the dataset.
OwnerEarlier(s, d) == owners[s][d] # None => owners[s][d] < d

\* L is the lookup list of d as far as it was built: imports of d may be missing.
Gathered(s, d, L) ==
    /\ d \in L
    /\ \A x \in L : x <= d /\ (x # d => HasLookupList(s, x))
    /\ \A r \in DataSetRecords : r.id \in L /\ r.id # d /\ Follows(s, r) => r.imports \subseteq L
    /\ \A S \in SUBSET DataSetId : d \in S /\ ImportsWithin(s, S) => L \subseteq S

ListKnown(s, d) ==
    parents[s][d] # None =>
        \E r \in DataSetRecords :
            /\ r.id = d /\ HasDetail(s, r.data_set)
            /\ IF Follows(s, r)
               THEN Gathered(s, d, parents[s][d]) /\ r.imports \subseteq parents[s][d]
               ELSE parents[s][d] = {}

\* What a frame of the recursion is working on is not cached yet.
FrameKnown(s, f) ==
    /\ f.of # Root
    /\ f.step = "detail" => details[s][f.of] = None
    /\ f.step # "detail" => parents[s][f.of] = None
    /\ f.step \in {"loaded", "build"} => f.rec \in DataSetRecords /\ f.rec.id = f.of
    /\ f.step = "build" /\ f.acc # {} => Follows(s, f.rec) /\ Gathered(s, f.of, f.acc)

\* Every call of the recursion is made for an earlier dataset than its caller.
Descends(frames) == \A i, j \in 1 .. Len(frames) : i < j => frames[i].of < frames[j].of

OnStack(s) == {stack[s][i] : i \in 1 .. Len(stack[s])}

SourceKnows(s) ==
    /\ CallKnows(s, call[s])
    /\ MineStored(s)
    /\ \A n \in Name : NameKnown(s, n)
    /\ \A d \in DataSetId : OwnerEarlier(s, d)
    /\ \A d \in DataSetId : ListKnown(s, d)
    /\ \A f \in OnStack(s) : FrameKnown(s, f)
    /\ Descends(stack[s])

CacheInv == StoreInv /\ \A s \in Source : SourceKnows(s)

-----------------------------------------------------------------------------
\* What the others do, and what a data source does to the others.

\* Records are added to the database; their ids are new.
DbGrows ==
    /\ db \subseteq db'
    /\ \A r \in db' \ db : \A q \in db : q.id # r.id

LEMMA DbStep ==
    ASSUME StoreInv, NEW s \in Source, Request(s) \/ Step(s) \/ Fault(s)
    PROVE  DbGrows
<1>1. CASE Insert(s)
  <2> DEFINE r == call[s].recs[call[s].count + 1]
  <2>1. (\A q \in db : q.id # r.id) /\ db' = db \cup {r}
    BY <1>1, InsertFits
  <2> HIDE DEF r
  <2>2. QED
    BY <2>1 DEF DbGrows
<1>2. CASE Assign(s)
  BY <1>2 DEF Assign, DbGrows
<1>3. CASE ~Assign(s) /\ ~Insert(s)
  BY <1>3, QuietActions DEF StoreInv, DbGrows
<1>4. QED
  BY <1>1, <1>2, <1>3

\* Nothing of data source u changes.
Untouched(u) ==
    /\ call'[u] = call[u] /\ stack'[u] = stack[u] /\ mine'[u] = mine[u]
    /\ names'[u] = names[u] /\ owners'[u] = owners[u]
    /\ details'[u] = details[u] /\ parents'[u] = parents[u]

LEMMA OtherUntouched ==
    ASSUME TypeOK, NEW s \in Source, Request(s) \/ Step(s) \/ Fault(s),
           NEW u \in Source, u # s
    PROVE  Untouched(u)
<1> USE DEF TypeOK, Untouched, caches
<1>1. CASE Request(s)
  <2>1. \A op, phase, key, ds, recs : Begin(s, op, phase, key, ds, recs) => Untouched(u)
    BY DEF Begin
  <2>2. CASE SaveMany(s)
    <3> DEFINE new == {NewRecord(DataKeyOf(k), t) : k \in DataKey, t \in DataType}
    <3> HIDE DEF new
    <3>1. \E ds \in KnownTargets, n \in 1 .. MaxBatch :
            \E recs \in [1 .. n -> new] : Begin(s, "save", "check", None, ds, recs)
      BY <2>2 DEF SaveMany, new
    <3>2. QED
      BY <2>1, <3>1, Zenon
  <2>3. CASE SaveDetail(s) \/ DeleteRecord(s) \/ LoadOrNull(s) \/ CreateDataSet(s) \/ GetDataSet(s)
    BY <2>1, <2>3, Zenon DEF SaveDetail, DeleteRecord, LoadOrNull, CreateDataSet, GetDataSet
  <2>4. CASE LoadOrNullById(s)
    <3>1. /\ \E c : call' = [call EXCEPT ![s] = c]
          /\ UNCHANGED <<db, issued, prev, caches, stack, mine>>
      BY <2>4, Zenon DEF LoadOrNullById
    <3>2. QED
      BY <3>1
  <2>5. CASE GetCachedDataSet(s)
    BY <2>5 DEF GetCachedDataSet
  <2>6. QED
    BY <1>1, <2>2, <2>3, <2>4, <2>5 DEF Request
<1>2. CASE ResolveDetail(s)
  BY <1>2 DEF ResolveDetail, Push, Pop
<1>3. CASE ResolveLookup(s)
  BY <1>3 DEF ResolveLookup, Throw, Done, Become
<1>4. CASE ResolveLoaded(s)
  BY <1>4 DEF ResolveLoaded, Throw, Done, Become, Push
<1>5. CASE BuildSelf(s)
  BY <1>5 DEF BuildSelf, Push, Pop, Become
<1>6. CASE BuildImports(s)
  BY <1>6 DEF BuildImports, Push, Pop, Become
<1>7. CASE Demand(s)
  BY <1>7 DEF Demand, Push
<1>8. CASE CheckNotReadOnly(s)
  BY <1>8 DEF CheckNotReadOnly, Proceed, Throw, Done
<1>9. CASE Assign(s)
  BY <1>9 DEF Assign, Done
<1>10. CASE Insert(s)
  BY <1>10 DEF Insert
<1>11. CASE Saved(s)
  <2>1. mine'[u] = mine[u]
    BY <1>11 DEF Saved
  <2>2. CASE Done(s, None) /\ UNCHANGED <<caches, stack>>
    BY <2>1, <2>2 DEF Done
  <2>3. CASE \E r : CacheDataSet(s, r)
    BY <2>1, <2>3 DEF CacheDataSet, Push
  <2>4. QED
    BY <1>11, <2>2, <2>3 DEF Saved
<1>12. CASE Find(s)
  BY <1>12 DEF Find, Done
<1>13. CASE FindDetail(s)
  BY <1>13 DEF FindDetail, CacheDataSet, Push
<1>14. CASE Built(s) \/ FoundId(s) \/ Return(s)
  BY <1>14 DEF Built, FoundId, Return, Proceed, Done
<1>15. CASE Fault(s)
  BY <1>15 DEF Fault, WriteFails, ReadFails, Restart, Throw, Done, EmptyCaches
<1>16. QED
  BY <1>1, <1>2, <1>3, <1>4, <1>5, <1>6, <1>7, <1>8, <1>9, <1>10, <1>11, <1>12, <1>13, <1>14, <1>15 DEF Step

-----------------------------------------------------------------------------
\* What was known stays known while the database and the caches grow.

\* Nothing leaves the caches of s.
CachesGrow(s) ==
    /\ \A d \in DataSetId : details[s][d] # None => details'[s][d] = details[s][d]
    /\ \A d \in DataSetId : parents[s][d] # None => parents'[s][d] = parents[s][d]

LEMMA DataSetRecordsGrow ==
    ASSUME DbGrows
    PROVE  DataSetRecords \subseteq DataSetRecords'
BY DEF DbGrows, DataSetRecords

LEMMA StoredIds ==
    ASSUME StoreInv
    PROVE  /\ db \subseteq Record /\ DataSetRecords \subseteq db
           /\ \A r \in db : /\ r.id \in DataSetId /\ r.data_set \in DataSetId
                            /\ r.imports \in SUBSET DataSetId
                            /\ r.id # Root /\ r.data_set < r.id /\ \A i \in r.imports : i < r.id
           /\ \A r \in db, q \in db : q.id = r.id => q = r
<1>1. db \subseteq Record /\ DataSetRecords \subseteq db
  BY DEF StoreInv, TypeOK, DataSetRecords
<1>2. \A r \in db : /\ r.id \in DataSetId /\ r.data_set \in DataSetId /\ r.imports \in SUBSET DataSetId
                    /\ r.id > r.data_set /\ \A i \in r.imports : r.id > i
  BY <1>1 DEF Record, StoreInv, Stored, WellIdentified
<1>3. QED
  BY <1>1, <1>2, ConstantsAssumption DEF StoreInv, Stored, DataSetId, Root, ConstantsAssumption

LEMMA FollowsStep ==
    ASSUME TypeOK, NEW s \in Source, CachesGrow(s), NEW r \in Record, HasDetail(s, r.data_set)
    PROVE  HasDetail(s, r.data_set)' /\ (Follows(s, r)' <=> Follows(s, r))
<1>1. r.data_set \in DataSetId
  BY DEF Record
<1>2. HasDetail(s, r.data_set)' /\ DataSetDetailOf(s, r.data_set)' = DataSetDetailOf(s, r.data_set)
  BY <1>1 DEF HasDetail, DataSetDetailOf, CachesGrow
<1>3. QED
  BY <1>2 DEF Follows, CutoffTime

LEMMA ListsGrow ==
    ASSUME NEW s \in Source, CachesGrow(s), NEW d \in DataSetId, HasLookupList(s, d)
    PROVE  HasLookupList(s, d)' /\ LookupList(s, d)' = LookupList(s, d)
BY DEF HasLookupList, LookupList, CachesGrow

LEMMA GatheredKept ==
    ASSUME StoreInv, StoreInv', NEW s \in Source, DbGrows, CachesGrow(s),
           \A d \in DataSetId : ListKnown(s, d),
           NEW d \in DataSetId, NEW L \in SUBSET DataSetId, Gathered(s, d, L)
    PROVE  Gathered(s, d, L)'
<1>1. TypeOK /\ DataSetRecords \subseteq Record
  BY StoredIds DEF StoreInv
<1>2. \A r \in DataSetRecords : Follows(s, r) => Follows(s, r)'
  BY <1>1, FollowsStep DEF Follows
<1>3. ASSUME NEW r \in DataSetRecords', r.id \in L, r.id # d, Follows(s, r)'
      PROVE  r.imports \subseteq L
  <2>1. r \in db' /\ r.id # Root /\ \A q \in db' : q.id = r.id => q = r
    <3>1. r \in db'
      BY DEF DataSetRecords
    <3>2. \A q \in db' : /\ q.id \in DataSetId /\ q.data_set \in DataSetId /\ q.id > q.data_set
                         /\ \A p \in db' : p.id = q.id => p = q
      BY DEF StoreInv, TypeOK, Record, Stored, WellIdentified
    <3>3. QED
      BY <3>1, <3>2, ConstantsAssumption DEF DataSetId, Root, ConstantsAssumption
  <2>2. parents[s][r.id] # None
    BY <1>3, <2>1 DEF Gathered, HasLookupList
  <2>3. PICK q \in DataSetRecords : q.id = r.id /\ HasDetail(s, q.data_set)
    BY <1>3, <2>2 DEF ListKnown
  <2>4. q = r
    BY <2>1, <2>3, DataSetRecordsGrow DEF DataSetRecords
  <2>5. Follows(s, r)
    BY <1>1, <1>3, <2>3, <2>4, FollowsStep
  <2>6. QED
    BY <1>3, <2>3, <2>4, <2>5 DEF Gathered
<1>4. \A S \in SUBSET DataSetId : ImportsWithin(s, S)' => ImportsWithin(s, S)
  BY <1>2, DataSetRecordsGrow DEF ImportsWithin
<1>5. \A x \in L : x # d => HasLookupList(s, x)'
  BY ListsGrow DEF Gathered
<1>6. QED
  BY <1>3, <1>4, <1>5 DEF Gathered

LEMMA ListKept ==
    ASSUME StoreInv, StoreInv', NEW s \in Source, DbGrows, CachesGrow(s),
           \A d \in DataSetId : ListKnown(s, d),
           NEW d \in DataSetId, parents[s][d] # None
    PROVE  ListKnown(s, d)'
<1>1. PICK r \in DataSetRecords :
        /\ r.id = d /\ HasDetail(s, r.data_set)
        /\ IF Follows(s, r)
           THEN Gathered(s, d, parents[s][d]) /\ r.imports \subseteq parents[s][d]
           ELSE parents[s][d] = {}
  BY DEF ListKnown
<1>2. r \in DataSetRecords' /\ r \in Record /\ TypeOK
  BY DataSetRecordsGrow, StoredIds DEF StoreInv
<1>3. HasDetail(s, r.data_set)' /\ (Follows(s, r)' <=> Follows(s, r))
  BY <1>1, <1>2, FollowsStep
<1>4. parents'[s][d] = parents[s][d]
  BY DEF CachesGrow
<1> DEFINE L == parents[s][d]
<1>5. L \in SUBSET DataSetId
  BY <1>2 DEF TypeOK
<1>6. Follows(s, r) => (Gathered(s, d, parents[s][d]))'
  <2> SUFFICES ASSUME Follows(s, r) PROVE (Gathered(s, d, parents[s][d]))'
    OBVIOUS
  <2>1. Gathered(s, d, L)
    BY <1>1
  <2> HIDE DEF L
  <2>2. \A M \in SUBSET DataSetId : Gathered(s, d, M) => Gathered(s, d, M)'
    BY GatheredKept
  <2>3. QED
    BY <1>4, <1>5, <2>1, <2>2 DEF L, Gathered
<1>7. QED
  BY <1>1, <1>2, <1>3, <1>4, <1>6 DEF ListKnown

LEMMA FrameKept ==
    ASSUME StoreInv, StoreInv', NEW s \in Source, DbGrows, CachesGrow(s),
           \A d \in DataSetId : ListKnown(s, d),
           NEW f \in Frame, FrameKnown(s, f),
           f.step = "detail" => details'[s][f.of] = None,
           f.step # "detail" => parents'[s][f.of] = None
    PROVE  FrameKnown(s, f)'
<1>1. f.step \in {"loaded", "build"} => f.rec \in DataSetRecords' /\ f.rec.id = f.of
  BY DataSetRecordsGrow DEF FrameKnown
<1>2. ASSUME f.step = "build", f.acc # {}
      PROVE  Follows(s, f.rec)' /\ Gathered(s, f.of, f.acc)'
  <2>1. f.rec \in Record /\ f.of \in DataSetId /\ f.acc \in SUBSET DataSetId
    BY <1>2 DEF Frame
  <2>2. Follows(s, f.rec) /\ Gathered(s, f.of, f.acc) /\ TypeOK
    BY <1>2 DEF FrameKnown, StoreInv
  <2>3. QED
    BY <2>1, <2>2, GatheredKept, FollowsStep DEF Follows
<1>3. QED
  BY <1>1, <1>2 DEF FrameKnown

LEMMA CallKept ==
    ASSUME DbGrows, NEW s \in Source, NEW c, CallKnows(s, c)
    PROVE  CallKnows(s, c)'
BY DataSetRecordsGrow DEF DbGrows, CallKnows, InTime

LEMMA MineKept ==
    ASSUME DbGrows, NEW s \in Source, MineStored(s), mine'[s] \subseteq mine[s]
    PROVE  MineStored(s)'
BY DEF DbGrows, MineStored

LEMMA NameKept ==
    ASSUME DbGrows, NEW s \in Source, NEW n \in Name, NameKnown(s, n),
           names'[s][n] = names[s][n],
           \A r \in DataSetRecords : owners[s][r.id] = r.data_set => owners'[s][r.id] = r.data_set
    PROVE  NameKnown(s, n)'
BY DataSetRecordsGrow DEF NameKnown

\* Whatever another data source does, s knows what it knew.
LEMMA OtherKnows ==
    ASSUME StoreInv, StoreInv', NEW s \in Source, SourceKnows(s), Untouched(s), DbGrows
    PROVE  SourceKnows(s)'
<1>1. CachesGrow(s)
  BY DEF Untouched, CachesGrow
<1>2. CallKnows(s, call[s])'
  <2>1. PICK c : c = call[s]
    OBVIOUS
  <2>2. CallKnows(s, c)'
    BY <2>1, CallKept DEF SourceKnows
  <2>3. call'[s] = c
    BY <2>1 DEF Untouched
  <2>4. QED
    BY <2>2, <2>3 DEF CallKnows, InTime
<1>3. MineStored(s)' /\ \A n \in Name : NameKnown(s, n)'
  BY MineKept, NameKept DEF Untouched, SourceKnows
<1>4. \A d \in DataSetId : OwnerEarlier(s, d)' /\ ListKnown(s, d)'
  <2> SUFFICES ASSUME NEW d \in DataSetId
               PROVE  OwnerEarlier(s, d)' /\ ListKnown(s, d)'
    OBVIOUS
  <2>1. OwnerEarlier(s, d)'
    BY DEF Untouched, SourceKnows, OwnerEarlier
  <2>2. CASE parents[s][d] # None
    BY <1>1, <2>1, <2>2, ListKept DEF SourceKnows
  <2>3. CASE parents[s][d] = None
    BY <2>1, <2>3 DEF ListKnown, Untouched
  <2>4. QED
    BY <2>2, <2>3
<1>5. OnStack(s)' = OnStack(s) /\ Descends(stack[s])'
  BY DEF OnStack, Descends, Untouched, SourceKnows
<1>6. ASSUME NEW f \in OnStack(s)
      PROVE  FrameKnown(s, f)'
  <2>1. f \in Frame
    BY ElementOfSeq DEF OnStack, StoreInv, TypeOK
  <2>2. FrameKnown(s, f)
    BY DEF SourceKnows
  <2>3. QED
    BY <1>1, <2>1, <2>2, FrameKept DEF SourceKnows, Untouched, FrameKnown
<1>7. QED
  BY <1>2, <1>3, <1>4, <1>5, <1>6 DEF SourceKnows

-----------------------------------------------------------------------------
\* The public method in progress.

LEMMA CutoffTighter ==
    ASSUME TypeOK, NEW s \in Source, NEW n \in DataSetId, HasDetail(s, n),
           NEW id \in Nat, BeforeCutoff(id, CutoffTime(s, n))
    PROVE  BeforeCutoff(id, cutoff_time[s])
<1>1. DataSetDetailOf(s, n) \in Detail
  BY NoDetailType DEF DataSetDetailOf, HasDetail, TypeOK
<1>2. DataSetDetailOf(s, n).cutoff_time \in NullableId /\ cutoff_time[s] \in NullableId
  BY <1>1, ConstantsAssumption DEF Detail, ConstantsAssumption
<1>3. QED
  BY <1>2, ConstantsAssumption DEF BeforeCutoff, CutoffTime, TemporalIdMin, NullableId, ConstantsAssumption

LEMMA FoundByKey ==
    ASSUME StoreInv, NEW s \in Source, NEW n \in DataSetId, NEW key, HasDetail(s, n),
           LoadByKey(s, key, n) # None
    PROVE  LET r == LoadByKey(s, key, n) IN
           r \in db /\ r.key = key /\ ~r.deleted /\ InTime(s, r)
<1> DEFINE r == LoadByKey(s, key, n)
<1>1. r \in FinalConstraints(s, key, n) /\ ~r.deleted
  BY DEF LoadByKey
<1>2. r \in db /\ r.key = key /\ BeforeCutoff(r.id, CutoffTime(s, n))
  BY <1>1 DEF FinalConstraints
<1> HIDE DEF r
<1>3. r.id \in Nat /\ TypeOK
  BY <1>2, StoredIds DEF DataSetId, StoreInv
<1>4. InTime(s, r)
  BY <1>2, <1>3, CutoffTighter DEF InTime
<1>5. QED
  BY <1>1, <1>2, <1>4 DEF r

\* A call that is over, or is left to the caching of a dataset.
LEMMA OverKnows ==
    ASSUME TypeOK, NEW s \in Source, NEW c, call' = [call EXCEPT ![s] = c],
           c.phase \notin Writing \cup {"find", "find_detail"}, InTime(s, c.result)
    PROVE  CallKnows(s, call[s])'
<1>1. call'[s] = c
  BY DEF TypeOK
<1>2. QED
  BY <1>1 DEF CallKnows, InTime, Writing

LEMMA DoneKnows ==
    ASSUME TypeOK, NEW s \in Source, NEW result, Done(s, result), InTime(s, result)
    PROVE  CallKnows(s, call[s])'
<1> DEFINE c == [call[s] EXCEPT !.phase = "done", !.result = result, !.recs = <<>>, !.count = 0]
<1>1. call[s] \in Call
  BY DEF TypeOK
<1>2. c.phase = "done" /\ c.result = result
  BY <1>1 DEF Call
<1>3. call' = [call EXCEPT ![s] = c]
  BY DEF Done
<1>4. QED
  <2> HIDE DEF c
  <2>1. QED
    BY <1>2, <1>3, OverKnows DEF Writing

LEMMA ThrowKnows ==
    ASSUME TypeOK, NEW s \in Source, Throw(s)
    PROVE  CallKnows(s, call[s])'
BY DoneKnows DEF Throw, InTime

LEMMA CacheKnows ==
    ASSUME TypeOK, NEW s \in Source, NEW r, CacheDataSet(s, r)
    PROVE  CallKnows(s, call[s])'
<1> DEFINE c == [call[s] EXCEPT !.phase = "build", !.found = r.id, !.result = None,
                                !.recs = <<>>, !.count = 0]
<1>1. call[s] \in Call
  BY DEF TypeOK
<1>2. c.phase = "build" /\ c.result = None
  BY <1>1 DEF Call
<1>3. call' = [call EXCEPT ![s] = c]
  BY DEF CacheDataSet
<1>4. QED
  <2> HIDE DEF c
  <2>1. QED
    BY <1>2, <1>3, OverKnows DEF Writing, InTime

LEMMA BeginKnows ==
    ASSUME TypeOK, NEW s \in Source, NEW op, NEW phase \in {"find", "check"},
           NEW key, NEW ds, NEW recs, Begin(s, op, phase, key, ds, recs),
           op = "get" => phase = "find" /\ IsDataSetKey(key),
           op = "create" => Len(recs) = 1 /\ IsDataSetKey(recs[1].key) /\ ~recs[1].deleted
    PROVE  CallKnows(s, call[s])'
<1> DEFINE c == [NoCall EXCEPT !.op = op, !.phase = phase, !.key = key, !.ds = ds, !.recs = recs]
<1>1. c.op = op /\ c.phase = phase /\ c.key = key /\ c.recs = recs /\ c.result = None
  BY DEF NoCall
<1>2. call'[s] = c
  BY DEF TypeOK, Begin
<1>3. QED
  <2> HIDE DEF c
  <2>1. QED
    BY <1>1, <1>2 DEF CallKnows, InTime, Writing

LEMMA SameKnows ==
    ASSUME DbGrows, NEW s \in Source, CallKnows(s, call[s]), call'[s] = call[s]
    PROVE  CallKnows(s, call[s])'
<1>1. PICK c : c = call[s]
  OBVIOUS
<1>2. CallKnows(s, c)'
  BY <1>1, CallKept
<1>3. QED
  BY <1>1, <1>2 DEF CallKnows, InTime

LEMMA RequestKnows ==
    ASSUME StoreInv, NEW s \in Source, SourceKnows(s), Request(s)
    PROVE  CallKnows(s, call[s])'
<1> USE DEF StoreInv
<1>1. CASE SaveMany(s)
  <2> DEFINE new == {NewRecord(DataKeyOf(k), t) : k \in DataKey, t \in DataType}
  <2> HIDE DEF new
  <2>1. \E ds \in KnownTargets, n \in 1 .. MaxBatch :
          \E recs \in [1 .. n -> new] : Begin(s, "save", "check", None, ds, recs)
    BY <1>1 DEF SaveMany, new
  <2>2. QED
    BY <2>1, BeginKnows
<1>2. CASE SaveDetail(s)
  BY <1>2, BeginKnows DEF SaveDetail
<1>3. CASE DeleteRecord(s)
  BY <1>3, BeginKnows DEF DeleteRecord
<1>4. CASE LoadOrNull(s)
  BY <1>4, BeginKnows DEF LoadOrNull
<1>5. CASE GetDataSet(s)
  BY <1>5, BeginKnows DEF GetDataSet, IsDataSetKey
<1>6. CASE CreateDataSet(s)
  <2>1. PICK ds \in KnownTargets, n \in Name, imports \in Imports :
          Begin(s, "create", "check", DataSetKeyOf(n), ds,
                <<[NewRecord(DataSetKeyOf(n), None) EXCEPT !.imports = imports]>>)
    BY <1>6 DEF CreateDataSet
  <2> DEFINE rec == [NewRecord(DataSetKeyOf(n), None) EXCEPT !.imports = imports]
  <2>2. rec.key = DataSetKeyOf(n) /\ ~rec.deleted
    BY DEF NewRecord
  <2> HIDE DEF rec
  <2>3. Len(<<rec>>) = 1 /\ IsDataSetKey(<<rec>>[1].key) /\ ~<<rec>>[1].deleted
    BY <2>2 DEF IsDataSetKey
  <2>4. QED
    BY <2>1, <2>3, BeginKnows DEF rec
<1>7. CASE GetCachedDataSet(s)
  <2>1. PICK n \in Name :
          call' = [call EXCEPT ![s] = [NoCall EXCEPT !.op = "get", !.phase = "done",
                                          !.key = DataSetKeyOf(n), !.found = names[s][n]]]
    BY <1>7 DEF GetCachedDataSet
  <2> DEFINE c == [NoCall EXCEPT !.op = "get", !.phase = "done",
                                 !.key = DataSetKeyOf(n), !.found = names[s][n]]
  <2>2. c.phase = "done" /\ c.result = None
    BY DEF NoCall
  <2>3. QED
    <3> HIDE DEF c
    <3>1. QED
      BY <2>1, <2>2, OverKnows DEF c, Writing, InTime
<1>8. CASE LoadOrNullById(s)
  <2>1. PICK id \in issued, t \in DataType :
          \/ call' = [call EXCEPT ![s] = [NoCall EXCEPT !.op = "load_id", !.phase = "done"]]
          \/ /\ BeforeCutoff(id, cutoff_time[s])
             /\ \E r \in LoadById(id, "Data") :
                  call' = [call EXCEPT ![s] =
                    IF <<t, r.type>> \in Assignable
                    THEN [NoCall EXCEPT !.op = "load_id", !.phase = "found_id", !.result = r]
                    ELSE [NoCall EXCEPT !.op = "load_id", !.phase = "done", !.result = Error]]
    BY <1>8, Zenon DEF LoadOrNullById
  <2> DEFINE null == [NoCall EXCEPT !.op = "load_id", !.phase = "done"]
             loaded(r) == [NoCall EXCEPT !.op = "load_id", !.phase = "found_id", !.result = r]
             wrong == [NoCall EXCEPT !.op = "load_id", !.phase = "done", !.result = Error]
  <2>2. null.phase = "done" /\ null.result = None /\ wrong.phase = "done" /\ wrong.result = Error
    BY DEF NoCall
  <2>3. \A r : loaded(r).phase = "found_id" /\ loaded(r).result = r
    BY DEF NoCall
  <2>4. CASE call' = [call EXCEPT ![s] = null]
    <3> HIDE DEF null
    <3>1. QED
      BY <2>2, <2>4, OverKnows DEF Writing, InTime
  <2>5. ASSUME NEW r \in LoadById(id, "Data"), BeforeCutoff(id, cutoff_time[s]),
               call' = [call EXCEPT ![s] = IF <<t, r.type>> \in Assignable THEN loaded(r) ELSE wrong]
        PROVE  CallKnows(s, call[s])'
    <3>1. r.id = id
      BY DEF LoadById
    <3> HIDE DEF loaded, wrong
    <3>2. CASE <<t, r.type>> \in Assignable
      BY <2>3, <2>5, <3>1, <3>2, OverKnows DEF Writing, InTime
    <3>3. CASE <<t, r.type>> \notin Assignable
      BY <2>2, <2>5, <3>3, OverKnows DEF Writing, InTime
    <3>4. QED
      BY <3>2, <3>3
  <2>6. QED
    BY <2>1, <2>4, <2>5
<1>9. QED
  BY <1>1, <1>2, <1>3, <1>4, <1>5, <1>6, <1>7, <1>8 DEF Request

\* check_not_read_only lets only a data source without cutoff time write.
LEMMA CheckKnows ==
    ASSUME StoreInv, NEW s \in Source, SourceKnows(s), CheckNotReadOnly(s)
    PROVE  CallKnows(s, call[s])'
<1>1. CASE Throw(s)
  BY <1>1, ThrowKnows DEF StoreInv
<1>2. CASE Writable(s, call[s].ds) /\ Proceed(s, "assign")
  <2> DEFINE c == [call[s] EXCEPT !.phase = "assign"]
  <2>1. call[s] \in Call /\ call[s].phase = "check" /\ CallKnows(s, call[s])
    BY DEF CheckNotReadOnly, In, StoreInv, TypeOK, SourceKnows
  <2>2. /\ c.phase = "assign" /\ c.op = call[s].op /\ c.recs = call[s].recs
        /\ c.result = call[s].result
    BY <2>1 DEF Call
  <2>3. call'[s] = c
    BY <1>2 DEF Proceed, StoreInv, TypeOK
  <2>4. s \notin ReadOnlySource /\ cutoff_time[s] = None
    BY <1>2 DEF Writable
  <2>5. db' = db
    BY DEF CheckNotReadOnly
  <2> HIDE DEF c
  <2>6. QED
    BY <2>1, <2>2, <2>3, <2>4, <2>5 DEF CallKnows, InTime, Writing, DataSetRecords
<1>3. QED
  BY <1>1, <1>2 DEF CheckNotReadOnly

LEMMA AssignKnows ==
    ASSUME StoreInv, NEW s \in Source, SourceKnows(s), Assign(s)
    PROVE  CallKnows(s, call[s])'
<1> DEFINE c == call[s]
           next == c.count + 1
           recs(id) == [c.recs EXCEPT ![next].id = id, ![next].data_set = c.ds]
           last == next = Len(c.recs)
           now(id) == [c EXCEPT !.recs = recs(id), !.phase = IF last THEN "insert" ELSE @,
                                !.count = IF last THEN 0 ELSE next]
<1>1. PICK id \in NewIds(s) : call' = [call EXCEPT ![s] = now(id)] \/ Done(s, Error)
  <2>1. PICK id \in NewIds(s) :
          \/ call' = [call EXCEPT ![s].recs = recs(id), ![s].phase = IF last THEN "insert" ELSE @,
                                 ![s].count = IF last THEN 0 ELSE next]
          \/ Done(s, Error)
    BY DEF Assign
  <2> HIDE DEF recs, last, next
  <2>2. QED
    BY <2>1
<1>2. c \in Call /\ CallShape(c) /\ c.phase = "assign" /\ CallKnows(s, c) /\ db' = db
  BY DEF Assign, In, StoreInv, TypeOK, CallInv, SourceKnows
<1>3. c.recs \in Seq(Record) /\ c.count \in Nat /\ c.ds \in DataSetId /\ Len(c.recs) \in Nat
  BY <1>2 DEF Call
<1>4. next \in 1 .. Len(c.recs)
  BY <1>2, <1>3 DEF CallShape
<1>5. \A i \in 1 .. Len(c.recs) : c.recs[i] \in Record
  BY <1>3, ElementOfSeq
<1>6. /\ Len(recs(id)) = Len(c.recs)
      /\ \A i \in 1 .. Len(c.recs) : recs(id)[i].key = c.recs[i].key /\ recs(id)[i].deleted = c.recs[i].deleted
  <2> DEFINE rec == [c.recs[next] EXCEPT !.id = id, !.data_set = c.ds]
  <2>1. id \in DataSetId
    BY RootType DEF NewIds, FreeIds
  <2>2. /\ recs(id) = [c.recs EXCEPT ![next] = rec] /\ rec \in Record
        /\ rec.key = c.recs[next].key /\ rec.deleted = c.recs[next].deleted
    BY <1>3, <1>4, <1>5, <2>1 DEF Record
  <2> HIDE DEF rec, recs
  <2>3. QED
    BY <1>3, <1>4, <2>2, ExceptSeq
<1>7. CASE Done(s, Error)
  BY <1>7, DoneKnows DEF StoreInv, InTime
<1>8. CASE call' = [call EXCEPT ![s] = now(id)]
  <2>1. /\ now(id).op = c.op /\ now(id).result = c.result /\ now(id).recs = recs(id)
        /\ now(id).phase \in {"assign", "insert"}
        /\ now(id).phase = "insert" => now(id).count = 0
    BY <1>2 DEF Call
  <2> HIDE DEF now, recs
  <2>2. call'[s] = now(id)
    BY <1>8 DEF StoreInv, TypeOK
  <2>3. now(id).op = "create" => /\ Len(now(id).recs) = 1 /\ IsDataSetKey(now(id).recs[1].key)
                                 /\ ~now(id).recs[1].deleted
    BY <1>2, <1>6, <2>1 DEF CallKnows, Writing
  <2>4. now(id).op = "get" => now(id).result \in DataSetRecords' /\ IsDataSetKey(now(id).result.key)
    BY <1>2, <2>1 DEF CallKnows, Writing, DataSetRecords
  <2>5. QED
    BY <1>2, <2>1, <2>2, <2>3, <2>4 DEF CallKnows, InTime
<1>9. QED
  BY <1>1, <1>7, <1>8

LEMMA InsertKnows ==
    ASSUME StoreInv, NEW s \in Source, SourceKnows(s), Insert(s)
    PROVE  CallKnows(s, call[s])'
<1> DEFINE c == call[s]
           now == [c EXCEPT !.count = @ + 1]
<1>1. c \in Call /\ c.phase = "insert" /\ CallKnows(s, c)
  BY DEF Insert, In, StoreInv, TypeOK, SourceKnows
<1>2. /\ now.op = c.op /\ now.phase = c.phase /\ now.recs = c.recs /\ now.result = c.result
      /\ now.key = c.key /\ now.count = c.count + 1 /\ c.count \in Nat
  BY <1>1 DEF Call
<1>3. call'[s] = now /\ db' = db \cup {c.recs[c.count + 1]}
  BY DEF Insert, Adding, StoreInv, TypeOK
<1> HIDE DEF now
<1>4. \A i \in 1 .. now.count : now.recs[i] \in db'
  <2> SUFFICES ASSUME NEW i \in 1 .. c.count + 1
               PROVE  c.recs[i] \in db'
    BY <1>2
  <2>1. i \in 1 .. c.count \/ i = c.count + 1
    BY <1>2
  <2>2. QED
    BY <1>1, <1>3, <2>1 DEF CallKnows
<1>5. DataSetRecords \subseteq DataSetRecords'
  BY <1>3 DEF DataSetRecords
<1>6. QED
  BY <1>1, <1>2, <1>3, <1>4, <1>5 DEF CallKnows, InTime, Writing

\* The record of the dataset that save_data_set or get_data_set_or_empty caches.
LEMMA SavedKnows ==
    ASSUME StoreInv, NEW s \in Source, SourceKnows(s), Saved(s)
    PROVE  /\ CallKnows(s, call[s])' /\ MineStored(s)' /\ db' = db
           /\ \/ UNCHANGED <<caches, stack>>
              \/ \E r \in DataSetRecords :
                    IsDataSetKey(r.key) /\ BeforeCutoff(r.id, cutoff_time[s]) /\ CacheDataSet(s, r)
<1> DEFINE c == call[s]
<1>1. c \in Call /\ CallShape(c) /\ c.phase = "insert" /\ c.count = Len(c.recs) /\ CallKnows(s, c)
  BY DEF Saved, In, StoreInv, TypeOK, CallInv, SourceKnows
<1>2. \A i \in 1 .. Len(c.recs) : c.recs[i] \in db
  BY <1>1 DEF CallKnows
<1>3. db' = db /\ mine' = [mine EXCEPT ![s] = @ \cup {c.recs[i].id : i \in 1 .. Len(c.recs)}]
  BY DEF Saved
<1>4. MineStored(s)'
  <2>1. mine'[s] = mine[s] \cup {c.recs[i].id : i \in 1 .. Len(c.recs)}
    BY <1>3 DEF StoreInv, TypeOK
  <2>2. \A j \in {c.recs[i].id : i \in 1 .. Len(c.recs)} : \E r \in db : r.id = j
    BY <1>2
  <2>3. QED
    BY <1>3, <2>1, <2>2 DEF MineStored, SourceKnows
<1>5. CASE Done(s, None) /\ UNCHANGED <<caches, stack>>
  BY <1>3, <1>4, <1>5, DoneKnows DEF InTime, StoreInv
<1>6. CASE c.op = "create" /\ CacheDataSet(s, c.recs[1])
  <2>1. Len(c.recs) = 1 /\ IsDataSetKey(c.recs[1].key) /\ ~c.recs[1].deleted /\ cutoff_time[s] = None
    BY <1>1, <1>6 DEF CallKnows, Writing
  <2>2. c.recs[1] \in DataSetRecords
    BY <1>2, <2>1 DEF DataSetRecords, IsDataSetKey, DataSetKeyOf
  <2>3. QED
    BY <1>3, <1>4, <1>6, <2>1, <2>2, CacheKnows DEF BeforeCutoff, StoreInv
<1>7. CASE c.op = "get" /\ CacheDataSet(s, c.result)
  <2>1. c.result \in DataSetRecords /\ IsDataSetKey(c.result.key) /\ cutoff_time[s] = None
    BY <1>1, <1>7 DEF CallKnows, Writing
  <2>2. QED
    BY <1>3, <1>4, <1>7, <2>1, CacheKnows DEF BeforeCutoff, StoreInv
<1>8. QED
  BY <1>5, <1>6, <1>7 DEF Saved

LEMMA FindKnows ==
    ASSUME StoreInv, NEW s \in Source, SourceKnows(s), Find(s)
    PROVE  CallKnows(s, call[s])'
<1> DEFINE c == call[s]
           found == LoadByKey(s, c.key, c.ds)
           now == [c EXCEPT !.phase = "find_detail", !.result = found]
<1>1. c \in Call /\ c.phase = "find" /\ CallKnows(s, c) /\ HasDetail(s, c.ds) /\ db' = db
  BY DEF Find, In, StoreInv, TypeOK, SourceKnows
<1>2. c.ds \in DataSetId
  BY <1>1 DEF Call
<1>3. found # None => found \in db /\ found.key = c.key /\ ~found.deleted /\ InTime(s, found)
  BY <1>1, <1>2, FoundByKey
<1>4. \/ c.op = "get" /\ found # None /\ call' = [call EXCEPT ![s] = now]
      \/ Done(s, found)
  BY DEF Find
<1>5. /\ now.op = c.op /\ now.phase = "find_detail" /\ now.result = found
  BY <1>1 DEF Call
<1> HIDE DEF found, now
<1>6. CASE Done(s, found)
  BY <1>3, <1>6, DoneKnows DEF StoreInv, InTime
<1>7. CASE c.op = "get" /\ found # None /\ call' = [call EXCEPT ![s] = now]
  <2>1. IsDataSetKey(found.key) /\ found \in DataSetRecords
    BY <1>1, <1>3, <1>7 DEF CallKnows, IsDataSetKey, DataSetKeyOf, DataSetRecords
  <2>2. call'[s] = now
    BY <1>7 DEF StoreInv, TypeOK
  <2>3. QED
    BY <1>1, <1>3, <1>5, <1>7, <2>1, <2>2 DEF CallKnows, InTime, Writing, DataSetRecords
<1>8. QED
  BY <1>4, <1>6, <1>7

LEMMA FindDetailKnows ==
    ASSUME StoreInv, NEW s \in Source, SourceKnows(s), FindDetail(s)
    PROVE  /\ CallKnows(s, call[s])' /\ db' = db
           /\ \/ UNCHANGED <<caches, stack>>
              \/ \E r \in DataSetRecords :
                    IsDataSetKey(r.key) /\ BeforeCutoff(r.id, cutoff_time[s]) /\ CacheDataSet(s, r)
<1> DEFINE c == call[s]
           new == <<NewRecord(DataSetDetailKeyOf(Root), None)>>
           now == [c EXCEPT !.phase = "check", !.recs = new]
<1>1. c \in Call /\ CallShape(c) /\ c.phase = "find_detail" /\ CallKnows(s, c) /\ db' = db
  BY DEF FindDetail, In, StoreInv, TypeOK, CallInv, SourceKnows
<1>2. c.op = "get" /\ c.result \in DataSetRecords /\ IsDataSetKey(c.result.key)
  BY <1>1 DEF CallShape, CallKnows
<1>3. BeforeCutoff(c.result.id, cutoff_time[s])
  <2>1. c.result \in Record
    BY <1>2 DEF DataSetRecords, StoreInv, TypeOK
  <2>2. c.result \notin {None, Error}
    BY <2>1, ConstantsAssumption DEF ConstantsAssumption
  <2>3. QED
    BY <1>1, <2>2 DEF CallKnows, InTime
<1>4. CacheDataSet(s, c.result) \/ (call' = [call EXCEPT ![s] = now] /\ UNCHANGED <<caches, stack>>)
  <2> HIDE DEF new
  <2>1. QED
    BY DEF FindDetail, new
<1>5. CASE CacheDataSet(s, c.result)
  BY <1>1, <1>2, <1>3, <1>5, CacheKnows DEF StoreInv
<1>6. CASE call' = [call EXCEPT ![s] = now] /\ UNCHANGED <<caches, stack>>
  <2> HIDE DEF new
  <2>1. now.op = "get" /\ now.phase = "check" /\ now.result = c.result
    BY <1>1, <1>2 DEF Call
  <2>2. call'[s] = now
    BY <1>6 DEF StoreInv, TypeOK
  <2> HIDE DEF now
  <2>3. CallKnows(s, call[s])'
    BY <1>1, <1>2, <2>1, <2>2 DEF CallKnows, InTime, Writing, DataSetRecords
  <2>4. QED
    BY <1>1, <1>6, <2>3
<1>7. QED
  BY <1>4, <1>5, <1>6

-----------------------------------------------------------------------------
\* The frames of the recursion.

FramesKnown(s) == (\A f \in OnStack(s) : FrameKnown(s, f)) /\ Descends(stack[s])

LEMMA OneMore ==
    ASSUME NEW frames \in Seq(Frame), NEW f
    PROVE  LET more == <<f>> \o frames IN
           /\ Len(more) = Len(frames) + 1 /\ more[1] = f
           /\ \A i \in 2 .. Len(more) : i - 1 \in 1 .. Len(frames) /\ more[i] = frames[i - 1]
OBVIOUS

LEMMA OneLess ==
    ASSUME NEW frames \in Seq(Frame), frames # <<>>
    PROVE  /\ Len(frames) \in Nat \ {0} /\ Head(frames) = frames[1]
           /\ Tail(frames) \in Seq(Frame) /\ Len(Tail(frames)) = Len(frames) - 1
           /\ \A i \in 1 .. Len(frames) - 1 : Tail(frames)[i] = frames[i + 1]
OBVIOUS

LEMMA OfType ==
    ASSUME NEW frames \in Seq(Frame)
    PROVE  \A i \in 1 .. Len(frames) : frames[i].of \in DataSetId /\ frames[i] \in Frame
BY ElementOfSeq DEF Frame

LEMMA PushDescends ==
    ASSUME NEW frames \in Seq(Frame), NEW f \in Frame, Descends(frames),
           frames = <<>> \/ f.of < Head(frames).of
    PROVE  LET more == <<f>> \o frames IN
           /\ Descends(more)
           /\ \A i \in 1 .. Len(more) : more[i] = f \/ \E j \in 1 .. Len(frames) : more[i] = frames[j]
<1> DEFINE more == <<f>> \o frames
<1>1. /\ Len(more) = Len(frames) + 1 /\ more[1] = f /\ Len(frames) \in Nat
      /\ \A i \in 2 .. Len(more) : i - 1 \in 1 .. Len(frames) /\ more[i] = frames[i - 1]
  BY OneMore
<1>2. f.of \in DataSetId /\ \A i \in 1 .. Len(frames) : frames[i].of \in DataSetId
  BY OfType DEF Frame
<1> HIDE DEF more
<1>3. \A j \in 1 .. Len(frames) : f.of < frames[j].of
  <2> SUFFICES ASSUME NEW j \in 1 .. Len(frames) PROVE f.of < frames[j].of
    OBVIOUS
  <2>1. frames # <<>>
    OBVIOUS
  <2>2. f.of < frames[1].of /\ 1 \in 1 .. Len(frames)
    BY <2>1, OneLess
  <2>3. j = 1 \/ frames[1].of < frames[j].of
    BY <2>2 DEF Descends
  <2>4. QED
    BY <1>2, <2>2, <2>3 DEF DataSetId
<1>4. Descends(more)
  <2> SUFFICES ASSUME NEW i \in 1 .. Len(more), NEW j \in 1 .. Len(more), i < j
               PROVE  more[i].of < more[j].of
    BY DEF Descends
  <2>1. j \in 2 .. Len(more)
    BY <1>1
  <2>2. CASE i = 1
    BY <1>1, <1>3, <2>1, <2>2
  <2>3. CASE i # 1
    <3>1. i \in 2 .. Len(more)
      BY <1>1, <2>3
    <3>2. /\ more[i] = frames[i - 1] /\ more[j] = frames[j - 1]
          /\ i - 1 \in 1 .. Len(frames) /\ j - 1 \in 1 .. Len(frames) /\ i - 1 < j - 1
      BY <1>1, <2>1, <3>1
    <3>3. QED
      BY <3>2 DEF Descends
  <2>4. QED
    BY <2>2, <2>3
<1>5. \A i \in 1 .. Len(more) : more[i] = f \/ \E j \in 1 .. Len(frames) : more[i] = frames[j]
  <2> SUFFICES ASSUME NEW i \in 1 .. Len(more), i # 1
               PROVE  \E j \in 1 .. Len(frames) : more[i] = frames[j]
    BY <1>1
  <2>1. i \in 2 .. Len(more)
    BY <1>1
  <2>2. QED
    BY <1>1, <2>1
<1>6. QED
  BY <1>4, <1>5 DEF more

LEMMA TailDescends ==
    ASSUME NEW frames \in Seq(Frame), frames # <<>>, Descends(frames)
    PROVE  /\ Descends(Tail(frames))
           /\ \A i \in 1 .. Len(Tail(frames)) :
                 /\ Head(frames).of < Tail(frames)[i].of
                 /\ \E j \in 1 .. Len(frames) : Tail(frames)[i] = frames[j]
<1>1. /\ Len(frames) \in Nat \ {0} /\ Head(frames) = frames[1]
      /\ Len(Tail(frames)) = Len(frames) - 1
      /\ \A i \in 1 .. Len(frames) - 1 : Tail(frames)[i] = frames[i + 1]
  BY OneLess
<1>2. \A i \in 1 .. Len(Tail(frames)) : i + 1 \in 1 .. Len(frames)
  BY <1>1
<1>3. QED
  BY <1>1, <1>2 DEF Descends

LEMMA PushKnown ==
    ASSUME TypeOK, NEW s \in Source, NEW f \in Frame, Push(s, f), Descends(stack[s]),
           stack[s] = <<>> \/ f.of < Head(stack[s]).of,
           \A g \in OnStack(s) : FrameKnown(s, g)', FrameKnown(s, f)'
    PROVE  FramesKnown(s)'
<1>1. stack[s] \in Seq(Frame) /\ stack'[s] = <<f>> \o stack[s]
  BY DEF TypeOK, Push
<1>2. /\ Descends(<<f>> \o stack[s])
      /\ \A i \in 1 .. Len(<<f>> \o stack[s]) :
            (<<f>> \o stack[s])[i] = f \/ \E j \in 1 .. Len(stack[s]) : (<<f>> \o stack[s])[i] = stack[s][j]
  BY <1>1, PushDescends
<1>3. \A g \in OnStack(s)' : g = f \/ g \in OnStack(s)
  BY <1>1, <1>2 DEF OnStack
<1>4. Descends(stack[s])'
  BY <1>1, <1>2 DEF Descends
<1>5. QED
  BY <1>3, <1>4 DEF FramesKnown

LEMMA PopKnown ==
    ASSUME TypeOK, NEW s \in Source, stack[s] # <<>>, Pop(s), Descends(stack[s]),
           \A g \in OnStack(s) : Head(stack[s]).of < g.of => FrameKnown(s, g)'
    PROVE  FramesKnown(s)'
<1>1. stack[s] \in Seq(Frame) /\ stack'[s] = Tail(stack[s])
  BY DEF TypeOK, Pop
<1>2. /\ Descends(Tail(stack[s]))
      /\ \A i \in 1 .. Len(Tail(stack[s])) :
            /\ Head(stack[s]).of < Tail(stack[s])[i].of
            /\ \E j \in 1 .. Len(stack[s]) : Tail(stack[s])[i] = stack[s][j]
  BY <1>1, TailDescends
<1>3. \A g \in OnStack(s)' : g \in OnStack(s) /\ Head(stack[s]).of < g.of
  BY <1>1, <1>2 DEF OnStack
<1>4. Descends(stack[s])'
  BY <1>1, <1>2 DEF Descends
<1>5. QED
  BY <1>3, <1>4 DEF FramesKnown

LEMMA BecomeKnown ==
    ASSUME TypeOK, NEW s \in Source, stack[s] # <<>>, NEW f \in Frame, Become(s, f),
           Descends(stack[s]), f.of = Head(stack[s]).of,
           \A g \in OnStack(s) : Head(stack[s]).of < g.of => FrameKnown(s, g)',
           FrameKnown(s, f)'
    PROVE  FramesKnown(s)'
<1>1. stack[s] \in Seq(Frame) /\ Tail(stack[s]) \in Seq(Frame) /\ stack'[s] = <<f>> \o Tail(stack[s])
  BY OneLess DEF TypeOK, Become
<1>2. /\ Descends(Tail(stack[s]))
      /\ \A i \in 1 .. Len(Tail(stack[s])) :
            /\ Head(stack[s]).of < Tail(stack[s])[i].of
            /\ \E j \in 1 .. Len(stack[s]) : Tail(stack[s])[i] = stack[s][j]
  BY <1>1, TailDescends
<1> DEFINE rest == Tail(stack[s])
<1>3. /\ rest \in Seq(Frame) /\ Descends(rest)
      /\ \A i \in 1 .. Len(rest) : Head(stack[s]).of < rest[i].of /\ rest[i] \in OnStack(s)
  BY <1>1, <1>2 DEF OnStack
<1> HIDE DEF rest
<1>4. rest = <<>> \/ f.of < Head(rest).of
  <2>1. rest # <<>> => Head(rest) = rest[1] /\ 1 \in 1 .. Len(rest)
    BY <1>3, OneLess
  <2>2. QED
    BY <1>3, <2>1
<1> DEFINE now == <<f>> \o rest
<1>5. Descends(now) /\ \A i \in 1 .. Len(now) : now[i] = f \/ \E j \in 1 .. Len(rest) : now[i] = rest[j]
  BY <1>3, <1>4, PushDescends
<1>6. stack'[s] = now
  BY <1>1 DEF rest
<1> HIDE DEF now
<1>7. \A g \in OnStack(s)' : g = f \/ (g \in OnStack(s) /\ Head(stack[s]).of < g.of)
  <2> SUFFICES ASSUME NEW g \in OnStack(s)', g # f
               PROVE  g \in OnStack(s) /\ Head(stack[s]).of < g.of
    OBVIOUS
  <2>1. PICK i \in 1 .. Len(now) : g = now[i]
    BY <1>6 DEF OnStack
  <2>2. PICK j \in 1 .. Len(rest) : now[i] = rest[j]
    BY <1>5, <2>1
  <2>3. QED
    BY <1>3, <2>1, <2>2
<1>8. Descends(stack[s])'
  BY <1>5, <1>6
<1>9. QED
  BY <1>7, <1>8 DEF FramesKnown

\* A step that touches neither the caches nor the frames, or ends the recursion.
LEMMA RestKept ==
    ASSUME StoreInv, StoreInv', NEW s \in Source, SourceKnows(s), DbGrows,
           CallKnows(s, call[s])', MineStored(s)', caches' = caches,
           stack'[s] = stack[s] \/ stack'[s] = <<>>
    PROVE  SourceKnows(s)'
<1>0. TypeOK
  BY DEF StoreInv
<1>1. CachesGrow(s)
  BY DEF caches, CachesGrow
<1>2. \A n \in Name : NameKnown(s, n)'
  BY NameKept DEF caches, SourceKnows
<1>3. \A d \in DataSetId : OwnerEarlier(s, d)' /\ ListKnown(s, d)'
  <2> SUFFICES ASSUME NEW d \in DataSetId
               PROVE  OwnerEarlier(s, d)' /\ ListKnown(s, d)'
    OBVIOUS
  <2>1. OwnerEarlier(s, d)'
    BY DEF caches, SourceKnows, OwnerEarlier
  <2>2. CASE parents[s][d] # None
    BY <1>1, <2>1, <2>2, ListKept DEF SourceKnows
  <2>3. CASE parents[s][d] = None
    BY <2>1, <2>3 DEF ListKnown, caches
  <2>4. QED
    BY <2>2, <2>3
<1>4. CASE stack'[s] = stack[s]
  <2>1. OnStack(s)' = OnStack(s) /\ Descends(stack[s])'
    BY <1>4 DEF OnStack, Descends, SourceKnows
  <2>2. ASSUME NEW f \in OnStack(s)
        PROVE  FrameKnown(s, f)'
    <3>1. f \in Frame
      BY <1>0, ElementOfSeq DEF OnStack, TypeOK
    <3>2. FrameKnown(s, f)
      BY DEF SourceKnows
    <3>3. QED
      BY <1>1, <3>1, <3>2, FrameKept DEF SourceKnows, caches, FrameKnown
  <2>3. QED
    BY <1>2, <1>3, <2>1, <2>2 DEF SourceKnows
<1>5. CASE stack'[s] = <<>>
  <2>1. OnStack(s)' = {} /\ Descends(stack[s])'
    BY <1>5 DEF OnStack, Descends
  <2>2. QED
    BY <1>2, <1>3, <2>1 DEF SourceKnows
<1>6. QED
  BY <1>4, <1>5

\* While the caches of s grow, its lists stay known, and so do the frames whose
\* work is still to be done.
LEMMA GrowKept ==
    ASSUME StoreInv, StoreInv', NEW s \in Source, SourceKnows(s), DbGrows, CachesGrow(s)
    PROVE  /\ \A d \in DataSetId : parents[s][d] # None => ListKnown(s, d)'
           /\ \A f \in OnStack(s) :
                 (/\ f.step = "detail" => details'[s][f.of] = None
                  /\ f.step # "detail" => parents'[s][f.of] = None) => FrameKnown(s, f)'
<1>1. \A d \in DataSetId : ListKnown(s, d)
  BY DEF SourceKnows
<1>2. \A f \in OnStack(s) : f \in Frame /\ FrameKnown(s, f)
  BY ElementOfSeq DEF OnStack, SourceKnows, StoreInv, TypeOK
<1>3. QED
  BY <1>1, <1>2, ListKept, FrameKept

LEMMA GrowKnows ==
    ASSUME StoreInv, StoreInv', NEW s \in Source, SourceKnows(s), DbGrows, CachesGrow(s),
           call'[s] = call[s], mine'[s] = mine[s], names'[s] = names[s],
           \A r \in DataSetRecords : owners[s][r.id] = r.data_set => owners'[s][r.id] = r.data_set,
           \A d \in DataSetId : OwnerEarlier(s, d)',
           \A d \in DataSetId : parents[s][d] = None => ListKnown(s, d)',
           FramesKnown(s)'
    PROVE  SourceKnows(s)'
<1>1. CallKnows(s, call[s])' /\ MineStored(s)'
  BY SameKnows, MineKept DEF SourceKnows
<1>2. \A n \in Name : NameKnown(s, n)'
  BY NameKept DEF SourceKnows
<1>3. \A d \in DataSetId : ListKnown(s, d)'
  BY GrowKept
<1>4. QED
  BY <1>1, <1>2, <1>3 DEF SourceKnows, FramesKnown

\* A frame that a call of the recursion starts with.
LEMMA StartKnown ==
    ASSUME NEW s \in Source
    PROVE  /\ \A n \in DataSetId : n # Root =>
                 /\ details'[s][n] = None => FrameKnown(s, DetailFrame(n))'
                 /\ parents'[s][n] = None => FrameKnown(s, LookupFrame(n))'
           /\ \A r \in DataSetRecords' : r.id # Root /\ parents'[s][r.id] = None =>
                 FrameKnown(s, LoadedFrame(r))' /\ FrameKnown(s, BuildFrame(r, {}))'
<1>1. \A n \in DataSetId : n # Root =>
         /\ details'[s][n] = None => FrameKnown(s, DetailFrame(n))'
         /\ parents'[s][n] = None => FrameKnown(s, LookupFrame(n))'
  BY DEF FrameKnown, DetailFrame, LookupFrame
<1>2. \A r \in DataSetRecords' : r.id # Root /\ parents'[s][r.id] = None =>
         FrameKnown(s, LoadedFrame(r))' /\ FrameKnown(s, BuildFrame(r, {}))'
  BY DEF FrameKnown, LoadedFrame, BuildFrame
<1>3. QED
  BY <1>1, <1>2

\* The innermost frame.
LEMMA HeadKnown ==
    ASSUME TypeOK, NEW s \in Source, SourceKnows(s), stack[s] # <<>>
    PROVE  LET f == Head(stack[s]) IN
           /\ f \in Frame /\ f \in OnStack(s) /\ FrameKnown(s, f) /\ f.of \in DataSetId
           /\ Descends(stack[s])
<1>1. stack[s] \in Seq(Frame)
  BY DEF TypeOK
<1>2. Head(stack[s]) = stack[s][1] /\ 1 \in 1 .. Len(stack[s])
  BY <1>1, OneLess
<1>3. Head(stack[s]) \in OnStack(s) /\ Head(stack[s]) \in Frame
  BY <1>1, <1>2, ElementOfSeq DEF OnStack
<1>4. QED
  BY <1>3 DEF SourceKnows, Frame

LEMMA BelowHead ==
    ASSUME TypeOK, NEW s \in Source, stack[s] # <<>>,
           NEW g \in OnStack(s), Head(stack[s]).of < g.of
    PROVE  g.of \in DataSetId /\ g.of # Head(stack[s]).of
<1>1. g \in Frame
  BY ElementOfSeq DEF OnStack, TypeOK
<1>2. g.of \in DataSetId /\ Head(stack[s]).of \in DataSetId
  BY <1>1, HeadFrame DEF Frame
<1>3. QED
  BY <1>2 DEF DataSetId

\* The dataset that a data source caches is stored: save_data_set and
\* get_data_set_or_empty keep what is known.
LEMMA CacheDataSetKnows ==
    ASSUME StoreInv, StoreInv', NEW s \in Source, SourceKnows(s), db' = db,
           CallKnows(s, call[s])', MineStored(s)', stack[s] = <<>>,
           NEW r \in DataSetRecords, IsDataSetKey(r.key), BeforeCutoff(r.id, cutoff_time[s]),
           CacheDataSet(s, r)
    PROVE  SourceKnows(s)'
<1>1. PICK n \in Name : r.key = DataSetKeyOf(n) /\ r.key[2] = n
  BY DEF IsDataSetKey, DataSetKeyOf
<1>2. /\ r \in db /\ r \in Record /\ r.id \in DataSetId /\ r.data_set \in DataSetId /\ r.id # Root
      /\ r.data_set < r.id /\ \A q \in DataSetRecords : q.id = r.id => q = r
      /\ \A q \in DataSetRecords : q.id \in DataSetId
  BY StoredIds
<1>3. DataSetRecords' = DataSetRecords /\ TypeOK
  BY DEF DataSetRecords, StoreInv
<1>4. /\ \A m \in Name : names'[s][m] = IF m = n THEN r.id ELSE names[s][m]
      /\ \A d \in DataSetId : owners'[s][d] = IF d = r.id THEN r.data_set ELSE owners[s][d]
  BY <1>1, <1>2, <1>3 DEF CacheDataSet, TypeOK
<1>5. details' = details /\ parents' = parents /\ DbGrows
  BY DEF CacheDataSet, DbGrows
<1>6. \A m \in Name : NameKnown(s, m)'
  <2> SUFFICES ASSUME NEW m \in Name, names'[s][m] # None
               PROVE  \E q \in DataSetRecords :
                        /\ q.id = names'[s][m] /\ q.key = DataSetKeyOf(m)
                        /\ owners'[s][q.id] = q.data_set
                        /\ BeforeCutoff(q.id, cutoff_time[s])
    BY <1>3 DEF NameKnown
  <2>1. CASE m = n
    BY <1>1, <1>2, <1>4, <2>1
  <2>2. CASE m # n
    <3>1. NameKnown(s, m) /\ names[s][m] # None
      BY <1>4, <2>2 DEF SourceKnows
    <3>2. QED
      BY <1>2, <1>4, <2>2, <3>1 DEF NameKnown
  <2>3. QED
    BY <2>1, <2>2
<1>7. \A d \in DataSetId : OwnerEarlier(s, d)'
  BY <1>2, <1>4 DEF OwnerEarlier, SourceKnows
<1>8. CachesGrow(s)
  BY <1>5 DEF CachesGrow
<1>9. \A d \in DataSetId : ListKnown(s, d)'
  <2>1. \A d \in DataSetId : parents[s][d] # None => ListKnown(s, d)'
    BY <1>5, <1>8, GrowKept
  <2>2. QED
    BY <1>5, <2>1 DEF ListKnown
<1>10. OnStack(s) = {} /\ Descends(stack[s])
  BY DEF OnStack, SourceKnows
<1>11. FramesKnown(s)'
  <2>1. CASE parents[s][r.id] = None
    <3>1. Push(s, BuildFrame(r, {})) /\ BuildFrame(r, {}) \in Frame
      BY <1>2, <2>1, FrameTypes DEF CacheDataSet
    <3>2. FrameKnown(s, BuildFrame(r, {}))'
      BY <1>2, <1>3, <1>5, <2>1, StartKnown
    <3>3. PICK f \in Frame : f = BuildFrame(r, {})
      BY <3>1
    <3>4. FrameKnown(s, f)'
      BY <3>2, <3>3
    <3>5. QED
      BY <1>3, <1>10, <3>1, <3>3, <3>4, PushKnown
  <2>2. CASE parents[s][r.id] # None
    <3>1. stack'[s] = <<>>
      BY <2>2 DEF CacheDataSet
    <3>2. QED
      BY <3>1 DEF FramesKnown, OnStack, Descends
  <2>3. QED
    BY <2>1, <2>2
<1>12. QED
  BY <1>6, <1>7, <1>9, <1>11 DEF SourceKnows, FramesKnown

-----------------------------------------------------------------------------
\* The recursive methods on datasets.

LEMMA DetailKnows ==
    ASSUME StoreInv, StoreInv', NEW s \in Source, SourceKnows(s), ResolveDetail(s)
    PROVE  SourceKnows(s)'
<1>1. PICK n, owner : n = Head(stack[s]).of /\ owner = OwnerOf(s, n)
  OBVIOUS
<1>2. TypeOK /\ stack[s] # <<>> /\ Head(stack[s]).step = "detail"
  BY DEF ResolveDetail, At, StoreInv
<1>3. n \in DataSetId /\ n # Root /\ details[s][n] = None /\ Descends(stack[s])
  BY <1>1, <1>2, HeadKnown DEF FrameKnown
<1>4. owner \in DataSetId /\ owner < n
  <2>1. CASE owners[s][n] = None
    BY <1>1, <1>3, <2>1, RootType, ConstantsAssumption DEF OwnerOf, Root, DataSetId, ConstantsAssumption
  <2>2. CASE owners[s][n] # None
    BY <1>1, <1>2, <1>3, <2>2 DEF OwnerOf, SourceKnows, OwnerEarlier, TypeOK
  <2>3. QED
    BY <2>1, <2>2
<1>5. PICK found : found = Settings(LoadByKey(s, DataSetDetailKeyOf(n), owner))
  OBVIOUS
<1>6. /\ owners' = [owners EXCEPT ![s][n] = owner]
      /\ \/ ~HasLookupList(s, owner) /\ Push(s, LookupFrame(owner)) /\ details' = details
         \/ ~HasDetail(s, owner) /\ Push(s, DetailFrame(owner)) /\ details' = details
         \/ details' = [details EXCEPT ![s][n] = found] /\ Pop(s)
      /\ UNCHANGED <<db, names, parents, call, mine>>
  BY <1>1, <1>5 DEF ResolveDetail
<1>7. \A d \in DataSetId : owners'[s][d] = IF d = n THEN owner ELSE owners[s][d]
  BY <1>2, <1>3, <1>6 DEF TypeOK
<1>8. \A d \in DataSetId : OwnerEarlier(s, d)'
  BY <1>4, <1>7 DEF OwnerEarlier, SourceKnows
<1>9. \A r \in DataSetRecords : owners[s][r.id] = r.data_set => owners'[s][r.id] = r.data_set
  <2>1. \A r \in DataSetRecords : r.id \in DataSetId /\ r.data_set \in DataSetId
    BY StoredIds
  <2>2. None \notin DataSetId
    BY ConstantsAssumption DEF DataSetId, ConstantsAssumption
  <2>3. QED
    BY <1>1, <1>7, <2>1, <2>2 DEF OwnerOf
<1>10. \A d \in DataSetId : d # n => details'[s][d] = details[s][d]
  BY <1>2, <1>3, <1>6 DEF TypeOK
<1>11. CachesGrow(s) /\ DbGrows
  BY <1>3, <1>6, <1>10 DEF CachesGrow, DbGrows
<1>12. FramesKnown(s)'
  <2>1. CASE ~HasLookupList(s, owner) /\ Push(s, LookupFrame(owner)) /\ details' = details
    <3>1. PICK f \in Frame : f = LookupFrame(owner)
      BY <1>4, FrameTypes
    <3>2. f.of < Head(stack[s]).of
      BY <1>1, <1>4, <3>1 DEF LookupFrame
    <3>3. FrameKnown(s, f)'
      BY <1>4, <1>6, <2>1, <3>1, StartKnown DEF HasLookupList
    <3>4. \A g \in OnStack(s) : FrameKnown(s, g)'
      BY <1>6, <1>11, <2>1, GrowKept DEF SourceKnows, FrameKnown
    <3>5. QED
      BY <1>2, <1>3, <2>1, <3>1, <3>2, <3>3, <3>4, PushKnown
  <2>2. CASE ~HasDetail(s, owner) /\ Push(s, DetailFrame(owner)) /\ details' = details
    <3>1. PICK f \in Frame : f = DetailFrame(owner)
      BY <1>4, FrameTypes
    <3>2. f.of < Head(stack[s]).of
      BY <1>1, <1>4, <3>1 DEF DetailFrame
    <3>3. FrameKnown(s, f)'
      BY <1>4, <2>2, <3>1, StartKnown DEF HasDetail
    <3>4. \A g \in OnStack(s) : FrameKnown(s, g)'
      BY <1>6, <1>11, <2>2, GrowKept DEF SourceKnows, FrameKnown
    <3>5. QED
      BY <1>2, <1>3, <2>2, <3>1, <3>2, <3>3, <3>4, PushKnown
  <2>3. CASE Pop(s)
    <3>1. ASSUME NEW g \in OnStack(s), Head(stack[s]).of < g.of
          PROVE  FrameKnown(s, g)'
      <4>1. g.of \in DataSetId /\ g.of # n /\ FrameKnown(s, g)
        BY <1>1, <1>2, <3>1, BelowHead DEF SourceKnows
      <4>2. QED
        BY <1>6, <1>10, <1>11, <4>1, GrowKept DEF FrameKnown
    <3>2. QED
      BY <1>2, <1>3, <2>3, <3>1, PopKnown
  <2>4. QED
    BY <1>6, <2>1, <2>2, <2>3
<1>13. \A d \in DataSetId : parents[s][d] = None => ListKnown(s, d)'
  BY <1>6 DEF ListKnown
<1>14. QED
  BY <1>6, <1>8, <1>9, <1>11, <1>12, <1>13, GrowKnows

\* Steps of the recursion that leave the caches alone.
LEMMA FrameStepKnows ==
    ASSUME StoreInv, StoreInv', NEW s \in Source, SourceKnows(s),
           UNCHANGED <<db, names, owners, details, parents, call, mine>>, FramesKnown(s)'
    PROVE  SourceKnows(s)'
<1>1. CachesGrow(s) /\ DbGrows
  BY DEF CachesGrow, DbGrows
<1>2. \A d \in DataSetId : OwnerEarlier(s, d)'
  BY DEF OwnerEarlier, SourceKnows
<1>3. \A d \in DataSetId : parents[s][d] = None => ListKnown(s, d)'
  BY DEF ListKnown
<1>4. QED
  BY <1>1, <1>2, <1>3, GrowKnows

LEMMA FramesStay ==
    ASSUME StoreInv, StoreInv', NEW s \in Source, SourceKnows(s),
           UNCHANGED <<db, details, parents>>
    PROVE  \A g \in OnStack(s) : FrameKnown(s, g)'
<1>1. CachesGrow(s) /\ DbGrows
  BY DEF CachesGrow, DbGrows
<1>2. QED
  BY <1>1, GrowKept DEF SourceKnows, FrameKnown

LEMMA ThrowKeeps ==
    ASSUME StoreInv, StoreInv', NEW s \in Source, SourceKnows(s), Throw(s),
           UNCHANGED <<db, caches, mine>>
    PROVE  SourceKnows(s)'
<1>1. CallKnows(s, call[s])' /\ DbGrows /\ MineStored(s)'
  BY ThrowKnows DEF StoreInv, DbGrows, SourceKnows, MineStored
<1>2. stack'[s] = <<>>
  BY DEF Throw, StoreInv, TypeOK
<1>3. QED
  BY <1>1, <1>2, RestKept

\* A call of the recursion for an earlier dataset, from the top of the stack or
\* from the public method.
LEMMA PushStepKnows ==
    ASSUME StoreInv, StoreInv', NEW s \in Source, SourceKnows(s),
           UNCHANGED <<db, caches, call, mine>>,
           NEW n \in DataSetId, stack[s] = <<>> \/ n < Head(stack[s]).of,
           \/ ~HasDetail(s, n) /\ Push(s, DetailFrame(n))
           \/ ~HasLookupList(s, n) /\ Push(s, LookupFrame(n))
    PROVE  SourceKnows(s)'
<1>1. UNCHANGED <<names, owners, details, parents>>
  BY DEF caches
<1>2. PICK f \in Frame : /\ f = DetailFrame(n) \/ f = LookupFrame(n)
                         /\ f = DetailFrame(n) => ~HasDetail(s, n)
                         /\ f = LookupFrame(n) => ~HasLookupList(s, n)
                         /\ Push(s, f)
  <2>1. DetailFrame(n) # LookupFrame(n)
    BY DEF DetailFrame, LookupFrame
  <2>2. QED
    BY <2>1, FrameTypes
<1>3. f.of = n
  BY <1>2 DEF DetailFrame, LookupFrame
<1>4. FrameKnown(s, f)'
  BY <1>1, <1>2, StartKnown DEF HasDetail, HasLookupList
<1>5. FramesKnown(s)'
  BY <1>1, <1>2, <1>3, <1>4, FramesStay, PushKnown DEF StoreInv, SourceKnows
<1>6. QED
  BY <1>1, <1>5, FrameStepKnows

LEMMA BecomeStepKnows ==
    ASSUME StoreInv, StoreInv', NEW s \in Source, SourceKnows(s), stack[s] # <<>>,
           UNCHANGED <<db, caches, call, mine>>,
           NEW f \in Frame, f.of = Head(stack[s]).of, Become(s, f), FrameKnown(s, f)'
    PROVE  SourceKnows(s)'
<1>1. UNCHANGED <<names, owners, details, parents>>
  BY DEF caches
<1>2. FramesKnown(s)'
  BY <1>1, FramesStay, BecomeKnown DEF StoreInv, SourceKnows
<1>3. QED
  BY <1>1, <1>2, FrameStepKnows

LEMMA LookupKnows ==
    ASSUME StoreInv, StoreInv', NEW s \in Source, SourceKnows(s), ResolveLookup(s)
    PROVE  SourceKnows(s)'
<1>1. TypeOK /\ stack[s] # <<>> /\ Head(stack[s]).step = "lookup" /\ UNCHANGED <<db, caches, mine>>
  BY DEF ResolveLookup, At, StoreInv
<1>2. CASE Throw(s)
  BY <1>1, <1>2, ThrowKeeps
<1>3. ASSUME NEW r \in LoadById(Head(stack[s]).of, "DataSet"), Become(s, LoadedFrame(r)), call' = call
      PROVE  SourceKnows(s)'
  <2>1. r \in DataSetRecords /\ r.id = Head(stack[s]).of
    BY DEF LoadById, DataSetRecords
  <2>2. r.id # Root /\ parents[s][r.id] = None
    BY <1>1, <2>1, HeadKnown DEF FrameKnown
  <2>3. PICK f \in Frame : f = LoadedFrame(r)
    BY <2>1, StoredIds, FrameTypes
  <2>4. f.of = Head(stack[s]).of
    BY <2>1, <2>3 DEF LoadedFrame
  <2>5. r \in DataSetRecords' /\ parents'[s][r.id] = None
    BY <1>1, <2>1, <2>2 DEF DataSetRecords, caches
  <2>6. FrameKnown(s, f)'
    BY <2>2, <2>3, <2>5, StartKnown
  <2>7. QED
    BY <1>1, <1>3, <2>3, <2>4, <2>6, BecomeStepKnows
<1>4. QED
  BY <1>2, <1>3, Zenon DEF ResolveLookup

LEMMA HeadRecordKnown ==
    ASSUME StoreInv, NEW s \in Source, SourceKnows(s), At(s, "loaded") \/ At(s, "build")
    PROVE  LET f == Head(stack[s]) IN
           /\ stack[s] # <<>> /\ f \in Frame /\ f.rec \in DataSetRecords
           /\ f.rec.id = f.of /\ f.rec.id # Root /\ parents[s][f.rec.id] = None
           /\ f.rec \in Record /\ f.rec.id \in DataSetId
           /\ f.rec.data_set \in DataSetId /\ f.rec.data_set < f.rec.id
           /\ f.rec.imports \in SUBSET DataSetId /\ \A i \in f.rec.imports : i < f.rec.id
           /\ \A q \in DataSetRecords : q.id = f.rec.id => q = f.rec
           /\ f.acc \in SUBSET DataSetId
<1>1. stack[s] # <<>> /\ Head(stack[s]).step \in {"loaded", "build"} /\ TypeOK
  BY DEF At, StoreInv
<1>2. Head(stack[s]) \in Frame /\ FrameKnown(s, Head(stack[s]))
  BY <1>1, HeadKnown
<1>3. Head(stack[s]).acc \in SUBSET DataSetId
  BY <1>1, HeadRecord
<1>4. QED
  BY <1>1, <1>2, <1>3, StoredIds DEF FrameKnown

LEMMA LoadedKnows ==
    ASSUME StoreInv, StoreInv', NEW s \in Source, SourceKnows(s), ResolveLoaded(s)
    PROVE  SourceKnows(s)'
<1>1. PICK r : r = Head(stack[s]).rec
  OBVIOUS
<1>2. /\ stack[s] # <<>> /\ r \in DataSetRecords /\ r.id = Head(stack[s]).of /\ r.id # Root
      /\ parents[s][r.id] = None /\ r \in Record /\ r.data_set \in DataSetId /\ r.data_set < r.id
  BY <1>1, HeadRecordKnown DEF ResolveLoaded
<1>3. UNCHANGED <<db, caches, mine>>
  BY DEF ResolveLoaded
<1>4. CASE Throw(s)
  BY <1>3, <1>4, ThrowKeeps
<1>5. CASE ~HasDetail(s, r.data_set) /\ Push(s, DetailFrame(r.data_set)) /\ call' = call
  BY <1>2, <1>3, <1>5, PushStepKnows
<1>6. CASE Become(s, BuildFrame(r, {})) /\ call' = call
  <2>1. PICK f \in Frame : f = BuildFrame(r, {})
    BY <1>2, FrameTypes
  <2>2. r \in DataSetRecords' /\ parents'[s][r.id] = None
    BY <1>2, <1>3 DEF DataSetRecords, caches
  <2>3. FrameKnown(s, f)' /\ f.of = r.id
    BY <1>2, <2>1, <2>2, StartKnown DEF BuildFrame
  <2>4. QED
    BY <1>2, <1>3, <1>6, <2>1, <2>3, BecomeStepKnows
<1>7. QED
  BY <1>1, <1>4, <1>5, <1>6 DEF ResolveLoaded

\* The list of the innermost frame is finished, and cached.
LEMMA ListedKnows ==
    ASSUME StoreInv, StoreInv', NEW s \in Source, SourceKnows(s), At(s, "build"),
           NEW L \in SUBSET DataSetId,
           parents' = [parents EXCEPT ![s][Head(stack[s]).rec.id] = L], Pop(s),
           UNCHANGED <<db, names, owners, details, call, mine>>,
           LET r == Head(stack[s]).rec IN
           /\ HasDetail(s, r.data_set)
           /\ IF Follows(s, r) THEN Gathered(s, r.id, L) /\ r.imports \subseteq L ELSE L = {}
    PROVE  SourceKnows(s)'
<1>1. PICK r : r = Head(stack[s]).rec
  OBVIOUS
<1>2. /\ stack[s] # <<>> /\ r \in DataSetRecords /\ r.id = Head(stack[s]).of
      /\ parents[s][r.id] = None /\ r \in Record /\ r.id \in DataSetId
  BY <1>1, HeadRecordKnown
<1>3. \A d \in DataSetId : parents'[s][d] = IF d = r.id THEN L ELSE parents[s][d]
  BY <1>1, <1>2 DEF StoreInv, TypeOK
<1>4. CachesGrow(s) /\ DbGrows
  BY <1>2, <1>3 DEF CachesGrow, DbGrows
<1>5. HasDetail(s, r.data_set)' /\ (Follows(s, r)' <=> Follows(s, r))
  BY <1>1, <1>2, <1>4, FollowsStep DEF StoreInv
<1>6. Follows(s, r) => Gathered(s, r.id, L)'
  <2>1. \A d \in DataSetId : ListKnown(s, d)
    BY DEF SourceKnows
  <2>2. QED
    BY <1>1, <1>2, <1>4, <2>1, GatheredKept
<1>7. ListKnown(s, r.id)'
  <2>1. r \in DataSetRecords' /\ parents'[s][r.id] = L
    BY <1>2, <1>3 DEF DataSetRecords
  <2>2. Follows(s, r)' => Gathered(s, r.id, parents[s][r.id])' /\ r.imports \subseteq parents'[s][r.id]
    BY <1>1, <1>5, <1>6, <2>1 DEF Gathered
  <2>3. ~Follows(s, r)' => parents'[s][r.id] = {}
    BY <1>1, <1>5, <2>1
  <2>4. QED
    BY <1>5, <2>1, <2>2, <2>3 DEF ListKnown
<1>8. \A d \in DataSetId : parents[s][d] = None => ListKnown(s, d)'
  <2> SUFFICES ASSUME NEW d \in DataSetId, parents[s][d] = None, d # r.id
               PROVE  ListKnown(s, d)'
    BY <1>7
  <2>1. parents'[s][d] = None
    BY <1>3
  <2>2. QED
    BY <2>1 DEF ListKnown
<1>9. FramesKnown(s)'
  <2>1. TypeOK /\ Descends(stack[s])
    BY DEF StoreInv, SourceKnows
  <2>2. ASSUME NEW g \in OnStack(s), Head(stack[s]).of < g.of
        PROVE  FrameKnown(s, g)'
    <3>1. g.of \in DataSetId /\ g.of # r.id /\ FrameKnown(s, g)
      BY <1>2, <2>1, <2>2, BelowHead DEF SourceKnows
    <3>2. parents'[s][g.of] = parents[s][g.of] /\ details'[s][g.of] = details[s][g.of]
      BY <1>3, <3>1
    <3>3. QED
      BY <1>4, <3>1, <3>2, GrowKept DEF FrameKnown
  <2>3. QED
    BY <1>2, <2>1, <2>2, PopKnown
<1>10. \A d \in DataSetId : OwnerEarlier(s, d)'
  BY DEF OwnerEarlier, SourceKnows
<1>11. QED
  BY <1>4, <1>8, <1>9, <1>10, GrowKnows

LEMMA BuildSelfKnows ==
    ASSUME StoreInv, StoreInv', NEW s \in Source, SourceKnows(s), BuildSelf(s)
    PROVE  SourceKnows(s)'
<1>1. PICK r : r = Head(stack[s]).rec
  OBVIOUS
<1>2. /\ stack[s] # <<>> /\ r \in DataSetRecords /\ r.id = Head(stack[s]).of /\ r.id # Root
      /\ parents[s][r.id] = None /\ r \in Record /\ r.data_set \in DataSetId /\ r.data_set < r.id
      /\ r.id \in DataSetId
  BY <1>1, HeadRecordKnown DEF BuildSelf
<1>3. UNCHANGED <<db, issued, prev, names, owners, details, call, mine>> /\ At(s, "build")
  BY DEF BuildSelf
<1>4. CASE ~HasDetail(s, r.data_set) /\ Push(s, DetailFrame(r.data_set)) /\ parents' = parents
  BY <1>2, <1>3, <1>4, PushStepKnows DEF caches
<1>5. CASE /\ HasDetail(s, r.data_set) /\ BeforeCutoff(r.id, CutoffTime(s, r.data_set))
           /\ Become(s, BuildFrame(r, {r.id})) /\ parents' = parents
  <2>1. PICK f \in Frame : f = BuildFrame(r, {r.id})
    BY <1>2, FrameTypes
  <2>2. r \in DataSetRecords' /\ parents'[s][r.id] = None
    BY <1>2, <1>3, <1>5 DEF DataSetRecords
  <2>3. Follows(s, r)'
    BY <1>3, <1>5 DEF Follows, HasDetail, CutoffTime, DataSetDetailOf
  <2>4. Gathered(s, r.id, {r.id})'
    BY <1>2 DEF Gathered, DataSetId
  <2>5. FrameKnown(s, f)' /\ f.of = r.id
    BY <1>2, <2>1, <2>2, <2>3, <2>4 DEF FrameKnown, BuildFrame
  <2>6. QED
    BY <1>2, <1>3, <1>5, <2>1, <2>5, BecomeStepKnows DEF caches
<1>6. CASE /\ HasDetail(s, r.data_set) /\ ~BeforeCutoff(r.id, CutoffTime(s, r.data_set))
           /\ parents' = [parents EXCEPT ![s][r.id] = {}] /\ Pop(s)
  <2>1. PICK L \in SUBSET DataSetId : L = {}
    OBVIOUS
  <2>2. parents' = [parents EXCEPT ![s][Head(stack[s]).rec.id] = L] /\ Pop(s)
    BY <1>1, <1>6, <2>1
  <2>3. LET q == Head(stack[s]).rec IN HasDetail(s, q.data_set) /\ ~Follows(s, q)
    BY <1>1, <1>6 DEF Follows
  <2>4. QED
    BY <1>3, <2>1, <2>2, <2>3, ListedKnows
<1>7. QED
  BY <1>1, <1>4, <1>5, <1>6 DEF BuildSelf

\* The lookup list of an import is added to that of the dataset.
LEMMA ImportGathered ==
    ASSUME StoreInv, NEW s \in Source, \A d \in DataSetId : ListKnown(s, d),
           NEW r \in DataSetRecords, Follows(s, r), NEW acc \in SUBSET DataSetId,
           Gathered(s, r.id, acc), NEW i \in r.imports, HasLookupList(s, i)
    PROVE  /\ Gathered(s, r.id, WithImport(s, acc, i))
           /\ WithImport(s, acc, i) \in SUBSET DataSetId
<1> DEFINE List == LookupList(s, i)
           with == WithImport(s, acc, i)
<1>1. /\ r.id \in DataSetId /\ i \in DataSetId /\ i < r.id
      /\ \A q \in DataSetRecords : q.id \in DataSetId /\ q.id # Root
      /\ \A p \in DataSetRecords, q \in DataSetRecords : p.id = q.id => p = q
  BY StoredIds
<1>2. CASE i = Root
  <2>1. with = acc \cup {Root}
    BY <1>2 DEF WithImport, LookupList
  <2>2. \A x \in with : x <= r.id /\ (x # r.id => HasLookupList(s, x))
    <3>1. Root <= r.id
      BY <1>1, <1>2 DEF DataSetId
    <3>2. QED
      BY <1>2, <2>1, <3>1 DEF Gathered
  <2>3. \A q \in DataSetRecords : q.id \in with /\ q.id # r.id /\ Follows(s, q) => q.imports \subseteq with
    BY <1>1, <2>1 DEF Gathered
  <2>4. \A S \in SUBSET DataSetId : r.id \in S /\ ImportsWithin(s, S) => with \subseteq S
    BY <1>2, <2>1 DEF Gathered, ImportsWithin
  <2>5. QED
    BY <1>1, <1>2, <2>1, <2>2, <2>3, <2>4 DEF Gathered
<1>3. CASE i # Root
  <2>1. parents[s][i] # None /\ List = parents[s][i] /\ with = acc \cup {i} \cup List
    BY <1>3 DEF HasLookupList, LookupList, WithImport
  <2>2. PICK p \in DataSetRecords :
          /\ p.id = i
          /\ IF Follows(s, p) THEN Gathered(s, i, List) /\ p.imports \subseteq List ELSE List = {}
    BY <1>1, <2>1 DEF ListKnown
  <2>3. List \in SUBSET DataSetId
    BY <1>1, <2>1 DEF StoreInv, TypeOK
  <2> HIDE DEF List, with
  <2>4. \A x \in List : x < r.id /\ HasLookupList(s, x)
    <3> SUFFICES ASSUME NEW x \in List PROVE x < r.id /\ HasLookupList(s, x)
      OBVIOUS
    <3>1. x <= i /\ (x # i => HasLookupList(s, x))
      BY <2>2 DEF Gathered
    <3>2. QED
      BY <1>1, <2>3, <3>1 DEF DataSetId
  <2>5. \A x \in with : x <= r.id /\ (x # r.id => HasLookupList(s, x))
    <3> SUFFICES ASSUME NEW x \in with PROVE x <= r.id /\ (x # r.id => HasLookupList(s, x))
      OBVIOUS
    <3>1. CASE x \in acc
      BY <3>1 DEF Gathered
    <3>2. CASE x = i
      BY <1>1, <3>2 DEF DataSetId
    <3>3. CASE x \in List
      BY <1>1, <2>3, <2>4, <3>3 DEF DataSetId
    <3>4. QED
      BY <2>1, <3>1, <3>2, <3>3
  <2>6. \A q \in DataSetRecords : q.id \in with /\ q.id # r.id /\ Follows(s, q) => q.imports \subseteq with
    <3> SUFFICES ASSUME NEW q \in DataSetRecords, q.id \in with, q.id # r.id, Follows(s, q)
                 PROVE  q.imports \subseteq acc \/ q.imports \subseteq List
      BY <2>1
    <3>1. CASE q.id \in acc
      BY <3>1 DEF Gathered
    <3>2. CASE q.id = i
      BY <1>1, <2>2, <3>2
    <3>3. CASE q.id \in List /\ q.id # i
      BY <2>2, <3>3 DEF Gathered
    <3>4. QED
      BY <2>1, <3>1, <3>2, <3>3
  <2>7. \A S \in SUBSET DataSetId : r.id \in S /\ ImportsWithin(s, S) => with \subseteq S
    <3> SUFFICES ASSUME NEW S \in SUBSET DataSetId, r.id \in S, ImportsWithin(s, S)
                 PROVE  with \subseteq S
      OBVIOUS
    <3>1. acc \subseteq S
      BY DEF Gathered
    <3>2. i \in S
      BY DEF ImportsWithin
    <3>3. List \subseteq S
      BY <2>2, <3>2 DEF Gathered
    <3>4. QED
      BY <2>1, <3>1, <3>2, <3>3
  <2>8. QED
    BY <1>1, <2>1, <2>3, <2>5, <2>6, <2>7 DEF Gathered, with
<1>4. QED
  BY <1>2, <1>3

LEMMA BuildImportsKnows ==
    ASSUME StoreInv, StoreInv', NEW s \in Source, SourceKnows(s), BuildImports(s)
    PROVE  SourceKnows(s)'
<1>1. PICK r, acc : r = Head(stack[s]).rec /\ acc = Head(stack[s]).acc
  OBVIOUS
<1>2. UNCHANGED <<db, issued, prev, names, owners, details, call, mine>> /\ At(s, "build") /\ acc # {}
  BY <1>1 DEF BuildImports
<1>3. /\ stack[s] # <<>> /\ r \in DataSetRecords /\ r.id = Head(stack[s]).of /\ r.id # Root
      /\ parents[s][r.id] = None /\ r \in Record /\ r.id \in DataSetId
      /\ \A i \in r.imports : i \in DataSetId /\ i < r.id
      /\ acc \in SUBSET DataSetId
  BY <1>1, <1>2, HeadRecordKnown
<1>4. Follows(s, r) /\ Gathered(s, r.id, acc) /\ HasDetail(s, r.data_set)
  <2>1. FrameKnown(s, Head(stack[s])) /\ Head(stack[s]).step = "build"
    BY <1>2, <1>3, HeadKnown DEF At, StoreInv
  <2>2. QED
    BY <1>1, <1>2, <1>3, <2>1 DEF FrameKnown, Follows
<1>5. CASE ImportsLeft(r, acc) = {} /\ parents' = [parents EXCEPT ![s][r.id] = acc] /\ Pop(s)
  <2>1. r.imports \subseteq acc
    BY <1>5 DEF ImportsLeft
  <2>2. QED
    BY <1>1, <1>2, <1>3, <1>4, <1>5, <2>1, ListedKnows
<1>6. ASSUME NEW i \in ImportsLeft(r, acc), parents' = parents,
             ~HasLookupList(s, i), Push(s, LookupFrame(i))
      PROVE  SourceKnows(s)'
  <2>1. i \in DataSetId /\ i < Head(stack[s]).of
    BY <1>3 DEF ImportsLeft
  <2>2. QED
    BY <1>2, <1>6, <2>1, PushStepKnows DEF caches
<1>7. ASSUME NEW i \in ImportsLeft(r, acc), parents' = parents,
             HasLookupList(s, i), Become(s, BuildFrame(r, WithImport(s, acc, i)))
      PROVE  SourceKnows(s)'
  <2>1. i \in r.imports
    BY DEF ImportsLeft
  <2>2. PICK more \in SUBSET DataSetId : more = WithImport(s, acc, i) /\ Gathered(s, r.id, more)
    BY <1>3, <1>4, <1>7, <2>1, ImportGathered DEF SourceKnows
  <2>3. PICK f \in Frame : f = BuildFrame(r, more)
    BY <1>3, FrameTypes
  <2>4. f.of = r.id /\ f.step = "build" /\ f.rec = r /\ f.acc = more
    BY <2>3 DEF BuildFrame
  <2>5. FrameKnown(s, f)
    BY <1>3, <1>4, <2>2, <2>4 DEF FrameKnown
  <2>6. CachesGrow(s) /\ DbGrows
    BY <1>2, <1>7 DEF CachesGrow, DbGrows
  <2>7. FrameKnown(s, f)'
    BY <1>3, <1>7, <2>4, <2>5, <2>6, FrameKept DEF SourceKnows
  <2>8. QED
    BY <1>2, <1>3, <1>7, <2>2, <2>3, <2>4, <2>7, BecomeStepKnows DEF caches
<1>8. QED
  BY <1>1, <1>5, <1>6, <1>7 DEF BuildImports

LEMMA DemandKnows ==
    ASSUME StoreInv, StoreInv', NEW s \in Source, SourceKnows(s), Demand(s)
    PROVE  SourceKnows(s)'
<1>1. stack[s] = <<>> /\ UNCHANGED <<db, caches, call, mine>>
  BY DEF Demand
<1>2. PICK n \in DataSetId : \/ ~HasDetail(s, n) /\ Push(s, DetailFrame(n))
                             \/ ~HasLookupList(s, n) /\ Push(s, LookupFrame(n))
  <2>1. call[s].ds \in DataSetId
    BY DEF StoreInv, TypeOK, Call
  <2>2. call[s].phase = "found_id" => call[s].result \in Record
    BY DEF StoreInv, CallInv, CallShape
  <2>3. call[s].phase = "found_id" => call[s].result.data_set \in DataSetId
    BY <2>2 DEF Record
  <2>4. QED
    BY <2>1, <2>3 DEF Demand
<1>3. QED
  BY <1>1, <1>2, PushStepKnows

-----------------------------------------------------------------------------
\* Every step.

LEMMA RequestQuiet ==
    ASSUME NEW s \in Source, Request(s)
    PROVE  caches' = caches /\ mine' = mine /\ stack' = stack
<1>1. \A op, phase, key, ds, recs : Begin(s, op, phase, key, ds, recs) => UNCHANGED <<caches, mine, stack>>
  BY DEF Begin
<1>2. CASE SaveMany(s)
  <2> DEFINE new == {NewRecord(DataKeyOf(k), t) : k \in DataKey, t \in DataType}
  <2> HIDE DEF new
  <2>1. \E ds \in KnownTargets, n \in 1 .. MaxBatch :
          \E recs \in [1 .. n -> new] : Begin(s, "save", "check", None, ds, recs)
    BY <1>2 DEF SaveMany, new
  <2>2. QED
    BY <1>1, <2>1, Zenon
<1>3. CASE SaveDetail(s) \/ DeleteRecord(s) \/ LoadOrNull(s) \/ CreateDataSet(s) \/ GetDataSet(s)
  BY <1>1, <1>3, Zenon DEF SaveDetail, DeleteRecord, LoadOrNull, CreateDataSet, GetDataSet
<1>4. CASE LoadOrNullById(s) \/ GetCachedDataSet(s)
  BY <1>4, Zenon DEF LoadOrNullById, GetCachedDataSet
<1>5. QED
  BY <1>2, <1>3, <1>4 DEF Request

\* The steps of a public method that leave its caches alone.
LEMMA PlainStepKnows ==
    ASSUME StoreInv, StoreInv', NEW s \in Source, SourceKnows(s), DbGrows,
           \/ Request(s) \/ CheckNotReadOnly(s) \/ Assign(s) \/ Insert(s)
           \/ Find(s) \/ Built(s) \/ FoundId(s) \/ Return(s) \/ WriteFails(s) \/ ReadFails(s)
    PROVE  SourceKnows(s)'
<1>1. ASSUME CallKnows(s, call[s])', caches' = caches, mine' = mine,
             stack'[s] = stack[s] \/ stack'[s] = <<>>
      PROVE  SourceKnows(s)'
  <2>1. MineStored(s)'
    BY <1>1, MineKept DEF SourceKnows
  <2>2. QED
    BY <1>1, <2>1, RestKept
<1>2. CASE Request(s)
  BY <1>1, <1>2, RequestKnows, RequestQuiet
<1>3. CASE CheckNotReadOnly(s)
  <2>1. stack'[s] = stack[s] \/ stack'[s] = <<>>
    BY <1>3 DEF CheckNotReadOnly, Throw, StoreInv, TypeOK
  <2>2. caches' = caches /\ mine' = mine
    BY <1>3 DEF CheckNotReadOnly
  <2>3. QED
    BY <1>1, <1>3, <2>1, <2>2, CheckKnows
<1>4. CASE Assign(s)
  BY <1>1, <1>4, AssignKnows DEF Assign
<1>5. CASE Insert(s)
  BY <1>1, <1>5, InsertKnows DEF Insert
<1>6. CASE Find(s)
  BY <1>1, <1>6, FindKnows DEF Find
<1>7. CASE Built(s)
  <2> DEFINE c == [call[s] EXCEPT !.phase = "done"]
  <2>1. c.phase = "done" /\ c.result = call[s].result
    BY DEF StoreInv, TypeOK, Call
  <2>2. InTime(s, c.result)
    BY <2>1 DEF SourceKnows, CallKnows
  <2>3. call' = [call EXCEPT ![s] = c]
    BY <1>7 DEF Built, Proceed
  <2> HIDE DEF c
  <2>4. CallKnows(s, call[s])'
    BY <2>1, <2>2, <2>3, OverKnows DEF Writing, StoreInv
  <2>5. QED
    BY <1>1, <1>7, <2>4 DEF Built
<1>8. CASE FoundId(s)
  <2>1. PICK r : r = call[s].result
    OBVIOUS
  <2>2. PICK result \in {r, None} : Done(s, result)
    BY <1>8, <2>1 DEF FoundId
  <2>3. InTime(s, result)
    BY <2>1, <2>2 DEF SourceKnows, CallKnows, InTime
  <2>4. CallKnows(s, call[s])'
    BY <2>2, <2>3, DoneKnows DEF StoreInv
  <2>5. QED
    BY <1>1, <1>8, <2>4 DEF FoundId
<1>9. CASE Return(s)
  <2>1. CallKnows(s, call[s])'
    BY <1>9, OverKnows DEF Return, NoCall, Writing, InTime, StoreInv
  <2>2. QED
    BY <1>1, <1>9, <2>1 DEF Return
<1>10. CASE WriteFails(s) \/ ReadFails(s)
  <2>1. Throw(s) /\ UNCHANGED <<db, caches, mine>>
    BY <1>10 DEF WriteFails, ReadFails
  <2>2. QED
    BY <2>1, ThrowKeeps
<1>11. QED
  BY <1>2, <1>3, <1>4, <1>5, <1>6, <1>7, <1>8, <1>9, <1>10

LEMMA RestartKnows ==
    ASSUME StoreInv, NEW s \in Source, Restart(s)
    PROVE  SourceKnows(s)'
<1>1. /\ call'[s] = NoCall /\ stack'[s] = <<>> /\ mine'[s] = {}
      /\ \A n \in Name : names'[s][n] = None
      /\ \A d \in DataSetId : owners'[s][d] = None /\ parents'[s][d] = None
  BY DEF Restart, EmptyCaches, StoreInv, TypeOK
<1>2. CallKnows(s, call[s])'
  BY <1>1 DEF CallKnows, NoCall, Writing, InTime
<1>3. QED
  BY <1>1, <1>2 DEF SourceKnows, MineStored, NameKnown, OwnerEarlier, ListKnown, OnStack, Descends

LEMMA SourceStep ==
    ASSUME StoreInv, StoreInv', NEW s \in Source, SourceKnows(s),
           Request(s) \/ Step(s) \/ Fault(s)
    PROVE  SourceKnows(s)'
<1>1. DbGrows
  BY DbStep
<1>2. CASE Saved(s)
  <2>1. /\ CallKnows(s, call[s])' /\ MineStored(s)' /\ db' = db /\ stack[s] = <<>>
        /\ \/ UNCHANGED <<caches, stack>>
           \/ \E r \in DataSetRecords :
                IsDataSetKey(r.key) /\ BeforeCutoff(r.id, cutoff_time[s]) /\ CacheDataSet(s, r)
    BY <1>2, SavedKnows DEF Saved, In
  <2>2. QED
    BY <1>1, <2>1, RestKept, CacheDataSetKnows
<1>3. CASE FindDetail(s)
  <2>1. /\ CallKnows(s, call[s])' /\ db' = db /\ stack[s] = <<>> /\ mine' = mine
        /\ \/ UNCHANGED <<caches, stack>>
           \/ \E r \in DataSetRecords :
                IsDataSetKey(r.key) /\ BeforeCutoff(r.id, cutoff_time[s]) /\ CacheDataSet(s, r)
    BY <1>3, FindDetailKnows DEF FindDetail, In
  <2>2. MineStored(s)'
    BY <1>1, <2>1, MineKept DEF SourceKnows
  <2>3. QED
    BY <1>1, <2>1, <2>2, RestKept, CacheDataSetKnows
<1>4. CASE Restart(s)
  BY <1>4, RestartKnows
<1>5. QED
  BY <1>1, <1>2, <1>3, <1>4, PlainStepKnows, DetailKnows, LookupKnows, LoadedKnows,
     BuildSelfKnows, BuildImportsKnows, DemandKnows DEF Step, Fault

LEMMA CacheNext ==
    ASSUME CacheInv, [Next]_vars
    PROVE  CacheInv'
<1>1. StoreInv /\ StoreInv'
  BY StoreNext DEF CacheInv
<1>2. ASSUME NEW s \in Source, Request(s) \/ Step(s) \/ Fault(s), NEW u \in Source
      PROVE  SourceKnows(u)'
  <2>1. SourceKnows(u)
    BY DEF CacheInv
  <2>2. CASE u = s
    BY <1>1, <1>2, <2>1, <2>2, SourceStep
  <2>3. CASE u # s
    BY <1>1, <1>2, <2>1, <2>3, DbStep, OtherUntouched, OtherKnows DEF StoreInv
  <2>4. QED
    BY <2>2, <2>3
<1>3. ASSUME UNCHANGED vars, NEW u \in Source
      PROVE  SourceKnows(u)'
  <2>1. SourceKnows(u) /\ Untouched(u) /\ DbGrows
    BY <1>3 DEF CacheInv, vars, caches, Untouched, DbGrows
  <2>2. QED
    BY <1>1, <2>1, OtherKnows
<1>4. QED
  BY <1>1, <1>2, <1>3 DEF CacheInv, Next

LEMMA CacheInit == Init => CacheInv
<1> SUFFICES ASSUME Init
             PROVE  CacheInv
  OBVIOUS
<1>1. StoreInv
  BY StoreInit
<1>2. ASSUME NEW s \in Source
      PROVE  SourceKnows(s)
  <2>1. /\ call[s] = NoCall /\ stack[s] = <<>> /\ mine[s] = {}
        /\ \A n \in Name : names[s][n] = None
        /\ \A d \in DataSetId : owners[s][d] = None /\ parents[s][d] = None
    BY DEF Init
  <2>2. CallKnows(s, call[s])
    BY <2>1 DEF CallKnows, NoCall, Writing, InTime
  <2>3. QED
    BY <2>1, <2>2 DEF SourceKnows, MineStored, NameKnown, OwnerEarlier, ListKnown, OnStack, Descends
<1>3. QED
  BY <1>1, <1>2 DEF CacheInv

LEMMA CacheInvariant == Spec => []CacheInv
BY CacheInit, CacheNext, PTL DEF Spec

-----------------------------------------------------------------------------
\* What the invariant says.

\* A data source with a cutoff time gives its caller nothing that is not before
\* it, by key, by id or by name.
THEOREM CutoffKept == Spec => []NothingPastCutoff
<1>1. CacheInv => NothingPastCutoff
  <2> SUFFICES ASSUME CacheInv, NEW s \in Source, cutoff_time[s] # None
               PROVE  /\ call[s].phase = "done" /\ call[s].result \notin {None, Error}
                            => call[s].result.id < cutoff_time[s]
                      /\ \A n \in Name : names[s][n] # None => names[s][n] < cutoff_time[s]
    BY DEF NothingPastCutoff
  <2>1. CallKnows(s, call[s]) /\ \A n \in Name : NameKnown(s, n)
    BY DEF CacheInv, SourceKnows
  <2>2. QED
    BY <2>1 DEF CallKnows, InTime, NameKnown, BeforeCutoff
<1>2. QED
  BY <1>1, CacheInvariant, PTL

\* A cached name is that of a stored dataset, and the dataset that holds it is
\* cached with it, whichever saves failed.
THEOREM NamesAreStored == Spec => []NamesConsistent
<1>1. CacheInv => NamesConsistent
  BY DEF CacheInv, SourceKnows, NameKnown, NamesConsistent
<1>2. QED
  BY <1>1, CacheInvariant, PTL

\* The recursion on datasets never comes back to a call that has not returned:
\* every call is for an earlier dataset than that of its caller.
THEOREM RecursionDescends == Spec => []NoReentry
<1>1. CacheInv => NoReentry
  <2> SUFFICES ASSUME CacheInv, NEW s \in Source,
                      NEW i \in 1 .. Len(stack[s]), NEW j \in 1 .. Len(stack[s]), i < j
               PROVE  stack[s][i].of # stack[s][j].of
    BY DEF NoReentry
  <2>1. stack[s][i].of < stack[s][j].of
    BY DEF CacheInv, SourceKnows, Descends
  <2>2. stack[s][i].of \in DataSetId /\ stack[s][j].of \in DataSetId
    BY OfType DEF CacheInv, StoreInv, TypeOK
  <2>3. QED
    BY <2>1, <2>2 DEF DataSetId
<1>2. QED
  BY <1>1, CacheInvariant, PTL

\* A cached lookup list is the dataset, its imports, and theirs, to any depth.
THEOREM ListsAreClosures == Spec => []LookupListIsClosure
<1>1. CacheInv => LookupListIsClosure
  <2> SUFFICES ASSUME CacheInv, NEW s \in Source, NEW d \in DataSetId, parents[s][d] # None
               PROVE  \E r \in DataSetRecords :
                        LET closed == {S \in SUBSET DataSetId : d \in S /\ ImportsWithin(s, S)} IN
                        /\ r.id = d
                        /\ IF Follows(s, r)
                           THEN /\ parents[s][d] \in closed
                                /\ \A S \in closed : parents[s][d] \subseteq S
                           ELSE parents[s][d] = {}
    BY DEF LookupListIsClosure
  <2> DEFINE L == parents[s][d]
  <2>1. PICK r \in DataSetRecords :
          /\ r.id = d
          /\ IF Follows(s, r) THEN Gathered(s, d, L) /\ r.imports \subseteq L ELSE L = {}
    BY DEF CacheInv, SourceKnows, ListKnown
  <2>2. L \in SUBSET DataSetId
    BY DEF CacheInv, StoreInv, TypeOK
  <2> HIDE DEF L
  <2>3. CASE Follows(s, r)
    <3>1. \A q \in DataSetRecords : q.id = d => q = r
      BY <2>1, StoredIds DEF CacheInv
    <3>2. d \in L /\ ImportsWithin(s, L)
      BY <2>1, <2>3, <3>1 DEF Gathered, ImportsWithin
    <3>3. \A S \in SUBSET DataSetId : d \in S /\ ImportsWithin(s, S) => L \subseteq S
      BY <2>1, <2>3 DEF Gathered
    <3>4. QED
      BY <2>1, <2>2, <2>3, <3>2, <3>3 DEF L
  <2>4. CASE ~Follows(s, r)
    BY <2>1, <2>4 DEF L
  <2>5. QED
    BY <2>3, <2>4
<1>2. QED
  BY <1>1, CacheInvariant, PTL

-----------------------------------------------------------------------------
(***************************************************************************)
(* What a data source loads, proved for any settings, initial records and   *)
(* bounds: a load by key returns what this data source saved, and what a    *)
(* data source with a cutoff time can load stays the same while others      *)
(* write.                                                                  *)
(*                                                                         *)
(* A load finds the record that sorts first among those of the lookup list; *)
(* the list of a dataset has no dataset later than it, so that the records  *)
(* of the dataset itself come first.                                        *)
(***************************************************************************)

-----------------------------------------------------------------------------
\* The record that sorts first.

LEMMA LeastNatural ==
    ASSUME NEW S \in SUBSET Nat, S # {}
    PROVE  \E m \in S : \A n \in S : m <= n
<1>1. PICK m \in S : \A n \in S : ~(<<n, m>> \in OpToRel(<, Nat))
  BY NatLessThanWellFounded, WFMin, Zenon
<1>2. \A n \in S : ~(n < m)
  BY <1>1 DEF OpToRel
<1>3. QED
  BY <1>2

LEMMA GreatestId ==
    ASSUME NEW S \in SUBSET DataSetId, S # {}
    PROVE  \E m \in S : \A n \in S : n <= m
<1>1. MaxId \in Nat /\ \A n \in S : n \in 0 .. MaxId
  BY ConstantsAssumption DEF DataSetId, ConstantsAssumption
<1>2. \A n \in S : MaxId - n \in Nat
  BY <1>1
<1> DEFINE T == {MaxId - n : n \in S}
<1>3. T \in SUBSET Nat /\ T # {}
  BY <1>2
<1> HIDE DEF T
<1>4. PICK t \in T : \A u \in T : t <= u
  BY <1>3, LeastNatural
<1>5. PICK m \in S : t = MaxId - m
  BY DEF T
<1>6. \A n \in S : MaxId - m <= MaxId - n
  BY <1>4, <1>5 DEF T
<1>7. QED
  BY <1>1, <1>6

LEMMA FirstExists ==
    ASSUME NEW S, NEW x \in S,
           \A r \in S : r.data_set \in DataSetId /\ r.id \in DataSetId
    PROVE  \E r \in S : \A q \in S : SortsFirst(r, q)
<1> DEFINE D == {r.data_set : r \in S}
<1>1. D \in SUBSET DataSetId /\ D # {}
  OBVIOUS
<1>2. PICK d \in D : \A e \in D : e <= d
  BY <1>1, GreatestId
<1> DEFINE Ids == {r.id : r \in {q \in S : q.data_set = d}}
<1>3. Ids \in SUBSET DataSetId /\ Ids # {}
  OBVIOUS
<1>4. PICK i \in Ids : \A j \in Ids : j <= i
  BY <1>3, GreatestId
<1>5. PICK r \in S : r.data_set = d /\ r.id = i
  BY <1>4
<1>6. ASSUME NEW q \in S
      PROVE  SortsFirst(r, q)
  <2>1. q.data_set <= d /\ (q.data_set = d => q.id <= i)
    BY <1>2, <1>4
  <2>2. QED
    BY <1>5, <2>1 DEF SortsFirst, DataSetId
<1>7. QED
  BY <1>6

\* A load of key from n returns the first of the versions considered, or null
\* when that is a delete marker.
LEMMA FirstIsLoaded ==
    ASSUME StoreInv, NEW s \in Source, NEW n, NEW key, NEW x \in FinalConstraints(s, key, n)
    PROVE  LET found == LoadByKey(s, key, n) IN
           IF found = None
           THEN \E m \in FinalConstraints(s, key, n) :
                   m.deleted /\ \A q \in FinalConstraints(s, key, n) : SortsFirst(m, q)
           ELSE /\ found \in FinalConstraints(s, key, n) /\ ~found.deleted
                /\ \A q \in FinalConstraints(s, key, n) : SortsFirst(found, q)
<1> DEFINE all == FinalConstraints(s, key, n)
           first == {r \in all : ~r.deleted /\ \A q \in all : SortsFirst(r, q)}
<1>1. all \subseteq db
  BY DEF FinalConstraints
<1>2. LoadByKey(s, key, n) = IF first = {} THEN None ELSE CHOOSE r \in first : TRUE
  BY DEF LoadByKey
<1>3. None \notin all
  BY <1>1, StoredIds, ConstantsAssumption DEF ConstantsAssumption
<1> HIDE DEF all
<1>4. PICK m \in all : \A q \in all : SortsFirst(m, q)
  <2>1. \A r \in all : r.data_set \in DataSetId /\ r.id \in DataSetId
    BY <1>1, StoredIds
  <2>2. x \in all
    BY DEF all
  <2>3. QED
    BY <2>1, <2>2, FirstExists
<1>5. m \notin first => m.deleted
  BY <1>1, <1>4, StoredIds DEF Record
<1>6. CASE first = {}
  BY <1>2, <1>4, <1>5, <1>6 DEF all
<1>7. CASE first # {}
  <2>1. LoadByKey(s, key, n) \in first
    BY <1>2, <1>7
  <2>2. QED
    BY <1>3, <2>1 DEF all
<1>8. QED
  BY <1>6, <1>7

-----------------------------------------------------------------------------
\* Which steps end a load by key.

\* A frame of the recursion works for a method that needs a list or a detail.
ViewShape(s) ==
    /\ stack[s] # <<>> => call[s].phase \in {"check", "find", "found_id", "build"}
    /\ call[s].op = "load" => call[s].phase \in {"find", "done"}

LoadDone(s) == call[s].op = "load" /\ call[s].phase = "done" /\ call[s].result # Error

LEMMA DoneShape ==
    ASSUME TypeOK, NEW s \in Source, NEW result, Done(s, result)
    PROVE  call'[s].op = call[s].op /\ call'[s].phase = "done" /\ call'[s].result = result
<1>1. call[s] \in Call
  BY DEF TypeOK
<1>2. call'[s] = [call[s] EXCEPT !.phase = "done", !.result = result, !.recs = <<>>, !.count = 0]
  BY DEF Done, TypeOK
<1>3. QED
  BY <1>1, <1>2 DEF Call

LEMMA ThrowShape ==
    ASSUME TypeOK, NEW s \in Source, Throw(s)
    PROVE  ViewShape(s)' /\ ~LoadDone(s)'
<1>1. call'[s].phase = "done" /\ call'[s].result = Error /\ stack'[s] = <<>>
  BY DoneShape DEF Throw, TypeOK
<1>2. QED
  BY <1>1 DEF ViewShape, LoadDone

LEMMA BeginShape ==
    ASSUME TypeOK, NEW s \in Source, ViewShape(s),
           NEW op, NEW phase \in {"find", "check"}, NEW key, NEW ds, NEW recs,
           Begin(s, op, phase, key, ds, recs), op = "load" => phase = "find"
    PROVE  ViewShape(s)' /\ ~LoadDone(s)'
<1>1. call'[s] = [NoCall EXCEPT !.op = op, !.phase = phase, !.key = key, !.ds = ds, !.recs = recs]
  BY DEF Begin, TypeOK
<1>2. call'[s].op = op /\ call'[s].phase = phase
  BY <1>1 DEF NoCall
<1>3. stack'[s] = stack[s] /\ call[s].phase = "idle"
  BY DEF Begin
<1>4. QED
  BY <1>2, <1>3 DEF ViewShape, LoadDone

LEMMA RequestShape ==
    ASSUME TypeOK, NEW s \in Source, ViewShape(s), Request(s)
    PROVE  ViewShape(s)' /\ ~LoadDone(s)'
<1>1. CASE SaveMany(s)
  <2> DEFINE new == {NewRecord(DataKeyOf(k), t) : k \in DataKey, t \in DataType}
  <2> HIDE DEF new
  <2>1. \E ds \in KnownTargets, n \in 1 .. MaxBatch :
          \E recs \in [1 .. n -> new] : Begin(s, "save", "check", None, ds, recs)
    BY <1>1 DEF SaveMany, new
  <2>2. PICK ds, recs : Begin(s, "save", "check", None, ds, recs)
    BY <2>1
  <2>3. QED
    BY <2>2, BeginShape
<1>2. CASE SaveDetail(s)
  <2>1. PICK ds, recs : Begin(s, "detail", "check", None, ds, recs)
    BY <1>2 DEF SaveDetail
  <2>2. QED
    BY <2>1, BeginShape
<1>3. CASE DeleteRecord(s)
  <2>1. PICK key, ds, recs : Begin(s, "delete", "check", key, ds, recs)
    BY <1>3 DEF DeleteRecord
  <2>2. QED
    BY <2>1, BeginShape
<1>4. CASE LoadOrNull(s)
  BY <1>4, BeginShape DEF LoadOrNull
<1>5. CASE CreateDataSet(s)
  BY <1>5, BeginShape DEF CreateDataSet
<1>6. CASE GetDataSet(s)
  BY <1>6, BeginShape DEF GetDataSet
<1>7. ASSUME NEW c, call' = [call EXCEPT ![s] = c], stack' = stack, call[s].phase = "idle",
             c.op \in {"get", "load_id"}
      PROVE  ViewShape(s)' /\ ~LoadDone(s)'
  BY <1>7 DEF ViewShape, LoadDone, TypeOK
<1>8. CASE GetCachedDataSet(s)
  <2>1. PICK n \in Name :
          call' = [call EXCEPT ![s] = [NoCall EXCEPT !.op = "get", !.phase = "done",
                                          !.key = DataSetKeyOf(n), !.found = names[s][n]]]
    BY <1>8 DEF GetCachedDataSet
  <2> DEFINE c == [NoCall EXCEPT !.op = "get", !.phase = "done",
                                 !.key = DataSetKeyOf(n), !.found = names[s][n]]
  <2>2. c.op = "get"
    BY DEF NoCall
  <2> HIDE DEF c
  <2>3. QED
    BY <1>7, <1>8, <2>1, <2>2 DEF c, GetCachedDataSet
<1>9. CASE LoadOrNullById(s)
  <2>1. PICK c : call' = [call EXCEPT ![s] = c] /\ c.op = "load_id"
    <3> DEFINE null == [NoCall EXCEPT !.op = "load_id", !.phase = "done"]
               loaded(r) == [NoCall EXCEPT !.op = "load_id", !.phase = "found_id", !.result = r]
               wrong == [NoCall EXCEPT !.op = "load_id", !.phase = "done", !.result = Error]
    <3>1. PICK id \in issued, t \in DataType :
            \/ call' = [call EXCEPT ![s] = null]
            \/ \E r \in LoadById(id, "Data") :
                 call' = [call EXCEPT ![s] = IF <<t, r.type>> \in Assignable THEN loaded(r) ELSE wrong]
      BY <1>9, Zenon DEF LoadOrNullById
    <3>2. null.op = "load_id" /\ wrong.op = "load_id" /\ \A r : loaded(r).op = "load_id"
      BY DEF NoCall
    <3> HIDE DEF null, loaded, wrong
    <3>3. QED
      BY <3>1, <3>2
  <2>2. stack' = stack /\ call[s].phase = "idle"
    BY <1>9 DEF LoadOrNullById
  <2>3. QED
    BY <1>7, <2>1, <2>2
<1>10. QED
  BY <1>1, <1>2, <1>3, <1>4, <1>5, <1>6, <1>8, <1>9 DEF Request

LEMMA StepShape ==
    ASSUME TypeOK, NEW s \in Source, ViewShape(s), Step(s) \/ Fault(s)
    PROVE  ViewShape(s)' /\ (LoadDone(s)' => Find(s))
<1>1. call[s] \in Call
  BY DEF TypeOK
<1>2. CASE Throw(s)
  BY <1>2, ThrowShape
<1>3. CASE call' = call /\ stack[s] # <<>>
  BY <1>3 DEF ViewShape, LoadDone
<1>4. CASE ResolveDetail(s) \/ ResolveLookup(s) \/ ResolveLoaded(s) \/ BuildSelf(s) \/ BuildImports(s)
  BY <1>2, <1>3, <1>4, Zenon DEF ResolveDetail, ResolveLookup, ResolveLoaded, BuildSelf, BuildImports, At
<1>5. CASE Demand(s)
  BY <1>5, Zenon DEF Demand, ViewShape, LoadDone
<1>6. CASE CheckNotReadOnly(s)
  <2>1. CASE Proceed(s, "assign") /\ UNCHANGED stack
    <3>1. call[s].phase = "check" /\ stack[s] = <<>> /\ call'[s] = [call[s] EXCEPT !.phase = "assign"]
      BY <1>6, <2>1 DEF CheckNotReadOnly, In, Proceed, TypeOK
    <3>2. call'[s].phase = "assign" /\ call'[s].op = call[s].op
      BY <1>1, <3>1 DEF Call
    <3>3. QED
      BY <2>1, <3>1, <3>2 DEF ViewShape, LoadDone
  <2>2. QED
    BY <1>2, <1>6, <2>1 DEF CheckNotReadOnly
<1>7. ASSUME NEW phase \in {"assign", "insert", "find_detail", "found_id"},
             call[s].phase = phase, stack[s] = <<>>, stack'[s] = <<>>,
             call'[s].op = call[s].op
      PROVE  ViewShape(s)' /\ ~LoadDone(s)'
  BY <1>7 DEF ViewShape, LoadDone
<1>8. CASE Assign(s)
  <2> DEFINE c == call[s]
             next == c.count + 1
             recs(id) == [c.recs EXCEPT ![next].id = id, ![next].data_set = c.ds]
             now(id) == [c EXCEPT !.recs = recs(id),
                                  !.phase = IF next = Len(c.recs) THEN "insert" ELSE @,
                                  !.count = IF next = Len(c.recs) THEN 0 ELSE next]
  <2>1. PICK id : call' = [call EXCEPT ![s] = now(id)] \/ Done(s, Error)
    BY <1>8 DEF Assign
  <2>2. now(id).op = call[s].op
    BY <1>1 DEF Call
  <2> HIDE DEF now
  <2>3. call'[s].op = call[s].op
    BY <2>1, <2>2, DoneShape DEF TypeOK
  <2>4. QED
    BY <1>7, <1>8, <2>3 DEF Assign, In
<1>9. CASE Insert(s)
  <2>1. call'[s] = [call[s] EXCEPT !.count = @ + 1]
    BY <1>9 DEF Insert, TypeOK
  <2>2. call'[s].op = call[s].op
    BY <1>1, <2>1 DEF Call
  <2>3. QED
    BY <1>7, <1>9, <2>2 DEF Insert, In
<1>10. ASSUME NEW r, CacheDataSet(s, r), call[s].phase \in {"insert", "find_detail"}, stack[s] = <<>>
       PROVE  ViewShape(s)' /\ ~LoadDone(s)'
  <2>1. call'[s] = [call[s] EXCEPT !.phase = "build", !.found = r.id, !.result = None,
                                   !.recs = <<>>, !.count = 0]
    BY <1>10 DEF CacheDataSet, TypeOK
  <2>2. call'[s].op = call[s].op /\ call'[s].phase = "build"
    BY <1>1, <2>1 DEF Call
  <2>3. QED
    BY <1>10, <2>2 DEF ViewShape, LoadDone
<1>11. CASE Saved(s)
  <2>1. CASE Done(s, None) /\ UNCHANGED <<caches, stack>>
    BY <1>7, <1>11, <2>1, DoneShape DEF Saved, In
  <2>2. QED
    BY <1>10, <1>11, <2>1 DEF Saved, In
<1>12. CASE Find(s)
  <2> DEFINE found == LoadByKey(s, call[s].key, call[s].ds)
             now == [call[s] EXCEPT !.phase = "find_detail", !.result = found]
  <2>1. \/ call[s].op = "get" /\ call' = [call EXCEPT ![s] = now]
        \/ Done(s, found)
    BY <1>12 DEF Find
  <2>2. now.op = call[s].op
    BY <1>1 DEF Call
  <2>3. stack'[s] = <<>>
    BY <1>12 DEF Find, In
  <2> HIDE DEF found, now
  <2>4. call'[s].op = "get" \/ call'[s].phase = "done"
    BY <2>1, <2>2, DoneShape DEF TypeOK
  <2>5. QED
    BY <1>12, <2>3, <2>4 DEF ViewShape
<1>13. CASE FindDetail(s)
  <2> DEFINE new == <<NewRecord(DataSetDetailKeyOf(Root), None)>>
             now == [call[s] EXCEPT !.phase = "check", !.recs = new]
  <2>1. CASE call' = [call EXCEPT ![s] = now] /\ UNCHANGED <<caches, stack>>
    <3> HIDE DEF new
    <3>1. now.op = call[s].op
      BY <1>1 DEF Call
    <3> HIDE DEF now
    <3>2. call'[s].op = call[s].op
      BY <2>1, <3>1 DEF TypeOK
    <3>3. QED
      BY <1>7, <1>13, <2>1, <3>2 DEF FindDetail, In
  <2>2. CacheDataSet(s, call[s].result) \/ (call' = [call EXCEPT ![s] = now] /\ UNCHANGED <<caches, stack>>)
    <3> HIDE DEF new
    <3>1. QED
      BY <1>13 DEF FindDetail, new
  <2>3. QED
    BY <1>10, <1>13, <2>1, <2>2 DEF FindDetail, In
<1>14. CASE Built(s)
  <2>1. call'[s] = [call[s] EXCEPT !.phase = "done"] /\ call[s].phase = "build"
    BY <1>14 DEF Built, Proceed, In, TypeOK
  <2>2. call'[s].op = call[s].op /\ call'[s].phase = "done" /\ stack'[s] = <<>>
    BY <1>1, <1>14, <2>1 DEF Built, In, Call
  <2>3. QED
    BY <2>1, <2>2 DEF ViewShape, LoadDone
<1>15. CASE FoundId(s)
  <2>1. PICK result : Done(s, result)
    BY <1>15 DEF FoundId
  <2>2. QED
    BY <1>7, <1>15, <2>1, DoneShape DEF FoundId, In
<1>16. CASE Return(s) \/ Restart(s)
  <2>1. call'[s] = NoCall /\ stack'[s] = <<>>
    BY <1>16 DEF Return, Restart, TypeOK, ViewShape
  <2>2. QED
    BY <2>1 DEF ViewShape, LoadDone, NoCall
<1>17. CASE WriteFails(s) \/ ReadFails(s)
  BY <1>2, <1>17 DEF WriteFails, ReadFails
<1>18. QED
  BY <1>4, <1>5, <1>6, <1>8, <1>9, <1>11, <1>12, <1>13, <1>14, <1>15, <1>16, <1>17 DEF Step, Fault

-----------------------------------------------------------------------------
\* A load returns what was saved.

\* The list of a dataset that s follows has the dataset, and none later.
LEMMA ListHasDataSet ==
    ASSUME CacheInv, NEW s \in Source, NEW d \in DataSetId, HasLookupList(s, d),
           \A r \in DataSetRecords : r.id = d => Follows(s, r)
    PROVE  d \in LookupList(s, d) /\ \A x \in LookupList(s, d) : x <= d
<1>1. CASE d = Root
  BY <1>1 DEF LookupList, DataSetId
<1>2. CASE d # Root
  <2>1. parents[s][d] # None /\ LookupList(s, d) = parents[s][d]
    BY <1>2 DEF HasLookupList, LookupList
  <2>2. Gathered(s, d, parents[s][d])
    BY <2>1 DEF CacheInv, SourceKnows, ListKnown
  <2>3. QED
    BY <2>1, <2>2 DEF Gathered
<1>3. QED
  BY <1>1, <1>2

\* What Find returns to load_or_null.
LEMMA FindReads ==
    ASSUME CacheInv, NEW s \in Source, NEW d \in DataSetId, NEW key,
           HasLookupList(s, d), CutoffTime(s, d) = None,
           \A r \in DataSetRecords : r.id = d => Follows(s, r),
           NEW r \in db, r.key = key, r.data_set = d
    PROVE  LET found == LoadByKey(s, key, d) IN
           IF found = None
           THEN \E q \in db : q.key = key /\ q.data_set = d /\ q.deleted /\ q.id >= r.id
           ELSE /\ found.data_set = d /\ found.id >= r.id
                /\ r.deleted => found.id > r.id
<1>1. StoreInv /\ d \in LookupList(s, d) /\ \A x \in LookupList(s, d) : x <= d
  BY ListHasDataSet DEF CacheInv
<1>2. r \in FinalConstraints(s, key, d)
  BY <1>1 DEF FinalConstraints, BeforeCutoff
<1>3. ASSUME NEW m \in FinalConstraints(s, key, d), SortsFirst(m, r)
      PROVE  m \in db /\ m.key = key /\ m.data_set = d /\ m.id \in DataSetId /\ m.id >= r.id
  <2>1. m \in db /\ m.key = key /\ m.data_set \in LookupList(s, d)
    BY DEF FinalConstraints
  <2>2. m.data_set \in DataSetId /\ m.id \in DataSetId /\ m.data_set <= d
    BY <1>1, <2>1, StoredIds
  <2>3. QED
    BY <1>3, <2>1, <2>2 DEF SortsFirst, DataSetId
<1> DEFINE found == LoadByKey(s, key, d)
<1>4. IF found = None
      THEN \E m \in FinalConstraints(s, key, d) :
              m.deleted /\ \A q \in FinalConstraints(s, key, d) : SortsFirst(m, q)
      ELSE /\ found \in FinalConstraints(s, key, d) /\ ~found.deleted
           /\ \A q \in FinalConstraints(s, key, d) : SortsFirst(found, q)
  BY <1>1, <1>2, FirstIsLoaded
<1> HIDE DEF found
<1>5. CASE found = None
  BY <1>2, <1>3, <1>4, <1>5 DEF found
<1>6. CASE found # None
  <2>1. found \in db /\ ~found.deleted /\ found.data_set = d /\ found.id >= r.id
    BY <1>2, <1>3, <1>4, <1>6
  <2>2. found.id \in DataSetId /\ r.id \in DataSetId /\ (found.id = r.id => found = r)
    BY <1>1, <2>1, StoredIds
  <2>3. r.deleted => found.id > r.id
    BY <2>1, <2>2 DEF DataSetId
  <2>4. QED
    BY <1>6, <2>1, <2>3 DEF found
<1>7. QED
  BY <1>5, <1>6

LEMMA FindOwnWrites ==
    ASSUME CacheInv, NEW s \in Source, Find(s), LoadDone(s)'
    PROVE  ReadsOwnWrites(s)'
<1>1. PICK c, found : c = call[s] /\ found = LoadByKey(s, c.key, c.ds)
  OBVIOUS
<1>2. TypeOK /\ c \in Call /\ HasLookupList(s, c.ds) /\ db' = db /\ UNCHANGED caches
  BY <1>1 DEF Find, CacheInv, StoreInv, TypeOK
<1>3. call'[s].key = c.key /\ call'[s].ds = c.ds /\ call'[s].result = found
  <2> DEFINE detail == [c EXCEPT !.phase = "find_detail", !.result = found]
             done == [c EXCEPT !.phase = "done", !.result = found, !.recs = <<>>, !.count = 0]
  <2>1. call'[s] = detail \/ call'[s] = done
    BY <1>1, <1>2 DEF Find, Done, TypeOK
  <2>2. /\ detail.key = c.key /\ detail.ds = c.ds /\ detail.result = found
        /\ done.key = c.key /\ done.ds = c.ds /\ done.result = found
    BY <1>2 DEF Call
  <2> HIDE DEF detail, done
  <2>3. QED
    BY <2>1, <2>2
<1>4. c.ds \in DataSetId
  BY <1>2 DEF Call
<1>5. /\ CutoffTime(s, c.ds)' = CutoffTime(s, c.ds)
      /\ DataSetRecords' = DataSetRecords
      /\ \A d : Follows(s, d)' <=> Follows(s, d)
  BY <1>2 DEF caches, CutoffTime, DataSetDetailOf, DataSetRecords, Follows, HasDetail
<1>6. ASSUME CutoffTime(s, c.ds) = None,
             \A d \in DataSetRecords : d.id = c.ds => Follows(s, d),
             NEW r \in db, r.key = c.key, r.data_set = c.ds
      PROVE  IF found = None
             THEN \E q \in db : q.key = c.key /\ q.data_set = c.ds /\ q.deleted /\ q.id >= r.id
             ELSE /\ found.data_set = c.ds /\ found.id >= r.id
                  /\ r.deleted => found.id > r.id
  BY <1>1, <1>2, <1>4, <1>6, FindReads
<1>7. QED
  BY <1>2, <1>3, <1>5, <1>6 DEF ReadsOwnWrites, CutoffTime, DataSetDetailOf

\* Others add records, which are not among those that s saved.
LEMMA OthersWrite ==
    ASSUME CacheInv, NEW s \in Source, ReadsOwnWrites(s), Untouched(s), DbGrows
    PROVE  ReadsOwnWrites(s)'
<1>1. PICK c : c = call[s] /\ call'[s] = c
  BY DEF Untouched
<1>2. CutoffTime(s, c.ds)' = CutoffTime(s, c.ds) /\ \A d : Follows(s, d)' <=> Follows(s, d)
  BY DEF Untouched, CutoffTime, DataSetDetailOf, Follows, HasDetail
<1>3. DataSetRecords \subseteq DataSetRecords' /\ db \subseteq db'
  BY DataSetRecordsGrow DEF DbGrows
<1>4. \A r \in db' : r.id \in mine'[s] => r \in db
  <2> SUFFICES ASSUME NEW r \in db', r.id \in mine[s]
               PROVE  r \in db
    BY DEF Untouched
  <2>1. PICK q \in db : q.id = r.id
    BY DEF CacheInv, SourceKnows, MineStored
  <2>2. QED
    BY <2>1 DEF DbGrows
<1>5. mine'[s] = mine[s]
  BY DEF Untouched
<1>6. QED
  BY <1>1, <1>2, <1>3, <1>4, <1>5 DEF ReadsOwnWrites, CutoffTime, DataSetDetailOf

ViewInv == CacheInv /\ \A s \in Source : ViewShape(s) /\ ReadsOwnWrites(s)

LEMMA ViewNext ==
    ASSUME ViewInv, [Next]_vars
    PROVE  ViewInv'
<1>1. CacheInv /\ CacheInv' /\ StoreInv /\ TypeOK
  BY CacheNext DEF ViewInv, CacheInv, StoreInv
<1>2. ASSUME NEW u \in Source, Untouched(u), DbGrows
      PROVE  ViewShape(u)' /\ ReadsOwnWrites(u)'
  BY <1>1, <1>2, OthersWrite DEF ViewInv, ViewShape, Untouched
<1>3. ASSUME NEW s \in Source, Request(s) \/ Step(s) \/ Fault(s), NEW u \in Source
      PROVE  ViewShape(u)' /\ ReadsOwnWrites(u)'
  <2>1. CASE u # s
    BY <1>1, <1>2, <1>3, <2>1, DbStep, OtherUntouched
  <2>2. CASE u = s
    <3>1. ViewShape(s)' /\ (LoadDone(s)' => Find(s))
      BY <1>1, <1>3, RequestShape, StepShape DEF ViewInv
    <3>2. CASE LoadDone(s)'
      BY <1>1, <2>2, <3>1, <3>2, FindOwnWrites
    <3>3. CASE ~LoadDone(s)'
      BY <2>2, <3>1, <3>3 DEF LoadDone, ReadsOwnWrites
    <3>4. QED
      BY <3>2, <3>3, <3>1, <2>2
  <2>3. QED
    BY <2>1, <2>2
<1>4. CASE UNCHANGED vars
  <2>1. \A u \in Source : Untouched(u) /\ DbGrows
    BY <1>4 DEF vars, caches, Untouched, DbGrows
  <2>2. QED
    BY <1>1, <1>2, <2>1 DEF ViewInv
<1>5. QED
  BY <1>1, <1>3, <1>4 DEF ViewInv, Next

LEMMA ViewInit == Init => ViewInv
<1> SUFFICES ASSUME Init
             PROVE  ViewInv
  OBVIOUS
<1>1. \A s \in Source : call[s] = NoCall /\ stack[s] = <<>>
  BY DEF Init
<1>2. \A s \in Source : ViewShape(s) /\ ReadsOwnWrites(s)
  BY <1>1 DEF ViewShape, ReadsOwnWrites, NoCall
<1>3. QED
  BY <1>2, CacheInit DEF ViewInv

LEMMA ViewInvariant == Spec => []ViewInv
BY ViewInit, ViewNext, PTL DEF Spec

\* A data source reads its own writes, whatever other data sources save and delete
\* between the write and the load, and while the load is on its way.
THEOREM OwnWritesRead == Spec => []ReadYourWrites
<1>1. ViewInv => ReadYourWrites
  BY DEF ViewInv, ReadYourWrites
<1>2. QED
  BY <1>1, ViewInvariant, PTL

-----------------------------------------------------------------------------
\* What can be loaded before a cutoff time stays.

\* A data source forgets nothing of what it cached, unless it starts again.
LEMMA CachesStep ==
    ASSUME CacheInv, NEW s \in Source, Request(s) \/ Step(s) \/ Fault(s)
    PROVE  \/ CachesGrow(s)
           \/ \A d \in DataSetId : details'[s][d] = None /\ parents'[s][d] = None
<1>1. StoreInv /\ TypeOK /\ SourceKnows(s)
  BY DEF CacheInv, StoreInv
<1>2. ASSUME details' = details, parents' = parents
      PROVE  CachesGrow(s)
  BY <1>2 DEF CachesGrow
<1>3. CASE Restart(s)
  BY <1>1, <1>3 DEF Restart, EmptyCaches, TypeOK
<1>4. CASE ResolveDetail(s)
  <2>1. PICK n, found : /\ n = Head(stack[s]).of
                        /\ details' = [details EXCEPT ![s][n] = found] \/ details' = details
    BY <1>4 DEF ResolveDetail
  <2>2. n \in DataSetId /\ details[s][n] = None
    BY <1>1, <1>4, <2>1, HeadKnown DEF ResolveDetail, At, FrameKnown
  <2>3. parents' = parents
    BY <1>4 DEF ResolveDetail
  <2>4. QED
    BY <1>1, <2>1, <2>2, <2>3 DEF CachesGrow, TypeOK
<1>5. CASE BuildSelf(s) \/ BuildImports(s)
  <2>1. PICK n, L : /\ n = Head(stack[s]).rec.id
                    /\ parents' = [parents EXCEPT ![s][n] = L] \/ parents' = parents
    BY <1>5 DEF BuildSelf, BuildImports
  <2>2. n \in DataSetId /\ parents[s][n] = None
    BY <1>1, <1>5, <2>1, HeadRecordKnown DEF BuildSelf, BuildImports
  <2>3. details' = details
    BY <1>5 DEF BuildSelf, BuildImports
  <2>4. QED
    BY <1>1, <2>1, <2>2, <2>3 DEF CachesGrow, TypeOK
<1>6. CASE Saved(s) \/ FindDetail(s)
  <2>1. details' = details /\ parents' = parents
    BY <1>6 DEF Saved, FindDetail, CacheDataSet, caches
  <2>2. QED
    BY <1>2, <2>1
<1>7. CASE Request(s)
  BY <1>2, <1>7, RequestQuiet DEF caches
<1>8. CASE \/ ResolveLookup(s) \/ ResolveLoaded(s) \/ Demand(s) \/ CheckNotReadOnly(s) \/ Assign(s)
           \/ Insert(s) \/ Find(s) \/ Built(s) \/ FoundId(s) \/ Return(s)
           \/ WriteFails(s) \/ ReadFails(s)
  BY <1>2, <1>8 DEF ResolveLookup, ResolveLoaded, Demand, CheckNotReadOnly, Assign, Insert, Find,
     Built, FoundId, Return, WriteFails, ReadFails, caches
<1>9. QED
  BY <1>3, <1>4, <1>5, <1>6, <1>7, <1>8 DEF Step, Fault

\* What a data source stores when all are past c is not before c.
LEMMA StoredPast ==
    ASSUME CacheInv, NEW c, WritersPast(c), NEW s \in Source, Request(s) \/ Step(s) \/ Fault(s)
    PROVE  db \subseteq db' /\ \A r \in db' \ db : r.id \in DataSetId /\ r.id >= c
<1>1. StoreInv /\ TypeOK /\ CallShape(call[s]) /\ CallKnows(s, call[s])
  BY DEF CacheInv, StoreInv, CallInv, SourceKnows
<1>2. CASE Insert(s)
  <2> DEFINE i == call[s].count + 1
  <2>1. /\ call[s].phase = "insert" /\ call[s].count < Len(call[s].recs)
        /\ db' = db \cup {call[s].recs[i]}
    BY <1>2 DEF Insert, In, Adding
  <2>2. call[s].count \in Nat /\ call[s].recs \in Seq(Record)
    BY <1>1 DEF TypeOK, Call
  <2>3. i \in 1 .. Len(call[s].recs)
    BY <2>1, <2>2
  <2>4. call[s].recs[i].id # Root
    BY <1>1, <2>1, <2>3 DEF CallShape
  <2>5. s \in Source \ ReadOnlySource /\ cutoff_time[s] = None
    BY <1>1, <2>1 DEF CallKnows
  <2>6. call[s].recs[i].id >= c
    BY <2>3, <2>4, <2>5 DEF WritersPast
  <2>7. call[s].recs[i] \in Record
    BY <2>2, <2>3, ElementOfSeq
  <2>8. call[s].recs[i].id \in DataSetId
    BY <2>7 DEF Record
  <2>9. QED
    BY <2>1, <2>6, <2>8
<1>3. CASE ~Insert(s)
  <2>1. CASE Assign(s)
    BY <2>1 DEF Assign
  <2>2. CASE ~Assign(s)
    BY <1>1, <1>3, <2>2, QuietActions DEF StoreInv
  <2>3. QED
    BY <2>1, <2>2
<1>4. QED
  BY <1>2, <1>3

\* The cutoff time of a dataset is not later than that of the data source.
LEMMA PastIsHidden ==
    ASSUME TypeOK, NEW s \in Source, NEW n \in DataSetId, HasDetail(s, n), cutoff_time[s] # None,
           NEW id \in DataSetId, id >= cutoff_time[s]
    PROVE  ~BeforeCutoff(id, CutoffTime(s, n))
<1>1. id \in Nat /\ cutoff_time[s] \in Nat
  BY ConstantsAssumption DEF DataSetId, NullableId, ConstantsAssumption
<1>2. BeforeCutoff(id, CutoffTime(s, n)) => BeforeCutoff(id, cutoff_time[s])
  BY <1>1, CutoffTighter
<1>3. QED
  BY <1>1, <1>2 DEF BeforeCutoff

LEMMA ViewStep ==
    ASSUME CacheInv, [Next]_vars, NEW s \in Source, NEW d \in DataSetId, NEW key
    PROVE  ViewStays(s, d, key)
<1> SUFFICES ASSUME cutoff_time[s] # None, WritersPast(cutoff_time[s]),
                    HasLookupList(s, d), HasDetail(s, d), HasLookupList(s, d)', HasDetail(s, d)'
             PROVE  LoadByKey(s, key, d)' = LoadByKey(s, key, d)
  BY DEF ViewStays
<1>1. TypeOK
  BY DEF CacheInv, StoreInv
<1>2. LookupList(s, d)' = LookupList(s, d) /\ CutoffTime(s, d)' = CutoffTime(s, d)
  <2>1. CASE d = Root
    BY <2>1 DEF LookupList, CutoffTime, DataSetDetailOf
  <2>2. CASE d # Root
    <3>1. CASE CachesGrow(s)
      BY <2>2, <3>1 DEF CachesGrow, HasLookupList, HasDetail, LookupList, CutoffTime, DataSetDetailOf
    <3>2. ASSUME NEW t \in Source, Request(t) \/ Step(t) \/ Fault(t)
          PROVE  CachesGrow(s)
      <4>1. CASE t = s
        BY <2>2, <3>2, <4>1, CachesStep DEF HasLookupList
      <4>2. CASE t # s
        BY <1>1, <3>2, <4>2, OtherUntouched DEF Untouched, CachesGrow
      <4>3. QED
        BY <4>1, <4>2
    <3>3. UNCHANGED vars => CachesGrow(s)
      BY DEF vars, caches, CachesGrow
    <3>4. CachesGrow(s)
      BY <3>2, <3>3, Zenon DEF Next
    <3>5. QED
      BY <3>1, <3>4
  <2>3. QED
    BY <2>1, <2>2
<1>3. db \subseteq db' /\ \A r \in db' \ db : r.id \in DataSetId /\ r.id >= cutoff_time[s]
  <2>1. CASE UNCHANGED vars
    BY <2>1 DEF vars
  <2>2. ASSUME NEW t \in Source, Request(t) \/ Step(t) \/ Fault(t)
        PROVE  db \subseteq db' /\ \A r \in db' \ db : r.id \in DataSetId /\ r.id >= cutoff_time[s]
    <3>1. PICK c : c = cutoff_time[s]
      OBVIOUS
    <3>2. QED
      BY <2>2, <3>1, StoredPast
  <2>3. QED
    BY <2>1, <2>2, Zenon DEF Next
<1>4. \A r \in db' \ db : ~BeforeCutoff(r.id, CutoffTime(s, d))
  BY <1>1, <1>3, PastIsHidden
<1>5. FinalConstraints(s, key, d)' = FinalConstraints(s, key, d)
  BY <1>2, <1>3, <1>4 DEF FinalConstraints
<1>6. QED
  BY <1>5 DEF LoadByKey

\* When all writers generate ids past the cutoff time of a data source, what it
\* can load by key from any dataset stays the same at every step of any of them.
THEOREM ViewIsFrozen == Spec => HistoricalViewFrozen
<1>1. CacheInv /\ [Next]_vars
         => [\A s \in Source, d \in DataSetId, k \in DataKey : ViewStays(s, d, DataKeyOf(k))]_vars
  BY ViewStep
<1>2. QED
  BY <1>1, CacheInvariant, PTL DEF Spec, HistoricalViewFrozen
=============================================================================
