-------------------- MODULE TemporalMongoDataSourceProofs --------------------
(***************************************************************************)
(* Proofs about TemporalMongoDataSource for any data sources, settings,      *)
(* initial records and bounds: the type invariant, the order of the ids      *)
(* stored, and that the module implements RecordHistory.                     *)
(***************************************************************************)
EXTENDS TemporalMongoDataSource, SequenceTheorems, TLAPS

-----------------------------------------------------------------------------
\* The parts of a state have their types.

LEMMA EntryType ==
    ASSUME NEW A, NEW B, NEW C, NEW f \in [A -> [B -> C]], NEW a \in A, NEW b, NEW c \in C
    PROVE  [f EXCEPT ![a][b] = c] \in [A -> [B -> C]]
OBVIOUS

LEMMA NoDetailType == NoDetail \in Detail
BY DEF NoDetail, Detail, NullableId

LEMMA KeyType ==
    /\ \A n \in Name : DataSetKeyOf(n) \in Key
    /\ \A d \in DataSetId : DataSetDetailKeyOf(d) \in Key
    /\ \A k \in DataKey : DataKeyOf(k) \in Key
BY DEF Key, DataSetKeyOf, DataSetDetailKeyOf, DataKeyOf

LEMMA RootType == Root \in DataSetId /\ Id \subseteq DataSetId
BY ConstantsAssumption DEF Root, DataSetId, Id, ConstantsAssumption

LEMMA NewRecordType ==
    ASSUME NEW key \in Key, NEW type \in DataType \cup {None}
    PROVE  NewRecord(key, type) \in Record
BY NoDetailType, RootType DEF NewRecord, Record

LEMMA FrameTypes ==
    /\ \A n \in DataSetId : DetailFrame(n) \in Frame /\ LookupFrame(n) \in Frame
    /\ \A r \in Record : LoadedFrame(r) \in Frame
    /\ \A r \in Record, acc \in SUBSET DataSetId : BuildFrame(r, acc) \in Frame
BY DEF DetailFrame, LookupFrame, LoadedFrame, BuildFrame, Frame, Record

LEMMA HeadFrame ==
    ASSUME TypeOK, NEW s \in Source, stack[s] # <<>>
    PROVE  Head(stack[s]) \in Frame /\ Tail(stack[s]) \in Seq(Frame)
BY HeadTailProperties DEF TypeOK

LEMMA HeadRecord ==
    ASSUME TypeOK, NEW s \in Source, At(s, "loaded") \/ At(s, "build")
    PROVE  Head(stack[s]).rec \in Record /\ Head(stack[s]).acc \in SUBSET DataSetId
BY HeadFrame DEF At, Frame

LEMMA HeadOf ==
    ASSUME TypeOK, NEW s \in Source, NEW step, At(s, step)
    PROVE  Head(stack[s]).of \in DataSetId
BY HeadFrame DEF At, Frame

LEMMA PushType ==
    ASSUME TypeOK, NEW s \in Source, NEW f \in Frame, Push(s, f)
    PROVE  stack' \in [Source -> Seq(Frame)]
<1>1. <<f>> \in Seq(Frame) /\ stack[s] \in Seq(Frame)
  BY DEF TypeOK
<1>2. <<f>> \o stack[s] \in Seq(Frame)
  BY <1>1, ConcatProperties
<1>3. QED
  BY <1>2 DEF Push, TypeOK

LEMMA PopType ==
    ASSUME TypeOK, NEW s \in Source, stack[s] # <<>>, Pop(s)
    PROVE  stack' \in [Source -> Seq(Frame)]
BY HeadFrame DEF Pop, TypeOK

LEMMA BecomeType ==
    ASSUME TypeOK, NEW s \in Source, NEW f \in Frame, stack[s] # <<>>, Become(s, f)
    PROVE  stack' \in [Source -> Seq(Frame)]
<1>1. <<f>> \in Seq(Frame) /\ Tail(stack[s]) \in Seq(Frame)
  BY HeadFrame
<1>2. <<f>> \o Tail(stack[s]) \in Seq(Frame)
  BY <1>1, ConcatProperties
<1>3. QED
  BY <1>2 DEF Become, TypeOK

-----------------------------------------------------------------------------
\* The call in progress.

\* What the phase of a call says about its records: those passed by the loop of
\* save_many have an id, a method that writes has a record to write, and one that
\* has found a dataset or a record holds it.
CallShape(c) ==
    /\ c.phase = "check" =>
          c.recs # <<>> /\ c.count = 0 /\ \A i \in 1 .. Len(c.recs) : c.recs[i].id = Root
    /\ c.phase = "assign" =>
          c.count < Len(c.recs) /\ \A i \in 1 .. Len(c.recs) : c.recs[i].id # Root <=> i <= c.count
    /\ c.phase = "insert" =>
          /\ c.recs # <<>> /\ c.count <= Len(c.recs)
          /\ \A i \in 1 .. Len(c.recs) : c.recs[i].id # Root
    /\ c.phase \notin {"check", "assign", "insert"} => c.recs = <<>> /\ c.count = 0
    /\ c.phase = "find_detail" => c.op = "get"
    /\ c.op = "get" /\ c.phase \in {"find_detail", "check", "assign", "insert"} => c.result \in Record
    /\ c.phase = "found_id" => c.result \in Record

CallInv == \A s \in Source : CallShape(call[s])

LEMMA NoCallType == NoCall \in Call /\ CallShape(NoCall)
<1>1. <<>> \in Seq(Record)
  BY EmptySeq
<1>2. QED
  BY <1>1, RootType DEF NoCall, Call, Method, Phase, CallShape

LEMMA CallChange ==
    ASSUME TypeOK, CallInv, NEW s \in Source, NEW c \in Call, CallShape(c),
           call' = [call EXCEPT ![s] = c]
    PROVE  call' \in [Source -> Call] /\ CallInv'
BY DEF TypeOK, CallInv

LEMMA DoneType ==
    ASSUME TypeOK, CallInv, NEW s \in Source, NEW result \in Record \cup {None, Error}, Done(s, result)
    PROVE  call' \in [Source -> Call] /\ CallInv'
<1> DEFINE c == [call[s] EXCEPT !.phase = "done", !.result = result, !.recs = <<>>, !.count = 0]
<1>1. <<>> \in Seq(Record)
  BY EmptySeq
<1>2. call[s] \in Call
  BY DEF TypeOK
<1>3. c \in Call /\ CallShape(c)
  BY <1>1, <1>2 DEF Call, Phase, CallShape
<1>4. call' = [call EXCEPT ![s] = c]
  BY DEF Done
<1> HIDE DEF c
<1>5. QED
  BY <1>3, <1>4, CallChange

LEMMA ThrowType ==
    ASSUME TypeOK, CallInv, NEW s \in Source, Throw(s)
    PROVE  call' \in [Source -> Call] /\ CallInv' /\ stack' \in [Source -> Seq(Frame)]
<1>1. <<>> \in Seq(Frame)
  BY EmptySeq
<1>2. stack' \in [Source -> Seq(Frame)]
  BY <1>1 DEF Throw, TypeOK
<1>3. QED
  BY <1>2, DoneType DEF Throw

\* A request is made of a source that runs no method; what it begins fits CallShape.
LEMMA BeginType ==
    ASSUME TypeOK, CallInv, NEW s \in Source, NEW op \in Method,
           NEW key \in Key \cup {None}, NEW ds \in DataSetId,
           NEW phase, NEW recs \in Seq(Record),
           \/ phase = "find" /\ recs = <<>>
           \/ phase = "check" /\ op # "get" /\ recs # <<>> /\ \A i \in 1 .. Len(recs) : recs[i].id = Root,
           Begin(s, op, phase, key, ds, recs)
    PROVE  TypeOK' /\ CallInv'
<1> DEFINE c == [NoCall EXCEPT !.op = op, !.phase = phase, !.key = key, !.ds = ds, !.recs = recs]
<1>1. c \in Call
  BY NoCallType DEF Call, Phase
<1>2. CallShape(c)
  BY NoCallType DEF Call, CallShape, NoCall
<1>3. call' = [call EXCEPT ![s] = c]
  BY DEF Begin
<1> HIDE DEF c
<1>4. call' \in [Source -> Call] /\ CallInv'
  BY <1>1, <1>2, <1>3, CallChange
<1>5. QED
  BY <1>4 DEF Begin, TypeOK, caches

LEMMA BeginSave ==
    ASSUME TypeOK, CallInv, NEW s \in Source, NEW ds \in DataSetId, NEW recs \in Seq(Record),
           recs # <<>>, \A i \in 1 .. Len(recs) : recs[i].id = Root,
           Begin(s, "save", "check", None, ds, recs)
    PROVE  TypeOK' /\ CallInv'
BY BeginType DEF Method

\* The call alone changes, to one that is over, or to a phase without records.
LEMMA CallOnly ==
    ASSUME TypeOK, CallInv, NEW s \in Source, NEW c \in Call, CallShape(c),
           call' = [call EXCEPT ![s] = c],
           UNCHANGED <<db, issued, prev, caches, stack, mine>>
    PROVE  TypeOK' /\ CallInv'
BY CallChange DEF TypeOK, caches

LEMMA LoadByKeyType ==
    ASSUME TypeOK, NEW s \in Source, NEW key, NEW from
    PROVE  LoadByKey(s, key, from) \in db \cup {None}
BY DEF LoadByKey, FinalConstraints

LEMMA TargetType ==
    ASSUME TypeOK
    PROVE  KnownTargets \subseteq DataSetId /\ DataSetRecords \subseteq Record
BY RootType DEF KnownTargets, KnownDataSets, DataSetRecords, TypeOK, Record

-----------------------------------------------------------------------------
\* Every action keeps TypeOK and CallInv: the public methods.

LEMMA NewRecordSeq ==
    ASSUME NEW key \in Key, NEW type \in DataType \cup {None}, NEW r \in Record,
           r.id = NewRecord(key, type).id
    PROVE  <<r>> \in Seq(Record) /\ <<r>> # <<>> /\ \A i \in 1 .. Len(<<r>>) : <<r>>[i].id = Root
<1>1. <<r>> \in Seq(Record) /\ Len(<<r>>) = 1 /\ <<r>>[1] = r
  OBVIOUS
<1>2. r.id = Root
  BY DEF NewRecord
<1>3. QED
  BY <1>1, <1>2, EmptySeq

LEMMA RequestType ==
    ASSUME TypeOK, CallInv, NEW s \in Source, Request(s)
    PROVE  TypeOK' /\ CallInv'
<1>1. CASE SaveMany(s)
  <2>0. PICK ds \in KnownTargets, n \in 1 .. MaxBatch :
          \E recs \in [1 .. n -> {NewRecord(DataKeyOf(k), t) : k \in DataKey, t \in DataType}] :
             Begin(s, "save", "check", None, ds, recs)
    BY <1>1 DEF SaveMany
  <2>1. PICK recs \in [1 .. n -> {NewRecord(DataKeyOf(k), t) : k \in DataKey, t \in DataType}] :
          Begin(s, "save", "check", None, ds, recs)
    BY <2>0
  <2>2. n \in Nat /\ n > 0
    BY ConstantsAssumption DEF ConstantsAssumption
  <2>3. \A i \in 1 .. n : recs[i] \in Record /\ recs[i].id = Root
    BY KeyType, NewRecordType DEF NewRecord
  <2>4. recs \in Seq(Record) /\ Len(recs) = n
    BY <2>2, <2>3
  <2>5. recs # <<>>
    BY <2>2, <2>4, EmptySeq
  <2>6. \A i \in 1 .. Len(recs) : recs[i].id = Root
    BY <2>3, <2>4
  <2>7. ds \in DataSetId /\ "save" \in Method
    BY TargetType DEF Method
  <2>8. QED
    BY <2>1, <2>4, <2>5, <2>6, <2>7, BeginSave
<1>2. CASE SaveDetail(s)
  <2>1. PICK r \in DataSetRecords, d \in Details :
          Begin(s, "detail", "check", None, r.data_set,
                <<[NewRecord(DataSetDetailKeyOf(r.id), None) EXCEPT !.detail = d]>>)
    BY <1>2 DEF SaveDetail
  <2> DEFINE key == DataSetDetailKeyOf(r.id)
             rec == [NewRecord(key, None) EXCEPT !.detail = d]
  <2>2. r \in Record /\ r.data_set \in DataSetId /\ key \in Key /\ d \in Detail
    BY TargetType, KeyType, ConstantsAssumption DEF Record, ConstantsAssumption
  <2>3. rec \in Record /\ rec.id = NewRecord(key, None).id
    BY <2>2, NewRecordType DEF Record, NewRecord
  <2> HIDE DEF key, rec
  <2>4. <<rec>> \in Seq(Record) /\ <<rec>> # <<>> /\ \A i \in 1 .. Len(<<rec>>) : <<rec>>[i].id = Root
    BY <2>2, <2>3, NewRecordSeq
  <2>5. Begin(s, "detail", "check", None, r.data_set, <<rec>>)
    BY <2>1 DEF rec, key
  <2>6. QED
    BY <2>2, <2>4, <2>5, BeginType DEF Method
<1>3. CASE DeleteRecord(s)
  <2>1. PICK ds \in KnownTargets, key \in DeletedKeys :
          Begin(s, "delete", "check", key, ds, <<[NewRecord(key, None) EXCEPT !.deleted = TRUE]>>)
    BY <1>3 DEF DeleteRecord
  <2> DEFINE rec == [NewRecord(key, None) EXCEPT !.deleted = TRUE]
  <2>2. key \in Key
    BY ConstantsAssumption DEF ConstantsAssumption
  <2>3. rec \in Record /\ rec.id = NewRecord(key, None).id
    BY <2>2, NewRecordType DEF Record, NewRecord
  <2> HIDE DEF rec
  <2>4. <<rec>> \in Seq(Record) /\ <<rec>> # <<>> /\ \A i \in 1 .. Len(<<rec>>) : <<rec>>[i].id = Root
    BY <2>2, <2>3, NewRecordSeq
  <2>5. Begin(s, "delete", "check", key, ds, <<rec>>)
    BY <2>1 DEF rec
  <2>6. QED
    BY <2>2, <2>4, <2>5, TargetType, BeginType DEF Method
<1>4. CASE LoadOrNull(s)
  <2>1. PICK ds \in KnownTargets, k \in DataKey : Begin(s, "load", "find", DataKeyOf(k), ds, <<>>)
    BY <1>4 DEF LoadOrNull
  <2>2. QED
    BY <2>1, EmptySeq, KeyType, TargetType, BeginType DEF Method
<1>5. CASE LoadOrNullById(s)
  <2>1. NoCall \in Call /\ [NoCall EXCEPT !.op = "load_id", !.phase = "done"] \in Call
        /\ CallShape([NoCall EXCEPT !.op = "load_id", !.phase = "done"])
    BY NoCallType DEF Call, Method, Phase, CallShape, NoCall
  <2>2. \A r \in Record :
          /\ [NoCall EXCEPT !.op = "load_id", !.phase = "found_id", !.result = r] \in Call
          /\ CallShape([NoCall EXCEPT !.op = "load_id", !.phase = "found_id", !.result = r])
    BY NoCallType DEF Call, Method, Phase, CallShape, NoCall
  <2>3. /\ [NoCall EXCEPT !.op = "load_id", !.phase = "done", !.result = Error] \in Call
        /\ CallShape([NoCall EXCEPT !.op = "load_id", !.phase = "done", !.result = Error])
    BY NoCallType DEF Call, Method, Phase, CallShape, NoCall
  <2>4. \E c \in Call : CallShape(c) /\ call' = [call EXCEPT ![s] = c]
    <3>1. PICK id \in issued, t \in DataType :
            \/ call' = [call EXCEPT ![s] = [NoCall EXCEPT !.op = "load_id", !.phase = "done"]]
            \/ \E r \in LoadById(id, "Data") :
                call' = [call EXCEPT ![s] =
                    IF <<t, r.type>> \in Assignable
                    THEN [NoCall EXCEPT !.op = "load_id", !.phase = "found_id", !.result = r]
                    ELSE [NoCall EXCEPT !.op = "load_id", !.phase = "done", !.result = Error]]
      BY <1>5 DEF LoadOrNullById
    <3>2. \A r \in LoadById(id, "Data") : r \in Record
      BY DEF LoadById, TypeOK
    <3>3. QED
      BY <2>1, <2>2, <2>3, <3>1, <3>2
  <2>5. UNCHANGED <<db, issued, prev, caches, stack, mine>>
    BY <1>5 DEF LoadOrNullById
  <2>6. QED
    BY <2>4, <2>5, CallOnly
<1>6. CASE CreateDataSet(s)
  <2>1. PICK ds \in KnownTargets, n \in Name, imports \in Imports :
          Begin(s, "create", "check", DataSetKeyOf(n), ds,
                <<[NewRecord(DataSetKeyOf(n), None) EXCEPT !.imports = imports]>>)
    BY <1>6 DEF CreateDataSet
  <2> DEFINE key == DataSetKeyOf(n)
             rec == [NewRecord(key, None) EXCEPT !.imports = imports]
  <2>2. key \in Key /\ imports \in SUBSET DataSetId
    BY KeyType, ConstantsAssumption DEF ConstantsAssumption
  <2>3. rec \in Record /\ rec.id = NewRecord(key, None).id
    BY <2>2, NewRecordType DEF Record, NewRecord
  <2>4. Begin(s, "create", "check", key, ds, <<rec>>)
    BY <2>1
  <2> HIDE DEF key, rec
  <2>5. <<rec>> \in Seq(Record) /\ <<rec>> # <<>> /\ \A i \in 1 .. Len(<<rec>>) : <<rec>>[i].id = Root
    BY <2>2, <2>3, NewRecordSeq
  <2>6. QED
    BY <2>2, <2>4, <2>5, TargetType, BeginType DEF Method
<1>7. CASE GetDataSet(s)
  <2>1. PICK ds \in KnownTargets, n \in Name : Begin(s, "get", "find", DataSetKeyOf(n), ds, <<>>)
    BY <1>7 DEF GetDataSet
  <2>2. QED
    BY <2>1, EmptySeq, KeyType, TargetType, BeginType DEF Method
<1>8. CASE GetCachedDataSet(s)
  <2>1. PICK n \in Name :
          /\ names[s][n] # None
          /\ call' = [call EXCEPT ![s] = [NoCall EXCEPT !.op = "get", !.phase = "done",
                                          !.key = DataSetKeyOf(n), !.found = names[s][n]]]
    BY <1>8 DEF GetCachedDataSet
  <2>2. names[s][n] \in DataSetId
    BY <2>1 DEF TypeOK
  <2> DEFINE c == [NoCall EXCEPT !.op = "get", !.phase = "done",
                                 !.key = DataSetKeyOf(n), !.found = names[s][n]]
  <2>3. c \in Call /\ CallShape(c)
    BY <2>2, NoCallType, KeyType DEF Call, Method, Phase, CallShape, NoCall
  <2>4. call' = [call EXCEPT ![s] = c]
    BY <2>1
  <2> HIDE DEF c
  <2>5. QED
    BY <1>8, <2>3, <2>4, CallOnly DEF GetCachedDataSet
<1>9. QED
  BY <1>1, <1>2, <1>3, <1>4, <1>5, <1>6, <1>7, <1>8 DEF Request

-----------------------------------------------------------------------------
\* The recursive methods on datasets.

LEMMA ResolveType ==
    ASSUME TypeOK, CallInv, NEW s \in Source,
           \/ ResolveDetail(s) \/ ResolveLookup(s) \/ ResolveLoaded(s)
           \/ BuildSelf(s) \/ BuildImports(s) \/ Demand(s)
    PROVE  TypeOK' /\ CallInv'
<1>1. CASE ResolveDetail(s)
  <2> DEFINE n == Head(stack[s]).of
             owner == OwnerOf(s, n)
             found == LoadByKey(s, DataSetDetailKeyOf(n), owner)
  <2>1. n \in DataSetId /\ stack[s] # <<>>
    BY <1>1, HeadOf DEF ResolveDetail, At
  <2>2. owner \in DataSetId
    BY <2>1, RootType DEF OwnerOf, TypeOK
  <2>3. found \in Record \cup {None}
    BY LoadByKeyType DEF TypeOK
  <2>4. Settings(found) \in Detail
    BY <2>3, NoDetailType DEF Settings, Record
  <2> HIDE DEF found
  <2>5. /\ owners' = [owners EXCEPT ![s][n] = owner]
        /\ \/ Push(s, LookupFrame(owner)) /\ details' = details
           \/ Push(s, DetailFrame(owner)) /\ details' = details
           \/ details' = [details EXCEPT ![s][n] = Settings(found)] /\ Pop(s)
    BY <1>1 DEF ResolveDetail, found
  <2>6. owners' \in [Source -> [DataSetId -> DataSetId \cup {None}]]
    BY <2>2, <2>5 DEF TypeOK
  <2>7. details' \in [Source -> [DataSetId -> Detail \cup {None}]]
    <3>1. Settings(found) \in Detail \cup {None} /\ details \in [Source -> [DataSetId -> Detail \cup {None}]]
      BY <2>4 DEF TypeOK
    <3>2. [details EXCEPT ![s][n] = Settings(found)] \in [Source -> [DataSetId -> Detail \cup {None}]]
      BY <3>1, EntryType
    <3>3. QED
      BY <2>5, <3>1, <3>2
  <2>8. stack' \in [Source -> Seq(Frame)]
    BY <2>1, <2>2, <2>5, FrameTypes, PushType, PopType
  <2>9. QED
    BY <1>1, <2>6, <2>7, <2>8 DEF ResolveDetail, TypeOK, CallInv
<1>2. CASE ResolveLookup(s)
  <2>1. CASE Throw(s)
    BY <1>2, <2>1, ThrowType DEF ResolveLookup, TypeOK, caches
  <2>2. CASE \E r \in LoadById(Head(stack[s]).of, "DataSet") : Become(s, LoadedFrame(r)) /\ call' = call
    <3>1. LoadById(Head(stack[s]).of, "DataSet") \subseteq Record /\ stack[s] # <<>>
      BY <1>2 DEF LoadById, TypeOK, ResolveLookup, At
    <3>2. stack' \in [Source -> Seq(Frame)]
      BY <2>2, <3>1, FrameTypes, BecomeType
    <3>3. QED
      BY <1>2, <2>2, <3>2 DEF ResolveLookup, TypeOK, CallInv, caches
  <2>3. QED
    BY <1>2, <2>1, <2>2 DEF ResolveLookup
<1>3. CASE ResolveLoaded(s)
  <2> DEFINE r == Head(stack[s]).rec
  <2>1. r \in Record /\ stack[s] # <<>>
    BY <1>3, HeadRecord DEF ResolveLoaded, At
  <2>2. CASE Throw(s)
    BY <1>3, <2>2, ThrowType DEF ResolveLoaded, TypeOK, caches
  <2>3. CASE (Push(s, DetailFrame(r.data_set)) \/ Become(s, BuildFrame(r, {}))) /\ call' = call
    <3>1. r.data_set \in DataSetId /\ {} \in SUBSET DataSetId
      BY <2>1 DEF Record
    <3>2. stack' \in [Source -> Seq(Frame)]
      BY <2>1, <2>3, <3>1, FrameTypes, PushType, BecomeType
    <3>3. QED
      BY <1>3, <2>3, <3>2 DEF ResolveLoaded, TypeOK, CallInv, caches
  <2>4. QED
    BY <1>3, <2>2, <2>3 DEF ResolveLoaded
<1>4. CASE BuildSelf(s)
  <2> DEFINE r == Head(stack[s]).rec
  <2>1. r \in Record /\ stack[s] # <<>>
    BY <1>4, HeadRecord DEF BuildSelf, At
  <2>2. r.id \in DataSetId /\ r.data_set \in DataSetId /\ {r.id} \in SUBSET DataSetId
    BY <2>1 DEF Record
  <2>3. \/ (Push(s, DetailFrame(r.data_set)) \/ Become(s, BuildFrame(r, {r.id}))) /\ parents' = parents
        \/ parents' = [parents EXCEPT ![s][r.id] = {}] /\ Pop(s)
    BY <1>4 DEF BuildSelf
  <2>4. stack' \in [Source -> Seq(Frame)]
    BY <2>1, <2>2, <2>3, FrameTypes, PushType, BecomeType, PopType
  <2>5. parents' \in [Source -> [DataSetId -> (SUBSET DataSetId) \cup {None}]]
    <3>1. {} \in (SUBSET DataSetId) \cup {None}
          /\ parents \in [Source -> [DataSetId -> (SUBSET DataSetId) \cup {None}]]
      BY DEF TypeOK
    <3>2. [parents EXCEPT ![s][r.id] = {}] \in [Source -> [DataSetId -> (SUBSET DataSetId) \cup {None}]]
      BY <3>1, EntryType
    <3>3. QED
      BY <2>3, <3>1, <3>2
  <2>6. QED
    BY <1>4, <2>4, <2>5 DEF BuildSelf, TypeOK, CallInv
<1>5. CASE BuildImports(s)
  <2> DEFINE r == Head(stack[s]).rec
             acc == Head(stack[s]).acc
  <2>1. r \in Record /\ acc \in SUBSET DataSetId /\ stack[s] # <<>>
    BY <1>5, HeadRecord DEF BuildImports, At
  <2>2. \/ parents' = [parents EXCEPT ![s][r.id] = acc] /\ Pop(s)
        \/ /\ \E i \in ImportsLeft(r, acc) :
                IF HasLookupList(s, i)
                THEN Become(s, BuildFrame(r, WithImport(s, acc, i)))
                ELSE Push(s, LookupFrame(i))
           /\ parents' = parents
    BY <1>5 DEF BuildImports
  <2>3. ImportsLeft(r, acc) \subseteq DataSetId
    BY <2>1 DEF ImportsLeft, Record
  <2>4. \A i \in DataSetId : HasLookupList(s, i) => WithImport(s, acc, i) \in SUBSET DataSetId
    <3> SUFFICES ASSUME NEW i \in DataSetId, HasLookupList(s, i)
                 PROVE  WithImport(s, acc, i) \in SUBSET DataSetId
      OBVIOUS
    <3>1. LookupList(s, i) \in SUBSET DataSetId
      BY RootType DEF HasLookupList, LookupList, TypeOK
    <3>2. QED
      BY <2>1, <3>1 DEF WithImport
  <2> HIDE DEF r, acc
  <2>5. stack' \in [Source -> Seq(Frame)]
    <3>1. CASE Pop(s)
      BY <2>1, <3>1, PopType
    <3>2. ASSUME NEW i \in ImportsLeft(r, acc),
                 IF HasLookupList(s, i)
                 THEN Become(s, BuildFrame(r, WithImport(s, acc, i)))
                 ELSE Push(s, LookupFrame(i))
          PROVE  stack' \in [Source -> Seq(Frame)]
      <4>1. i \in DataSetId
        BY <2>3
      <4>2. CASE HasLookupList(s, i)
        <5>1. BuildFrame(r, WithImport(s, acc, i)) \in Frame
          BY <2>1, <2>4, <4>1, <4>2, FrameTypes
        <5>2. QED
          BY <2>1, <3>2, <4>2, <5>1, BecomeType
      <4>3. CASE ~HasLookupList(s, i)
        BY <3>2, <4>1, <4>3, FrameTypes, PushType
      <4>4. QED
        BY <4>2, <4>3
    <3>3. QED
      BY <2>2, <3>1, <3>2
  <2>6. parents' \in [Source -> [DataSetId -> (SUBSET DataSetId) \cup {None}]]
    <3>1. acc \in (SUBSET DataSetId) \cup {None}
          /\ parents \in [Source -> [DataSetId -> (SUBSET DataSetId) \cup {None}]]
      BY <2>1 DEF TypeOK
    <3>2. [parents EXCEPT ![s][r.id] = acc] \in [Source -> [DataSetId -> (SUBSET DataSetId) \cup {None}]]
      BY <3>1, EntryType
    <3>3. QED
      BY <2>2, <3>1, <3>2
  <2>7. QED
    BY <1>5, <2>5, <2>6 DEF BuildImports, TypeOK, CallInv
<1>6. CASE Demand(s)
  <2>1. call[s].ds \in DataSetId /\ (call[s].phase = "found_id" => call[s].result.data_set \in DataSetId)
    BY DEF TypeOK, Call, CallInv, CallShape, Record
  <2>2. \/ Push(s, DetailFrame(call[s].ds)) \/ Push(s, LookupFrame(call[s].ds))
        \/ call[s].phase = "found_id" /\ Push(s, DetailFrame(call[s].result.data_set))
    BY <1>6 DEF Demand
  <2>3. stack' \in [Source -> Seq(Frame)]
    BY <2>1, <2>2, FrameTypes, PushType
  <2>4. QED
    BY <1>6, <2>3 DEF Demand, TypeOK, CallInv, caches
<1>7. QED
  BY <1>1, <1>2, <1>3, <1>4, <1>5, <1>6

-----------------------------------------------------------------------------
\* The steps of the public methods, and the failures.

LEMMA CacheDataSetType ==
    ASSUME TypeOK, CallInv, NEW s \in Source, NEW r \in Record, CacheDataSet(s, r)
    PROVE  /\ names' \in [Source -> [Name -> DataSetId \cup {None}]]
           /\ owners' \in [Source -> [DataSetId -> DataSetId \cup {None}]]
           /\ stack' \in [Source -> Seq(Frame)]
           /\ call' \in [Source -> Call] /\ CallInv'
           /\ UNCHANGED <<details, parents>>
<1> DEFINE c == [call[s] EXCEPT !.phase = "build", !.found = r.id, !.result = None,
                                !.recs = <<>>, !.count = 0]
<1>1. r.id \in DataSetId /\ r.data_set \in DataSetId /\ {} \in SUBSET DataSetId /\ call[s] \in Call
  BY DEF Record, TypeOK
<1>2. c \in Call /\ CallShape(c)
  BY <1>1, EmptySeq DEF Call, Phase, CallShape
<1>3. call' = [call EXCEPT ![s] = c]
  BY DEF CacheDataSet
<1> HIDE DEF c
<1>4. call' \in [Source -> Call] /\ CallInv'
  BY <1>2, <1>3, CallChange
<1>5. BuildFrame(r, {}) \in Frame
  BY <1>1, FrameTypes
<1>6. stack' \in [Source -> Seq(Frame)]
  BY <1>5, PushType DEF CacheDataSet, TypeOK
<1>7. names' \in [Source -> [Name -> DataSetId \cup {None}]]
  BY <1>1 DEF CacheDataSet, TypeOK
<1>8. owners' \in [Source -> [DataSetId -> DataSetId \cup {None}]]
  BY <1>1 DEF CacheDataSet, TypeOK
<1>9. QED
  BY <1>4, <1>6, <1>7, <1>8 DEF CacheDataSet

LEMMA AssignType ==
    ASSUME TypeOK, CallInv, NEW s \in Source, Assign(s)
    PROVE  TypeOK' /\ CallInv'
<1> DEFINE c == call[s]
           next == c.count + 1
           Assigned(id) == [c.recs EXCEPT ![next].id = id, ![next].data_set = c.ds]
           last == next = Len(c.recs)
           Now(id) == [c EXCEPT !.recs = Assigned(id), !.phase = IF last THEN "insert" ELSE @,
                                !.count = IF last THEN 0 ELSE next]
<1>1. PICK id \in NewIds(s) :
        /\ prev' = [prev EXCEPT ![s] = id]
        /\ issued' = issued \cup {id}
        /\ \/ call' = [call EXCEPT ![s] = Now(id)]
           \/ Done(s, Error)
  <2>1. PICK id \in NewIds(s) :
          /\ prev' = [prev EXCEPT ![s] = id]
          /\ issued' = issued \cup {id}
          /\ \/ call' = [call EXCEPT ![s].recs = Assigned(id),
                             ![s].phase = IF last THEN "insert" ELSE @,
                             ![s].count = IF last THEN 0 ELSE next]
             \/ Done(s, Error)
    BY DEF Assign
  <2> HIDE DEF Assigned, last, next
  <2>2. call' = [call EXCEPT ![s] = Now(id)] \/ Done(s, Error)
    BY <2>1
  <2>3. QED
    BY <2>1, <2>2
<1>2. id \in Id /\ id \in DataSetId /\ id # Root
  BY RootType DEF NewIds, FreeIds, Id, Root
<1>3. prev' \in [Source -> DataSetId] /\ issued' \subseteq Id
  BY <1>1, <1>2 DEF TypeOK
<1>4. c \in Call /\ CallShape(c) /\ c.phase = "assign"
  BY DEF Assign, In, TypeOK, CallInv
<1>5. c.recs \in Seq(Record) /\ c.count \in Nat /\ c.ds \in DataSetId /\ Len(c.recs) \in Nat
  BY <1>4 DEF Call
<1>6. c.count < Len(c.recs) /\ \A i \in 1 .. Len(c.recs) : c.recs[i].id # Root <=> i <= c.count
  BY <1>4 DEF CallShape
<1>7. next \in 1 .. Len(c.recs)
  BY <1>5, <1>6
<1>8. c.recs[next] \in Record
  BY <1>5, <1>7, ElementOfSeq
<1>9. /\ Assigned(id) = [c.recs EXCEPT ![next] = [c.recs[next] EXCEPT !.id = id, !.data_set = c.ds]]
      /\ [c.recs[next] EXCEPT !.id = id, !.data_set = c.ds] \in Record
      /\ [c.recs[next] EXCEPT !.id = id, !.data_set = c.ds].id = id
  BY <1>2, <1>5, <1>8 DEF Record
<1>10. /\ Assigned(id) \in Seq(Record)
       /\ Len(Assigned(id)) = Len(c.recs)
       /\ \A i \in 1 .. Len(c.recs) : Assigned(id)[i].id = IF i = next THEN id ELSE c.recs[i].id
  <2>1. PICK e : e = [c.recs[next] EXCEPT !.id = id, !.data_set = c.ds]
    OBVIOUS
  <2>2. Assigned(id) = [c.recs EXCEPT ![next] = e] /\ e \in Record /\ e.id = id
    BY <1>9, <2>1
  <2>3. PICK rs : rs = [c.recs EXCEPT ![next] = e]
    OBVIOUS
  <2>4. /\ rs \in Seq(Record) /\ Len(rs) = Len(c.recs)
        /\ \A i \in 1 .. Len(c.recs) : rs[i] = IF i = next THEN e ELSE c.recs[i]
    <3>1. e \in Record /\ c.recs \in Seq(Record)
      BY <1>5, <2>2
    <3> HIDE DEF Assigned, next
    <3>2. QED
      BY <1>7, <2>3, <3>1, ExceptSeq
  <2>5. Assigned(id) = rs
    BY <2>2, <2>3
  <2> HIDE DEF Assigned
  <2>6. QED
    BY <2>2, <2>4, <2>5
<1> DEFINE recs == Assigned(id)
<1> HIDE DEF recs
<1>11. recs \in Seq(Record) /\ Len(recs) = Len(c.recs) /\ next \in Nat
       /\ \A i \in 1 .. Len(c.recs) : recs[i].id = IF i = next THEN id ELSE c.recs[i].id
  <2>1. next \in Nat
    BY <1>5
  <2> HIDE DEF Assigned, next
  <2>2. QED
    BY <1>10, <2>1 DEF recs
<1>12. Now(id) \in Call /\ CallShape(Now(id))
  <2>1. CASE last
    <3> DEFINE now == [c EXCEPT !.recs = recs, !.phase = "insert", !.count = 0]
    <3>1. \A i \in 1 .. Len(recs) : recs[i].id # Root
      <4> SUFFICES ASSUME NEW i \in 1 .. Len(c.recs), i # next
                   PROVE  c.recs[i].id # Root
        BY <1>2, <1>11
      <4>1. i <= c.count
        BY <1>5, <2>1
      <4>2. QED
        BY <1>6, <4>1
    <3>2. recs # <<>>
      BY <1>7, <1>11, EmptySeq
    <3>3. now \in Call /\ now.recs = recs /\ now.phase = "insert" /\ now.count = 0
      BY <1>4, <1>11 DEF Call, Phase
    <3>4. Now(id) = now
      BY <2>1 DEF recs
    <3> HIDE DEF now, Now
    <3>5. 0 <= Len(recs) /\ (c.op = "get" => now.result \in Record)
      BY <1>4, <1>5, <1>11 DEF now, CallShape, Call
    <3>6. now.op = c.op
      BY <1>4 DEF now, Call
    <3>7. CallShape(now)
      BY <3>1, <3>2, <3>3, <3>5, <3>6 DEF CallShape
    <3>8. QED
      BY <3>3, <3>4, <3>7
  <2>2. CASE ~last
    <3> DEFINE now == [c EXCEPT !.recs = recs, !.count = next]
    <3>1. next < Len(recs)
      BY <1>5, <1>7, <1>11, <2>2
    <3>2. \A i \in 1 .. Len(recs) : recs[i].id # Root <=> i <= next
      BY <1>2, <1>5, <1>6, <1>11
    <3>3. now \in Call /\ now.recs = recs /\ now.phase = "assign" /\ now.count = next
      BY <1>4, <1>11 DEF Call, Phase
    <3>4. Now(id) = now
      BY <1>4, <2>2 DEF recs, Call
    <3> HIDE DEF now, Now, next
    <3>5. c.op = "get" => now.result \in Record
      BY <1>4 DEF now, CallShape, Call
    <3>6. now.op = c.op
      BY <1>4 DEF now, Call
    <3>7. CallShape(now)
      BY <3>1, <3>2, <3>3, <3>5, <3>6 DEF CallShape
    <3>8. QED
      BY <3>3, <3>4, <3>7
  <2>3. QED
    BY <2>1, <2>2
<1> HIDE DEF Now, Assigned, next, last
<1>13. call' \in [Source -> Call] /\ CallInv'
  BY <1>1, <1>12, CallChange, DoneType
<1>14. QED
  BY <1>3, <1>13 DEF Assign, TypeOK, caches

LEMMA InsertType ==
    ASSUME TypeOK, CallInv, NEW s \in Source, Insert(s)
    PROVE  TypeOK' /\ CallInv'
<1> DEFINE c == call[s]
           now == [c EXCEPT !.count = @ + 1]
<1>1. c \in Call /\ CallShape(c) /\ c.phase = "insert" /\ c.count < Len(c.recs)
  BY DEF Insert, In, TypeOK, CallInv
<1>2. c.recs \in Seq(Record) /\ c.count \in Nat /\ Len(c.recs) \in Nat
  BY <1>1 DEF Call
<1>3. c.recs[c.count + 1] \in Record
  BY <1>1, <1>2, ElementOfSeq
<1>4. now \in Call /\ CallShape(now)
  <2>1. now \in Call /\ now.recs = c.recs /\ now.phase = "insert" /\ now.count = c.count + 1
        /\ now.op = c.op /\ now.result = c.result
    BY <1>1, <1>2 DEF Call
  <2>2. c.count + 1 <= Len(c.recs)
    BY <1>1, <1>2
  <2> HIDE DEF now
  <2>3. QED
    BY <1>1, <2>1, <2>2 DEF CallShape
<1>5. call' = [call EXCEPT ![s] = now]
  BY DEF Insert
<1> HIDE DEF now
<1>6. call' \in [Source -> Call] /\ CallInv'
  BY <1>4, <1>5, CallChange
<1>7. db' \subseteq Record
  BY <1>3 DEF Insert, Adding, TypeOK
<1>8. QED
  BY <1>6, <1>7 DEF Insert, TypeOK, caches

LEMMA SavedType ==
    ASSUME TypeOK, CallInv, NEW s \in Source, Saved(s)
    PROVE  TypeOK' /\ CallInv'
<1> DEFINE c == call[s]
<1>1. c \in Call /\ CallShape(c) /\ c.phase = "insert"
  BY DEF Saved, In, TypeOK, CallInv
<1>2. c.recs \in Seq(Record) /\ \A i \in 1 .. Len(c.recs) : c.recs[i].id \in DataSetId
  <2>1. c.recs \in Seq(Record)
    BY <1>1 DEF Call
  <2>2. \A i \in 1 .. Len(c.recs) : c.recs[i] \in Record
    BY <2>1, ElementOfSeq
  <2>3. QED
    BY <2>1, <2>2 DEF Record
<1>3. mine' \in [Source -> SUBSET DataSetId]
  BY <1>2 DEF Saved, TypeOK
<1>4. CASE Done(s, None) /\ UNCHANGED <<caches, stack>>
  BY <1>3, <1>4, DoneType DEF Saved, TypeOK, caches
<1>5. ASSUME NEW r \in Record, CacheDataSet(s, r)
      PROVE  TypeOK' /\ CallInv'
  BY <1>3, <1>5, CacheDataSetType DEF Saved, TypeOK
<1>6. c.recs[1] \in Record
  <2>1. Len(c.recs) \in Nat \ {0}
    BY <1>1, <1>2, EmptySeq DEF CallShape
  <2>2. QED
    BY <1>2, <2>1, ElementOfSeq
<1>7. c.op = "get" => c.result \in Record
  BY <1>1 DEF CallShape
<1>8. QED
  BY <1>4, <1>5, <1>6, <1>7 DEF Saved

LEMMA StepType ==
    ASSUME TypeOK, CallInv, NEW s \in Source, Step(s)
    PROVE  TypeOK' /\ CallInv'
<1>1. CASE CheckNotReadOnly(s)
  <2>1. CASE Throw(s)
    BY <1>1, <2>1, ThrowType DEF CheckNotReadOnly, TypeOK, caches
  <2>2. CASE Proceed(s, "assign") /\ stack' = stack
    <3> DEFINE c == [call[s] EXCEPT !.phase = "assign"]
    <3>1. call[s] \in Call /\ CallShape(call[s]) /\ call[s].phase = "check"
      BY <1>1 DEF CheckNotReadOnly, In, TypeOK, CallInv
    <3>2. call[s].recs \in Seq(Record) /\ call[s].recs # <<>>
      BY <3>1 DEF Call, CallShape
    <3>3. Len(call[s].recs) \in Nat \ {0}
      BY <3>2, EmptySeq
    <3>4. c \in Call /\ CallShape(c)
      BY <3>1, <3>3 DEF Call, Phase, CallShape
    <3>5. call' = [call EXCEPT ![s] = c]
      BY <2>2 DEF Proceed
    <3> HIDE DEF c
    <3>6. UNCHANGED <<db, issued, prev, caches, stack, mine>>
      BY <1>1, <2>2 DEF CheckNotReadOnly
    <3>7. QED
      BY <3>4, <3>5, <3>6, CallOnly
  <2>3. QED
    BY <1>1, <2>1, <2>2 DEF CheckNotReadOnly
<1>2. CASE Find(s)
  <2> DEFINE found == LoadByKey(s, call[s].key, call[s].ds)
             c == [call[s] EXCEPT !.phase = "find_detail", !.result = found]
  <2>1. found \in Record \cup {None}
    BY LoadByKeyType DEF TypeOK
  <2> HIDE DEF found
  <2>2. \/ call[s].op = "get" /\ found # None /\ call' = [call EXCEPT ![s] = c]
        \/ Done(s, found)
    BY <1>2 DEF Find, found
  <2>3. call[s] \in Call /\ CallShape(call[s]) /\ call[s].phase = "find"
    BY <1>2 DEF Find, In, TypeOK, CallInv
  <2>4. call[s].op = "get" /\ found # None => c \in Call /\ CallShape(c)
    BY <2>1, <2>3 DEF Call, Phase, CallShape
  <2> HIDE DEF c
  <2>5. call' \in [Source -> Call] /\ CallInv'
    BY <2>1, <2>2, <2>4, CallChange, DoneType
  <2>6. QED
    BY <1>2, <2>5 DEF Find, TypeOK, caches
<1>3. CASE FindDetail(s)
  <2> DEFINE rec == NewRecord(DataSetDetailKeyOf(Root), None)
             c == [call[s] EXCEPT !.phase = "check", !.recs = <<rec>>]
  <2>1. call[s] \in Call /\ CallShape(call[s]) /\ call[s].phase = "find_detail"
    BY <1>3 DEF FindDetail, In, TypeOK, CallInv
  <2>2. CASE CacheDataSet(s, call[s].result)
    <3>1. call[s].result \in Record
      BY <2>1 DEF CallShape
    <3>2. QED
      BY <1>3, <2>2, <3>1, CacheDataSetType DEF FindDetail, TypeOK
  <2>3. CASE call' = [call EXCEPT ![s] = c] /\ UNCHANGED <<caches, stack>>
    <3>1. DataSetDetailKeyOf(Root) \in Key /\ None \in DataType \cup {None}
      BY KeyType, RootType
    <3>2. rec \in Record /\ rec.id = Root
      BY <3>1, NewRecordType DEF NewRecord
    <3> HIDE DEF rec
    <3>3. <<rec>> \in Seq(Record) /\ Len(<<rec>>) = 1 /\ <<rec>>[1] = rec
      BY <3>2
    <3>4. c \in Call /\ c.recs = <<rec>> /\ c.phase = "check" /\ c.count = call[s].count
          /\ c.op = call[s].op /\ c.result = call[s].result
      BY <2>1, <3>3 DEF Call, Phase
    <3>5. call[s].count = 0
      BY <2>1 DEF CallShape
    <3>6. CallShape(c)
      BY <2>1, <3>2, <3>3, <3>4, <3>5, EmptySeq DEF CallShape
    <3> HIDE DEF c
    <3>7. UNCHANGED <<db, issued, prev, caches, stack, mine>>
      BY <1>3, <2>3 DEF FindDetail
    <3>8. QED
      BY <2>3, <3>4, <3>6, <3>7, CallOnly
  <2>4. CacheDataSet(s, call[s].result) \/ (call' = [call EXCEPT ![s] = c] /\ UNCHANGED <<caches, stack>>)
    BY <1>3 DEF FindDetail
  <2>5. QED
    BY <2>2, <2>3, <2>4
<1>4. CASE Built(s)
  <2> DEFINE c == [call[s] EXCEPT !.phase = "done"]
  <2>1. call[s] \in Call /\ CallShape(call[s]) /\ call[s].phase = "build"
    BY <1>4 DEF Built, In, TypeOK, CallInv
  <2>2. c \in Call /\ CallShape(c)
    BY <2>1 DEF Call, Phase, CallShape
  <2>3. call' = [call EXCEPT ![s] = c] /\ UNCHANGED <<db, issued, prev, caches, stack, mine>>
    BY <1>4 DEF Built, Proceed
  <2> HIDE DEF c
  <2>4. QED
    BY <2>2, <2>3, CallOnly
<1>5. CASE FoundId(s)
  <2>1. call[s].result \in Record
    BY <1>5 DEF FoundId, In, CallInv, CallShape
  <2>2. call' \in [Source -> Call] /\ CallInv'
    BY <1>5, <2>1, DoneType DEF FoundId
  <2>3. QED
    BY <1>5, <2>2 DEF FoundId, TypeOK, caches
<1>6. CASE Return(s)
  BY <1>6, NoCallType, CallOnly DEF Return
<1>7. QED
  BY <1>1, <1>2, <1>3, <1>4, <1>5, <1>6, ResolveType, AssignType, InsertType, SavedType DEF Step

LEMMA FaultType ==
    ASSUME TypeOK, CallInv, NEW s \in Source, Fault(s)
    PROVE  TypeOK' /\ CallInv'
<1>1. CASE WriteFails(s)
  BY <1>1, ThrowType DEF WriteFails, TypeOK, caches
<1>2. CASE ReadFails(s)
  BY <1>2, ThrowType DEF ReadFails, TypeOK, caches
<1>3. CASE Restart(s)
  <2>1. call' \in [Source -> Call] /\ CallInv'
    BY <1>3, NoCallType, CallChange DEF Restart
  <2>2. stack' \in [Source -> Seq(Frame)]
    BY <1>3, EmptySeq DEF Restart, TypeOK
  <2>3. prev' \in [Source -> DataSetId] /\ mine' \in [Source -> SUBSET DataSetId]
    BY <1>3, RootType DEF Restart, TypeOK
  <2>4. /\ names' \in [Source -> [Name -> DataSetId \cup {None}]]
        /\ owners' \in [Source -> [DataSetId -> DataSetId \cup {None}]]
        /\ details' \in [Source -> [DataSetId -> Detail \cup {None}]]
        /\ parents' \in [Source -> [DataSetId -> (SUBSET DataSetId) \cup {None}]]
    BY <1>3 DEF Restart, EmptyCaches, TypeOK
  <2>5. QED
    BY <1>3, <2>1, <2>2, <2>3, <2>4 DEF Restart, TypeOK
<1>4. QED
  BY <1>1, <1>2, <1>3 DEF Fault

LEMMA TypeInit == Init => TypeOK /\ CallInv
<1> SUFFICES ASSUME Init
             PROVE  TypeOK /\ CallInv
  OBVIOUS
<1>1. db \subseteq Record /\ issued \subseteq Id
  <2>1. \A r \in Initial : r.id \in 0 .. MaxId /\ r.data_set \in 0 .. MaxId /\ r.id > r.data_set
    BY ConstantsAssumption DEF ConstantsAssumption, Record, DataSetId
  <2>2. QED
    BY <2>1, ConstantsAssumption DEF Init, ConstantsAssumption, Id
<1>2. call \in [Source -> Call] /\ CallInv
  BY NoCallType DEF Init, CallInv
<1>3. stack \in [Source -> Seq(Frame)]
  BY EmptySeq DEF Init
<1>4. QED
  BY <1>1, <1>2, <1>3, RootType DEF Init, TypeOK

LEMMA TypeNext ==
    ASSUME TypeOK, CallInv, [Next]_vars
    PROVE  TypeOK' /\ CallInv'
<1>1. CASE Next
  BY <1>1, RequestType, StepType, FaultType DEF Next
<1>2. CASE UNCHANGED vars
  BY <1>2 DEF vars, caches, TypeOK, CallInv
<1>3. QED
  BY <1>1, <1>2

LEMMA TypeInvariant == Spec => [](TypeOK /\ CallInv)
<1>1. TypeOK /\ CallInv /\ [Next]_vars => (TypeOK /\ CallInv)'
  BY TypeNext
<1>2. QED
  BY <1>1, TypeInit, PTL DEF Spec

\* Every state has the types TypeOK names, whatever the data sources do and
\* whichever calls fail: in particular the caches hold ids, details and lists,
\* never a null record (temporal_mongo_data_source.cpp:331).
THEOREM TypeCorrect == Spec => []TypeOK
<1>1. TypeOK /\ CallInv => TypeOK
  OBVIOUS
<1>2. QED
  BY <1>1, TypeInvariant, PTL

-----------------------------------------------------------------------------
(***************************************************************************)
(* What any number of data sources do to the records they share, proved for *)
(* any settings, initial records and bounds: the ids stored are in order and *)
(* name their records, and TemporalMongoDataSource implements RecordHistory. *)
(*                                                                         *)
(* The argument is about the records on their way to the database.  An id is *)
(* generated once, so the records with an id that the data sources hold are  *)
(* all different; and until the server applies its insert, no stored record  *)
(* has that id.                                                             *)
(***************************************************************************)

\* The invariant of a record that has an id, stored or not.
WellIdentified(r) ==
    /\ r.id \in issued
    /\ r.id > r.data_set
    /\ \A i \in r.imports : r.id > i

Stored ==
    /\ \A r \in db : WellIdentified(r)
    /\ \A r \in db, q \in db : q.id = r.id => q = r

\* The records of s that have an id are at these places.
Identified(s) == {i \in 1 .. Len(call[s].recs) : call[s].recs[i].id # Root}

\* The server has applied the insert of record i of s.
Applied(s, i) == call[s].phase = "insert" /\ i <= call[s].count

Pending ==
    \A s \in Source : \A i \in Identified(s) :
        /\ WellIdentified(call[s].recs[i])
        /\ \A t \in Source : \A j \in Identified(t) :
              call[s].recs[i].id = call[t].recs[j].id => s = t /\ i = j
        /\ ~Applied(s, i) => \A r \in db : r.id # call[s].recs[i].id

StoreInv == TypeOK /\ CallInv /\ Stored /\ Pending

LEMMA StoreInit == Init => StoreInv
<1> SUFFICES ASSUME Init
             PROVE  Stored /\ Pending
  BY TypeInit DEF StoreInv
<1>1. Stored
  BY ConstantsAssumption DEF Init, Stored, WellIdentified, ConstantsAssumption
<1>2. \A s \in Source : Identified(s) = {}
  BY EmptySeq DEF Init, Identified, NoCall
<1>3. QED
  BY <1>1, <1>2 DEF Pending

\* A step that stores nothing and gives no record an id keeps the invariant.
LEMMA QuietStep ==
    ASSUME StoreInv, TypeOK', CallInv', db' = db, issued' = issued,
           \A s \in Source :
               \/ call'[s] = call[s]
               \/ call'[s].phase \notin {"assign", "insert"}
               \/ call'[s].phase = "assign" /\ call'[s].count = 0
    PROVE  StoreInv'
<1>1. \A s \in Source :
        \/ call'[s] = call[s]
        \/ Identified(s)' = {}
  <2> SUFFICES ASSUME NEW s \in Source, call'[s] # call[s],
                      NEW i \in 1 .. Len(call'[s].recs)
               PROVE  call'[s].recs[i].id = Root
    BY DEF Identified
  <2>1. CallShape(call'[s]) /\ call'[s] \in Call
    BY DEF CallInv, TypeOK
  <2>2. CASE call'[s].phase = "check"
    BY <2>1, <2>2 DEF CallShape
  <2>3. CASE call'[s].phase = "assign" /\ call'[s].count = 0
    <3>1. ~(i <= call'[s].count)
      BY <2>3
    <3>2. QED
      BY <2>1, <2>3, <3>1 DEF CallShape
  <2>4. CASE call'[s].phase \notin {"check", "assign", "insert"}
    <3>1. call'[s].recs = <<>>
      BY <2>1, <2>4 DEF CallShape
    <3>2. QED
      BY <3>1
  <2>5. QED
    BY <2>2, <2>3, <2>4
<1>2. Stored'
  BY DEF StoreInv, Stored, WellIdentified
<1>3. \A s \in Source : \A i \in Identified(s)' :
         i \in Identified(s) /\ call'[s] = call[s]
  BY <1>1 DEF Identified
<1>4. Pending'
  <2> SUFFICES ASSUME NEW s \in Source, NEW i \in Identified(s)'
               PROVE  /\ WellIdentified(call[s].recs[i])'
                      /\ \A t \in Source : \A j \in Identified(t)' :
                            call'[s].recs[i].id = call'[t].recs[j].id => s = t /\ i = j
                      /\ ~Applied(s, i)' => \A r \in db' : r.id # call'[s].recs[i].id
    BY DEF Pending
  <2>1. i \in Identified(s) /\ call'[s] = call[s]
    BY <1>3
  <2>2. WellIdentified(call[s].recs[i])'
    BY <2>1 DEF StoreInv, Pending, WellIdentified
  <2>3. \A t \in Source : \A j \in Identified(t)' :
            call'[s].recs[i].id = call'[t].recs[j].id => s = t /\ i = j
    BY <1>3, <2>1 DEF StoreInv, Pending
  <2>4. ~Applied(s, i)' => \A r \in db' : r.id # call'[s].recs[i].id
    BY <2>1 DEF StoreInv, Pending, Applied
  <2>5. QED
    BY <2>2, <2>3, <2>4
<1>5. QED
  BY <1>2, <1>4 DEF StoreInv

\* Whose calls change goes on to write nothing it has given an id.
QuietCalls ==
    \A t \in Source :
        \/ call'[t] = call[t]
        \/ call'[t].phase \notin {"assign", "insert"}
        \/ call'[t].phase = "assign" /\ call'[t].count = 0

LEMMA QuietCall ==
    ASSUME TypeOK, NEW s \in Source, NEW c, call' = [call EXCEPT ![s] = c],
           c.phase \notin {"assign", "insert"}
    PROVE  QuietCalls
<1>1. call'[s] = c /\ \A t \in Source : t # s => call'[t] = call[t]
  BY DEF TypeOK
<1>2. QED
  BY <1>1 DEF QuietCalls

LEMMA QuietDone ==
    ASSUME TypeOK, NEW s \in Source, NEW result, Done(s, result)
    PROVE  QuietCalls
<1> DEFINE c == [call[s] EXCEPT !.phase = "done", !.result = result, !.recs = <<>>, !.count = 0]
<1>1. call[s] \in Call
  BY DEF TypeOK
<1>2. c.phase = "done"
  BY <1>1 DEF Call
<1>3. call' = [call EXCEPT ![s] = c]
  BY DEF Done
<1>4. QED
  <2> HIDE DEF c
  <2>1. QED
    BY <1>2, <1>3, QuietCall

LEMMA QuietThrow ==
    ASSUME TypeOK, NEW s \in Source, Throw(s)
    PROVE  QuietCalls
BY QuietDone DEF Throw

LEMMA QuietProceed ==
    ASSUME TypeOK, NEW s \in Source, NEW phase, Proceed(s, phase),
           \/ phase \notin {"assign", "insert"}
           \/ phase = "assign" /\ call[s].count = 0
    PROVE  QuietCalls
<1>1. call \in [Source -> Call] /\ call[s] \in Call
  BY DEF TypeOK
<1>2. call'[s] = [call[s] EXCEPT !.phase = phase] /\ \A t \in Source : t # s => call'[t] = call[t]
  BY <1>1 DEF Proceed
<1>3. call'[s].phase = phase /\ call'[s].count = call[s].count
  BY <1>1, <1>2 DEF Call
<1>4. QED
  BY <1>2, <1>3 DEF QuietCalls

LEMMA QuietBegin ==
    ASSUME TypeOK, NEW s \in Source, NEW op, NEW phase \in {"find", "check"},
           NEW key, NEW ds, NEW recs, Begin(s, op, phase, key, ds, recs)
    PROVE  db' = db /\ issued' = issued /\ QuietCalls
<1> DEFINE c == [NoCall EXCEPT !.op = op, !.phase = phase, !.key = key, !.ds = ds, !.recs = recs]
<1>1. c.phase = phase
  BY DEF NoCall
<1>2. call' = [call EXCEPT ![s] = c] /\ db' = db /\ issued' = issued
  BY DEF Begin
<1>3. QED
  <2> HIDE DEF c
  <2>1. QED
    BY <1>1, <1>2, QuietCall

LEMMA QuietCache ==
    ASSUME TypeOK, NEW s \in Source, NEW r, CacheDataSet(s, r)
    PROVE  QuietCalls
<1> DEFINE c == [call[s] EXCEPT !.phase = "build", !.found = r.id, !.result = None,
                                !.recs = <<>>, !.count = 0]
<1>1. call[s] \in Call
  BY DEF TypeOK
<1>2. c.phase = "build"
  BY <1>1 DEF Call
<1>3. call' = [call EXCEPT ![s] = c]
  BY DEF CacheDataSet
<1>4. QED
  <2> HIDE DEF c
  <2>1. QED
    BY <1>2, <1>3, QuietCall

LEMMA QuietLoadById ==
    ASSUME TypeOK, NEW s \in Source, LoadOrNullById(s)
    PROVE  db' = db /\ issued' = issued /\ QuietCalls
<1>1. PICK id \in issued, t \in DataType :
        /\ \/ call' = [call EXCEPT ![s] = [NoCall EXCEPT !.op = "load_id", !.phase = "done"]]
           \/ \E r \in LoadById(id, "Data") :
                call' = [call EXCEPT ![s] =
                    IF <<t, r.type>> \in Assignable
                    THEN [NoCall EXCEPT !.op = "load_id", !.phase = "found_id", !.result = r]
                    ELSE [NoCall EXCEPT !.op = "load_id", !.phase = "done", !.result = Error]]
        /\ UNCHANGED <<db, issued, prev, caches, stack, mine>>
  BY Zenon DEF LoadOrNullById
<1> DEFINE null == [NoCall EXCEPT !.op = "load_id", !.phase = "done"]
           loaded(r) == [NoCall EXCEPT !.op = "load_id", !.phase = "found_id", !.result = r]
           wrong == [NoCall EXCEPT !.op = "load_id", !.phase = "done", !.result = Error]
<1>2. null.phase = "done" /\ wrong.phase = "done"
  BY DEF NoCall
<1>3. \A r : loaded(r).phase = "found_id"
  BY DEF NoCall
<1>4. \/ call' = [call EXCEPT ![s] = null]
      \/ call' = [call EXCEPT ![s] = wrong]
      \/ \E r : call' = [call EXCEPT ![s] = loaded(r)]
  <2>1. CASE call' = [call EXCEPT ![s] = null]
    BY <2>1
  <2>2. ASSUME NEW r, call' = [call EXCEPT ![s] = IF <<t, r.type>> \in Assignable THEN loaded(r) ELSE wrong]
        PROVE  \/ call' = [call EXCEPT ![s] = wrong]
               \/ call' = [call EXCEPT ![s] = loaded(r)]
    <3> HIDE DEF null, loaded, wrong
    <3>1. QED
      BY <2>2
  <2>3. QED
    BY <1>1, <2>1, <2>2
<1>5. QED
  <2> HIDE DEF null, loaded, wrong
  <2>1. QuietCalls
    BY <1>2, <1>3, <1>4, QuietCall
  <2>2. QED
    BY <1>1, <2>1

\* Of all the steps, two are not quiet.
LEMMA QuietActions ==
    ASSUME TypeOK, CallInv, NEW s \in Source,
           Request(s) \/ Step(s) \/ Fault(s), ~Assign(s), ~Insert(s)
    PROVE  db' = db /\ issued' = issued /\ QuietCalls
<1>1. CASE Request(s)
  <2>1. CASE LoadOrNullById(s)
    BY <2>1, QuietLoadById
  <2>2. CASE GetCachedDataSet(s)
    <3>1. PICK n \in Name :
            call' = [call EXCEPT ![s] = [NoCall EXCEPT !.op = "get", !.phase = "done",
                                        !.key = DataSetKeyOf(n), !.found = names[s][n]]]
      BY <2>2 DEF GetCachedDataSet
    <3> DEFINE c == [NoCall EXCEPT !.op = "get", !.phase = "done",
                                   !.key = DataSetKeyOf(n), !.found = names[s][n]]
    <3>2. c.phase = "done"
      BY DEF NoCall
    <3>3. db' = db /\ issued' = issued
      BY <2>2 DEF GetCachedDataSet
    <3>4. QED
      <4> HIDE DEF c
      <4>1. QuietCalls
        BY <3>1, <3>2, QuietCall DEF c
      <4>2. QED
        BY <3>3, <4>1
  <2>3. CASE SaveMany(s)
    <3> DEFINE new == {NewRecord(DataKeyOf(k), t) : k \in DataKey, t \in DataType}
    <3> HIDE DEF new
    <3>1. PICK ds \in KnownTargets, n \in 1 .. MaxBatch :
            \E recs \in [1 .. n -> new] : Begin(s, "save", "check", None, ds, recs)
      BY <2>3 DEF SaveMany, new
    <3>2. QED
      BY <3>1, QuietBegin
  <2>4. CASE SaveDetail(s)
    BY <2>4, QuietBegin DEF SaveDetail
  <2>5. CASE DeleteRecord(s)
    BY <2>5, QuietBegin DEF DeleteRecord
  <2>6. CASE LoadOrNull(s)
    BY <2>6, QuietBegin DEF LoadOrNull
  <2>7. CASE CreateDataSet(s)
    BY <2>7, QuietBegin DEF CreateDataSet
  <2>8. CASE GetDataSet(s)
    BY <2>8, QuietBegin DEF GetDataSet
  <2>9. QED
    BY <1>1, <2>1, <2>2, <2>3, <2>4, <2>5, <2>6, <2>7, <2>8 DEF Request
<1>2. CASE call' = call /\ db' = db /\ issued' = issued
  BY <1>2 DEF QuietCalls
<1>3. CASE BuildSelf(s) \/ BuildImports(s) \/ Demand(s) \/ ResolveDetail(s)
  <2>1. CASE ResolveDetail(s)
    BY <1>2, <2>1 DEF ResolveDetail
  <2>2. CASE BuildSelf(s)
    BY <1>2, <2>2 DEF BuildSelf
  <2>3. CASE BuildImports(s)
    BY <1>2, <2>3 DEF BuildImports
  <2>4. CASE Demand(s)
    BY <1>2, <2>4 DEF Demand
  <2>5. QED
    BY <1>3, <2>1, <2>2, <2>3, <2>4
<1>4. CASE ResolveLookup(s)
  <2>1. (call' = call \/ Throw(s)) /\ db' = db /\ issued' = issued
    BY <1>4, Zenon DEF ResolveLookup
  <2>2. QED
    BY <1>2, <2>1, QuietThrow
<1>5. CASE ResolveLoaded(s)
  <2>1. (call' = call \/ Throw(s)) /\ db' = db /\ issued' = issued
    BY <1>5, Zenon DEF ResolveLoaded
  <2>2. QED
    BY <1>2, <2>1, QuietThrow
<1>6. CASE CheckNotReadOnly(s)
  <2>1. (Proceed(s, "assign") \/ Throw(s)) /\ db' = db /\ issued' = issued
    BY <1>6, Zenon DEF CheckNotReadOnly
  <2>2. call[s].count = 0
    BY <1>6 DEF CheckNotReadOnly, In, CallInv, CallShape
  <2>3. QED
    BY <2>1, <2>2, QuietProceed, QuietThrow
<1>7. CASE Saved(s)
  <2>1. (Done(s, None) \/ \E r : CacheDataSet(s, r)) /\ db' = db /\ issued' = issued
    BY <1>7, Zenon DEF Saved
  <2>2. QED
    BY <2>1, QuietDone, QuietCache
<1>8. CASE Find(s)
  <2> DEFINE found == LoadByKey(s, call[s].key, call[s].ds)
  <2>1. /\ \/ call' = [call EXCEPT ![s] = [call[s] EXCEPT !.phase = "find_detail", !.result = found]]
           \/ Done(s, found)
        /\ db' = db /\ issued' = issued
    BY <1>8 DEF Find
  <2> HIDE DEF found
  <2> DEFINE c == [call[s] EXCEPT !.phase = "find_detail", !.result = found]
  <2>2. call[s] \in Call
    BY DEF TypeOK
  <2>3. c.phase = "find_detail"
    BY <2>2 DEF Call
  <2>4. QED
    <3> HIDE DEF c
    <3>1. CASE call' = [call EXCEPT ![s] = c]
      BY <2>1, <2>3, <3>1, QuietCall
    <3>2. CASE Done(s, found)
      BY <2>1, <3>2, QuietDone
    <3>3. QED
      BY <2>1, <3>1, <3>2 DEF c
<1>9. CASE FindDetail(s)
  <2> DEFINE new == <<NewRecord(DataSetDetailKeyOf(Root), None)>>
             c == [call[s] EXCEPT !.phase = "check", !.recs = new]
  <2>1. /\ (\E r : CacheDataSet(s, r)) \/ call' = [call EXCEPT ![s] = c]
        /\ db' = db /\ issued' = issued
    <3> HIDE DEF new
    <3>1. QED
      BY <1>9 DEF FindDetail, new
  <2> HIDE DEF new
  <2>2. call[s] \in Call
    BY DEF TypeOK
  <2>3. c.phase = "check"
    BY <2>2 DEF Call
  <2>4. QED
    <3> HIDE DEF c
    <3>1. QED
      BY <2>1, <2>3, QuietCall, QuietCache
<1>10. CASE Built(s)
  BY <1>10, QuietProceed DEF Built
<1>11. CASE FoundId(s)
  BY <1>11, QuietDone DEF FoundId
<1>12. CASE Return(s)
  BY <1>12, QuietCall DEF Return, NoCall
<1>13. CASE Fault(s)
  <2>1. CASE Restart(s)
    BY <2>1, QuietCall DEF Restart, NoCall
  <2>2. CASE WriteFails(s) \/ ReadFails(s)
    BY <2>2, QuietThrow DEF WriteFails, ReadFails
  <2>3. QED
    BY <1>13, <2>1, <2>2 DEF Fault
<1>14. QED
  BY <1>1, <1>3, <1>4, <1>5, <1>6, <1>7, <1>8, <1>9, <1>10, <1>11, <1>12, <1>13 DEF Step

\* The step that gives the next record an id: the id is new.
LEMMA AssignStep ==
    ASSUME StoreInv, NEW s \in Source, Assign(s), TypeOK', CallInv'
    PROVE  StoreInv'
<1> DEFINE c == call[s]
           next == c.count + 1
<1>1. c \in Call /\ CallShape(c) /\ c.phase = "assign" /\ db' = db
  BY DEF StoreInv, Assign, In, TypeOK, CallInv
<1>2. /\ c.recs \in Seq(Record) /\ Len(c.recs) \in Nat /\ c.count \in Nat /\ c.ds \in DataSetId
      /\ next \in 1 .. Len(c.recs)
  BY <1>1 DEF Call, CallShape
<1>3. c.recs[next] \in Record
  BY <1>2, ElementOfSeq
<1>4. PICK id \in NewIds(s) :
        /\ issued' = issued \cup {id}
        /\ IF MayHaveId(c.recs[next], id, c.ds)
           THEN call' = [call EXCEPT ![s].recs = [c.recs EXCEPT ![next].id = id, ![next].data_set = c.ds],
                            ![s].phase = IF next = Len(c.recs) THEN "insert" ELSE @,
                            ![s].count = IF next = Len(c.recs) THEN 0 ELSE next]
           ELSE Done(s, Error)
  BY DEF Assign
<1>5. id \notin issued /\ id # Root /\ issued \subseteq issued'
  <2>1. id \in FreeIds(s)
    BY <1>4 DEF NewIds
  <2>2. id \notin issued /\ id \in Id
    BY <2>1 DEF FreeIds
  <2>3. issued \subseteq issued'
    BY <1>4
  <2>4. QED
    BY <2>2, <2>3 DEF Id, Root
<1>6. Stored'
  BY <1>1, <1>5 DEF StoreInv, Stored, WellIdentified
<1>7. CASE Done(s, Error)
  <2>1. \A t \in Source : call'[t] = call[t] \/ Identified(t)' = {}
    <3>1. call'[s].recs = <<>> /\ \A t \in Source : t # s => call'[t] = call[t]
      BY <1>1, <1>7 DEF Done, StoreInv, TypeOK, Call
    <3>2. Identified(s)' = {}
      BY <3>1, EmptySeq DEF Identified
    <3>3. QED
      BY <3>1, <3>2
  <2>2. \A t \in Source : \A i \in Identified(t)' : i \in Identified(t) /\ call'[t] = call[t]
    BY <2>1 DEF Identified
  <2>3. Pending'
    BY <1>1, <1>5, <2>2 DEF StoreInv, Pending, WellIdentified, Applied
  <2>4. QED
    BY <1>6, <2>3 DEF StoreInv
<1>8. CASE ~Done(s, Error)
  <2> DEFINE rec == [c.recs[next] EXCEPT !.id = id, !.data_set = c.ds]
             recs == [c.recs EXCEPT ![next] = rec]
  <2>1. id > c.ds /\ \A i \in c.recs[next].imports : id > i
    BY <1>4, <1>8 DEF MayHaveId
  <2>2. rec \in Record /\ rec.id = id /\ rec.data_set = c.ds /\ rec.imports = c.recs[next].imports
    <3>1. id \in DataSetId
      BY <1>4, RootType DEF NewIds, FreeIds
    <3>2. QED
      BY <1>2, <1>3, <3>1 DEF Record
  <2>3. recs = [c.recs EXCEPT ![next].id = id, ![next].data_set = c.ds]
    BY <1>2, <1>3 DEF Record
  <2>4. call'[s].recs = recs /\ \A t \in Source : t # s => call'[t] = call[t]
    <3> HIDE DEF recs
    <3>1. call' = [call EXCEPT ![s] =
                      [c EXCEPT !.recs = recs,
                                !.phase = IF next = Len(c.recs) THEN "insert" ELSE @,
                                !.count = IF next = Len(c.recs) THEN 0 ELSE next]]
      BY <1>4, <1>8, <2>3
    <3>2. QED
      BY <1>1, <3>1 DEF StoreInv, TypeOK, Call
  <2> HIDE DEF rec
  <2>5. Len(recs) = Len(c.recs) /\ \A i \in 1 .. Len(c.recs) : recs[i] = IF i = next THEN rec ELSE c.recs[i]
    BY <1>2, <2>2, ExceptSeq
  <2>6. ~Applied(s, next)' /\ \A i \in Nat : ~Applied(s, i)
    BY <1>1, <1>2, <1>4, <1>8 DEF Applied, StoreInv, TypeOK, Call
  <2> HIDE DEF recs, next
  <2>7. \A i \in Identified(s)' : \/ i = next /\ call'[s].recs[i] = rec
                                  \/ i # next /\ i \in Identified(s) /\ call'[s].recs[i] = call[s].recs[i]
    BY <2>4, <2>5 DEF Identified
  <2>8. \A t \in Source : \A i \in Identified(t)' :
            \/ t = s /\ i = next /\ call'[t].recs[i] = rec
            \/ i \in Identified(t) /\ call'[t].recs[i] = call[t].recs[i] /\ ~(t = s /\ i = next)
    BY <2>4, <2>7 DEF Identified
  <2>9. rec.id \in issued' /\ rec.id > rec.data_set /\ \A j \in rec.imports : rec.id > j
    BY <1>4, <2>1, <2>2 DEF WellIdentified
  <2>10. \A t \in Source : \A i \in Identified(t) :
            WellIdentified(call[t].recs[i]) /\ call[t].recs[i].id # id
    BY <1>5 DEF StoreInv, Pending, WellIdentified
  <2>11. \A r \in db : r.id # id
    BY <1>5 DEF StoreInv, Stored, WellIdentified
  <2>12. Pending'
    <3> SUFFICES ASSUME NEW t \in Source, NEW i \in Identified(t)'
                 PROVE  /\ WellIdentified(call[t].recs[i])'
                        /\ \A u \in Source : \A j \in Identified(u)' :
                              call'[t].recs[i].id = call'[u].recs[j].id => t = u /\ i = j
                        /\ ~Applied(t, i)' => \A r \in db' : r.id # call'[t].recs[i].id
      BY DEF Pending
    <3>1. WellIdentified(call[t].recs[i])'
      BY <1>5, <2>8, <2>9, <2>10 DEF WellIdentified
    <3>2. \A u \in Source : \A j \in Identified(u)' :
              call'[t].recs[i].id = call'[u].recs[j].id => t = u /\ i = j
      <4>1. \A u, v \in Source : \A j \in Identified(u), k \in Identified(v) :
              call[u].recs[j].id = call[v].recs[k].id => u = v /\ j = k
        BY DEF StoreInv, Pending
      <4>2. SUFFICES ASSUME NEW u \in Source, NEW j \in Identified(u)',
                            call'[t].recs[i].id = call'[u].recs[j].id
                     PROVE  t = u /\ i = j
        OBVIOUS
      <4>3. CASE t = s /\ i = next
        BY <2>2, <2>8, <2>10, <4>2, <4>3
      <4>4. CASE ~(t = s /\ i = next)
        <5>1. i \in Identified(t) /\ call'[t].recs[i] = call[t].recs[i]
          BY <2>8, <4>4
        <5>2. CASE u = s /\ j = next /\ call'[u].recs[j] = rec
          BY <2>2, <2>10, <4>2, <5>1, <5>2
        <5>3. CASE j \in Identified(u) /\ call'[u].recs[j] = call[u].recs[j]
          BY <4>1, <4>2, <5>1, <5>3
        <5>4. QED
          BY <2>8, <5>2, <5>3
      <4>5. QED
        BY <4>3, <4>4
    <3>3. ~Applied(t, i)' => \A r \in db' : r.id # call'[t].recs[i].id
      <4>1. CASE t = s /\ i = next
        BY <1>1, <2>2, <2>8, <2>11, <4>1
      <4>2. CASE ~(t = s /\ i = next)
        <5>1. i \in Identified(t) /\ call'[t].recs[i] = call[t].recs[i]
          BY <2>8, <4>2
        <5>2. ~Applied(t, i)' => ~Applied(t, i)
          BY <2>4, <2>6 DEF Applied, Identified
        <5>3. QED
          BY <1>1, <5>1, <5>2 DEF StoreInv, Pending
      <4>3. QED
        BY <4>1, <4>2
    <3>4. QED
      BY <3>1, <3>2, <3>3
  <2>13. QED
    BY <1>6, <2>12 DEF StoreInv
<1>9. QED
  BY <1>7, <1>8

\* The record that the server inserts has an id that no stored record has.
LEMMA InsertFits ==
    ASSUME StoreInv, NEW s \in Source, Insert(s)
    PROVE  LET i == call[s].count + 1
               r == call[s].recs[i] IN
           /\ i \in Identified(s) /\ r \in Record /\ WellIdentified(r)
           /\ \A q \in db : q.id # r.id
           /\ db' = db \cup {r}
<1> DEFINE c == call[s]
           i == c.count + 1
<1>1. c \in Call /\ CallShape(c) /\ c.phase = "insert" /\ c.count < Len(c.recs)
  BY DEF StoreInv, Insert, In, TypeOK, CallInv
<1>2. c.recs \in Seq(Record) /\ Len(c.recs) \in Nat /\ c.count \in Nat
  BY <1>1 DEF Call
<1>3. i \in 1 .. Len(c.recs)
  BY <1>1, <1>2
<1>4. c.recs[i] \in Record /\ i \in Identified(s) /\ ~Applied(s, i)
  BY <1>1, <1>2, <1>3, ElementOfSeq DEF Identified, Applied, CallShape
<1>5. db' = db \cup {c.recs[i]}
  BY DEF Insert, Adding
<1>6. QED
  BY <1>4, <1>5 DEF StoreInv, Pending

LEMMA InsertStep ==
    ASSUME StoreInv, NEW s \in Source, Insert(s), TypeOK', CallInv'
    PROVE  StoreInv'
<1> DEFINE n == call[s].count + 1
           r == call[s].recs[n]
<1>1. /\ n \in Identified(s) /\ WellIdentified(r)
      /\ \A q \in db : q.id # r.id
      /\ db' = db \cup {r}
  BY InsertFits
<1>2. issued' = issued /\ \A t \in Source : /\ call'[t].recs = call[t].recs
                                            /\ call'[t].phase = call[t].phase
                                            /\ t # s => call'[t] = call[t]
  BY DEF Insert, StoreInv, TypeOK, Call
<1>3. call'[s].count = n /\ call[s].count \in Nat /\ call[s].phase = "insert"
  BY DEF Insert, In, StoreInv, TypeOK, Call
<1> HIDE DEF r
<1>4. Stored'
  BY <1>1, <1>2 DEF StoreInv, Stored, WellIdentified
<1>5. \A t \in Source : Identified(t)' = Identified(t)
  BY <1>2 DEF Identified
<1>6. \A t \in Source : \A i \in Identified(t) :
          ~Applied(t, i)' => ~Applied(t, i) /\ ~(t = s /\ i = n)
  BY <1>2, <1>3 DEF Applied, Identified
<1>7. \A t \in Source : \A i \in Identified(t) :
          r.id = call[t].recs[i].id => t = s /\ i = n
  BY <1>1 DEF StoreInv, Pending, r
<1>8. Pending'
  <2> SUFFICES ASSUME NEW t \in Source, NEW i \in Identified(t)
               PROVE  /\ WellIdentified(call[t].recs[i])'
                      /\ \A u \in Source : \A j \in Identified(u) :
                            call'[t].recs[i].id = call'[u].recs[j].id => t = u /\ i = j
                      /\ ~Applied(t, i)' => \A q \in db' : q.id # call'[t].recs[i].id
    BY <1>5 DEF Pending
  <2>1. WellIdentified(call[t].recs[i])'
    BY <1>2 DEF StoreInv, Pending, WellIdentified
  <2>2. \A u \in Source : \A j \in Identified(u) :
            call'[t].recs[i].id = call'[u].recs[j].id => t = u /\ i = j
    BY <1>2 DEF StoreInv, Pending
  <2>3. ~Applied(t, i)' => \A q \in db' : q.id # call'[t].recs[i].id
    BY <1>1, <1>2, <1>6, <1>7 DEF StoreInv, Pending
  <2>4. QED
    BY <2>1, <2>2, <2>3
<1>9. QED
  BY <1>4, <1>8 DEF StoreInv

LEMMA StoreNext ==
    ASSUME StoreInv, [Next]_vars
    PROVE  StoreInv'
<1>1. TypeOK' /\ CallInv'
  BY TypeNext DEF StoreInv
<1>2. ASSUME NEW s \in Source, Request(s) \/ Step(s) \/ Fault(s)
      PROVE  StoreInv'
  <2>1. CASE Assign(s)
    BY <1>1, <2>1, AssignStep
  <2>2. CASE Insert(s)
    BY <1>1, <2>2, InsertStep
  <2>3. CASE ~Assign(s) /\ ~Insert(s)
    <3>1. TypeOK /\ CallInv
      BY DEF StoreInv
    <3>2. QED
      BY <1>1, <1>2, <2>3, <3>1, QuietActions, QuietStep DEF QuietCalls
  <2>4. QED
    BY <2>1, <2>2, <2>3
<1>3. CASE UNCHANGED vars
  BY <1>1, <1>3, QuietStep DEF vars
<1>4. QED
  BY <1>2, <1>3 DEF Next

LEMMA StoreInvariant == Spec => []StoreInv
<1>1. StoreInv /\ [Next]_vars => StoreInv'
  BY StoreNext
<1>2. QED
  BY <1>1, StoreInit, PTL DEF Spec

-----------------------------------------------------------------------------

\* Whatever the clocks of the data sources do and whichever calls fail, a stored
\* record is later than its dataset and its imports, and its id names it
\* (temporal_mongo_data_source.cpp:129, data_set_data.cpp:33).
THEOREM StoreIsOrdered == Spec => []StoreOrdered
<1>1. StoreInv => StoreOrdered
  BY DEF StoreInv, Stored, WellIdentified, StoreOrdered
<1>2. QED
  BY <1>1, StoreInvariant, PTL

\* Any number of data sources, with failures and restarts, implement the abstract
\* history: each step adds one version that fits, or none (save_many,
\* temporal_mongo_data_source.cpp:113, and delete_record, :152).
THEOREM HistoryImplemented == Spec => HistoryIsKept
<1>1. Init => History!Init
  BY DEF Init, History!Init
<1>2. StoreInv /\ [Next]_vars => [History!Next]_db
  <2> SUFFICES ASSUME StoreInv, [Next]_vars
               PROVE  [History!Next]_db
    OBVIOUS
  <2>1. ASSUME NEW s \in Source, Insert(s)
        PROVE  History!Next
    <3> DEFINE r == call[s].recs[call[s].count + 1]
    <3>1. r \in Record /\ WellIdentified(r) /\ (\A q \in db : q.id # r.id) /\ db' = db \cup {r}
      BY <2>1, InsertFits
    <3> HIDE DEF r
    <3>2. r \in db' \ db
      BY <3>1
    <3>3. History!Fits(r)
      BY <3>1 DEF History!Fits, WellIdentified
    <3>4. QED
      BY <3>1, <3>2, <3>3 DEF History!Next, History!Add
  <2>2. ASSUME NEW s \in Source, Request(s) \/ Step(s) \/ Fault(s), ~Insert(s)
        PROVE  db' = db
    <3>1. CASE Assign(s)
      BY <3>1 DEF Assign
    <3>2. CASE ~Assign(s)
      BY <2>2, <3>2, QuietActions DEF StoreInv
    <3>3. QED
      BY <3>1, <3>2
  <2>3. CASE UNCHANGED vars
    BY <2>3 DEF vars
  <2>4. QED
    BY <2>1, <2>2, <2>3 DEF Next
<1>3. QED
  BY <1>1, <1>2, StoreInvariant, PTL DEF Spec, HistoryIsKept, History!Spec
=============================================================================
