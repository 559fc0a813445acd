----------------------- MODULE TemporalMongoQueryProofs -----------------------
(***************************************************************************)
(* What the cursor of a temporal query gives its caller, proved for any      *)
(* collection, query, batch size and writers.                                *)
(*                                                                         *)
(* The records yielded, the batch at hand and the rows still to come follow  *)
(* one another in the rows of the first query, where no version is twice; a  *)
(* version that has to be found is in one of the three.  A version whose key *)
(* is not written meanwhile answers for its key at one time if it does at    *)
(* any.                                                                     *)
(***************************************************************************)
EXTENDS TemporalMongoQuery, FiniteSetTheorems, WellFoundedInduction, TLAPS

-----------------------------------------------------------------------------
\* Sequences.

LEMMA InsertAtFacts ==
    ASSUME NEW S, NEW s \in Seq(S), NEW e \in S, NEW i \in 1 .. Len(s) + 1
    PROVE  LET t == InsertAt(s, i, e) IN
           /\ t \in Seq(S) /\ Len(t) = Len(s) + 1
           /\ \A k \in 1 .. i - 1 : t[k] = s[k]
           /\ t[i] = e
           /\ \A k \in i + 1 .. Len(t) : t[k] = s[k - 1]
<1> DEFINE front == SubSeq(s, 1, i - 1)
           back == SubSeq(s, i, Len(s))
<1>1. front \in Seq(S) /\ Len(front) = i - 1 /\ \A k \in 1 .. i - 1 : front[k] = s[k]
  OBVIOUS
<1>2. /\ back \in Seq(S) /\ Len(back) = Len(s) - i + 1
      /\ \A k \in 1 .. Len(s) - i + 1 : back[k] = s[i + k - 1]
  OBVIOUS
<1> HIDE DEF front, back
<1> DEFINE t == front \o <<e>> \o back
<1>3. t \in Seq(S) /\ Len(t) = Len(s) + 1
  BY <1>1, <1>2
<1>4. \A k \in 1 .. Len(s) + 1 :
         t[k] = IF k < i THEN front[k] ELSE IF k = i THEN e ELSE back[k - i]
  BY <1>1, <1>2
<1> HIDE DEF t
<1>5. \A k \in 1 .. i - 1 : t[k] = s[k]
  BY <1>1, <1>4
<1>6. t[i] = e
  BY <1>4
<1>7. \A k \in i + 1 .. Len(t) : t[k] = s[k - 1]
  <2> SUFFICES ASSUME NEW k \in i + 1 .. Len(t)
               PROVE  t[k] = s[k - 1]
    OBVIOUS
  <2>1. t[k] = back[k - i] /\ k - i \in 1 .. Len(s) - i + 1
    BY <1>3, <1>4
  <2>2. back[k - i] = s[i + (k - i) - 1]
    BY <1>2, <2>1
  <2>3. QED
    BY <2>1, <2>2
<1>8. QED
  BY <1>3, <1>5, <1>6, <1>7 DEF t, front, back, InsertAt

LEMMA RestFacts ==
    ASSUME NEW S, NEW s \in Seq(S), NEW n \in 0 .. Len(s), NEW m \in 0 .. Len(s) - n
    PROVE  LET rest == SubSeq(s, n + 1, Len(s)) IN
           /\ rest \in Seq(S) /\ Len(rest) = Len(s) - n
           /\ SubSeq(rest, 1, m) \in Seq(S) /\ Len(SubSeq(rest, 1, m)) = m
           /\ \A k \in 1 .. m : SubSeq(rest, 1, m)[k] = s[n + k]
<1> DEFINE rest == SubSeq(s, n + 1, Len(s))
<1>1. rest \in Seq(S) /\ Len(rest) = Len(s) - n /\ \A k \in 1 .. Len(s) - n : rest[k] = s[n + k]
  OBVIOUS
<1> HIDE DEF rest
<1>2. /\ SubSeq(rest, 1, m) \in Seq(S) /\ Len(SubSeq(rest, 1, m)) = m
      /\ \A k \in 1 .. m : SubSeq(rest, 1, m)[k] = rest[k]
  BY <1>1
<1>3. QED
  BY <1>1, <1>2 DEF rest

LEMMA AppendFacts ==
    ASSUME NEW S, NEW s \in Seq(S), NEW e \in S
    PROVE  /\ Append(s, e) \in Seq(S) /\ Len(Append(s, e)) = Len(s) + 1 /\ Len(s) \in Nat
           /\ Append(s, e)[Len(s) + 1] = e
           /\ \A k \in 1 .. Len(s) : Append(s, e)[k] = s[k]
OBVIOUS

LEMMA TailFacts ==
    ASSUME NEW S, NEW s \in Seq(S), s # <<>>
    PROVE  /\ Head(s) = s[1] /\ Head(s) \in S /\ Len(s) \in Nat \ {0}
           /\ Tail(s) \in Seq(S) /\ Len(Tail(s)) = Len(s) - 1
           /\ \A k \in 1 .. Len(s) - 1 : Tail(s)[k] = s[k + 1]
OBVIOUS

-----------------------------------------------------------------------------
\* The length of a batch.

LEMMA LeastNatural ==
    ASSUME NEW S \in SUBSET Nat, S # {}
    PROVE  \E m \in S : \A n \in S : m <= n
<1>1. PICK m \in S : \A n \in S : ~(<<n, m>> \in OpToRel(<, Nat))
  BY NatLessThanWellFounded, WFMin, Zenon
<1>2. \A n \in S : ~(n < m)
  BY <1>1 DEF OpToRel
<1>3. QED
  BY <1>2

\* The keys of more rows are no fewer.
LEMMA KeysGrow ==
    ASSUME NEW s, NEW n \in Nat, NEW m \in 0 .. n
    PROVE  BatchKeys(s, m) \in Nat /\ BatchKeys(s, n) \in Nat /\ BatchKeys(s, m) <= BatchKeys(s, n)
<1> DEFINE keys(k) == {s[i].key : i \in 1 .. k}
           f == [i \in 1 .. n |-> s[i].key]
<1>1. f \in Surjection(1 .. n, keys(n))
  BY DEF Surjection
<1>2. IsFiniteSet(1 .. n)
  BY FS_Interval
<1> HIDE DEF f
<1>3. IsFiniteSet(keys(n))
  BY <1>1, <1>2, FS_Surjection
<1>4. keys(m) \in SUBSET keys(n)
  OBVIOUS
<1> HIDE DEF keys
<1>5. IsFiniteSet(keys(m)) /\ Cardinality(keys(m)) <= Cardinality(keys(n))
  BY <1>3, <1>4, FS_Subset
<1>6. QED
  BY <1>3, <1>5, FS_CardinalityType DEF BatchKeys, keys

LEMMA BatchLengthType ==
    ASSUME NEW S, NEW s \in Seq(S)
    PROVE  BatchLength(s) \in 0 .. Len(s) /\ (~Full(s) => BatchLength(s) = Len(s))
<1>1. CASE ~Full(s)
  BY <1>1 DEF BatchLength
<1>2. CASE Full(s)
  <2> DEFINE ends == {n \in 1 .. Len(s) : BatchKeys(s, n) = batch_size}
  <2>1. ends \in SUBSET Nat /\ ends # {}
    BY <1>2 DEF Full
  <2>2. PICK n \in ends : \A m \in ends : n <= m
    BY <2>1, LeastNatural
  <2>3. ASSUME NEW m \in 1 .. n - 1
        PROVE  BatchKeys(s, m) < batch_size
    <3>1. m \in 0 .. n /\ n \in Nat /\ m \in 1 .. Len(s) /\ ~(n <= m)
      BY <2>1
    <3>2. BatchKeys(s, m) \in Nat /\ BatchKeys(s, m) <= batch_size
      BY <3>1, KeysGrow
    <3>3. BatchKeys(s, m) # batch_size
      BY <2>2, <3>1
    <3>4. QED
      BY <3>2, <3>3, ConstantsAssumption DEF ConstantsAssumption
  <2>4. QED
    BY <1>2, <2>2, <2>3 DEF BatchLength
<1>3. QED
  BY <1>1, <1>2

-----------------------------------------------------------------------------
\* The invariant.

QueryType ==
    /\ db \subseteq Version /\ \A r, q \in db : q.id = r.id => q = r
    /\ query \in Query
    /\ pc \in {"new", "batch", "lookup", "load", "walk", "end", "selected"}
    /\ rows \in Seq(Version) /\ taken \in 0 .. Len(rows)
    /\ continue_query_ \in BOOLEAN
    /\ batch_ids_list_ \in Seq(Version) /\ Len(batch_ids_list_) <= taken
    /\ yielded \in Seq(Version)
    /\ record_dict_ \subseteq db /\ current \subseteq db

\* The rows are stored versions in the order of the query, none of them twice.
RowsInv ==
    /\ \A i \in 1 .. Len(rows) : rows[i] \in db
    /\ \A i, j \in 1 .. Len(rows) : rows[i] = rows[j] => i = j
    /\ InOrder(rows)
    /\ ~continue_query_ => taken = Len(rows)

\* How many rows the iterator has left behind.
Passed == taken - Len(batch_ids_list_)

\* The batch is the last part of the rows taken; the records yielded come from the
\* rows before, and in their order.
PlaceInv ==
    /\ \A j \in 1 .. Len(batch_ids_list_) : batch_ids_list_[j] = rows[Passed + j]
    /\ pc # "selected" =>
          /\ \A i \in 1 .. Len(yielded) : \E m \in 1 .. Passed : yielded[i] = rows[m]
          /\ \A i, j \in 1 .. Len(yielded) : i < j =>
                \E m, n \in 1 .. Passed : m < n /\ yielded[i] = rows[m] /\ yielded[j] = rows[n]
    /\ pc = "selected" => InOrder(yielded)

\* Nobody has written to the key of a version that answers for it.
Untouched(r) == r.key \notin touched => Answer(r)

\* What was found to be the latest version of its key was an answer then, and is
\* one as long as the key is not written.
AnswerInv ==
    /\ pc \notin {"new", "selected"} => Answers \subseteq current
    /\ \A i \in record_ids : \E r \in db : r.id = i
    /\ \A r \in db : r.id \in record_ids => r \in current /\ Untouched(r)
    /\ \A r \in record_dict_ : r \in current /\ Untouched(r)
    /\ pc # "selected" => \A i \in 1 .. Len(yielded) : yielded[i] \in current /\ Untouched(yielded[i])

\* The versions that the cursor has to give to its caller.
Due == {r \in db : /\ r.key \notin touched
                   /\ Answer(r) /\ Where(r) /\ ~Deleted(r) /\ r.type \in Derived}

Yielded(r) == \E i \in 1 .. Len(yielded) : yielded[i] = r
InBatchAtHand(r) == \E j \in 1 .. Len(batch_ids_list_) : batch_ids_list_[j] = r
ToCome(r) == \E k \in taken + 1 .. Len(rows) : rows[k] = r

\* Every one of them is yielded, in the batch and found there, or still to come.
Reached(r) ==
    \/ Yielded(r)
    \/ /\ pc \in {"lookup", "load", "walk"} /\ InBatchAtHand(r)
       /\ pc = "load" => r.id \in record_ids
       /\ pc = "walk" => r \in record_dict_
    \/ pc # "end" /\ ToCome(r)

DueInv == pc \notin {"new", "selected"} => \A r \in Due : Reached(r)

\* The iterator has done nothing yet.
NewInv ==
    pc = "new" => /\ yielded = <<>> /\ batch_ids_list_ = <<>> /\ taken = 0
                  /\ record_ids = {} /\ record_dict_ = {} /\ continue_query_ = TRUE

QueryInv == QueryType /\ RowsInv /\ PlaceInv /\ AnswerInv /\ DueInv /\ NewInv

LEMMA VersionFields ==
    ASSUME NEW r \in Version
    PROVE  /\ r.id \in Nat /\ r.data_set \in Nat /\ r.value \in Nat /\ r.key \in Key
           /\ r.type \in DataType \cup {None}
<1>1. MaxId \in Nat /\ DataSetId \subseteq Nat /\ Value \subseteq Nat
  BY ConstantsAssumption DEF ConstantsAssumption
<1>2. r.id \in 1 .. MaxId /\ r.data_set \in DataSetId /\ r.value \in Value \cup {0}
  BY DEF Version, Id, NoValue
<1>3. r.key \in Key /\ r.type \in DataType \cup {None}
  BY DEF Version
<1>4. r.id \in Nat
  BY <1>1, <1>2
<1>5. r.data_set \in Nat
  BY <1>1, <1>2
<1>6. r.value \in Nat
  <2>1. CASE r.value \in Value
    BY <1>1, <2>1
  <2>2. CASE r.value \notin Value
    <3>1. r.value = 0
      BY <1>2, <2>2
    <3>2. QED
      BY <3>1
  <2>3. QED
    BY <2>1, <2>2
<1>7. QED
  BY <1>3, <1>4, <1>5, <1>6

-----------------------------------------------------------------------------
\* Answers.

\* The first of the versions found is the answer, and the other way round.
LEMMA LatestAnswers ==
    ASSUME QueryType, NEW keys, NEW r \in db, r.key \in keys
    PROVE  r \in LatestOf(keys) <=> Answer(r)
<1>1. \A q \in db : q.id \in Nat /\ q.data_set \in Nat
  BY VersionFields DEF QueryType
<1>2. \A q \in db : FinalConstraints(q) /\ Unfrozen(q) <=> Visible(q)
  BY DEF FinalConstraints, Unfrozen, Visible
<1>3. \A q \in db : SortsFirst(r, q) <=> ~(q.data_set > r.data_set \/ (q.data_set = r.data_set /\ q.id > r.id))
  BY <1>1 DEF SortsFirst
<1>4. QED
  BY <1>2, <1>3 DEF LatestOf, Answer, Hides

LEMMA AnswerUnique ==
    ASSUME QueryType, NEW r \in db, NEW q \in db, r.key = q.key, Answer(r), Answer(q)
    PROVE  r = q
<1>1. r.id \in Nat /\ r.data_set \in Nat /\ q.id \in Nat /\ q.data_set \in Nat
  BY VersionFields DEF QueryType
<1>2. ~Hides(q, r) /\ ~Hides(r, q) /\ Visible(r) /\ Visible(q)
  BY DEF Answer
<1>3. r.id = q.id
  BY <1>1, <1>2 DEF Hides
<1>4. QED
  BY <1>3 DEF QueryType

\* What is visible does not depend on the collection, and a write changes only
\* the answer for its own key.
LEMMA AnswerKept ==
    ASSUME query' = query, db \subseteq db',
           \A w \in db' \ db : FinalConstraints(w) => w.key \in touched',
           NEW r, r.key \notin touched'
    PROVE  Answer(r)' <=> Answer(r)
<1>1. \A q : Visible(q)' <=> Visible(q)
  BY DEF Visible
<1>2. \A q : Visible(q) => FinalConstraints(q)
  BY DEF Visible, FinalConstraints
<1>3. \A q : Hides(q, r)' <=> Hides(q, r)
  BY <1>1 DEF Hides
<1>4. \A q \in db' \ db : ~Hides(q, r)
  BY <1>2 DEF Hides
<1>5. QED
  BY <1>1, <1>3, <1>4 DEF Answer

LEMMA SameAnswers ==
    ASSUME UNCHANGED <<db, query>>
    PROVE  /\ \A r : Answer(r)' <=> Answer(r)
           /\ Answers' = Answers
           /\ \A r : Where(r)' <=> Where(r)
<1>1. \A r : Answer(r)' <=> Answer(r)
  BY DEF Answer, Visible, Hides
<1>2. QED
  BY <1>1 DEF Answers, Where

LEMMA SameDue ==
    ASSUME UNCHANGED <<db, query, touched>>
    PROVE  Due' = Due /\ \A r : Untouched(r)' <=> Untouched(r)
BY SameAnswers DEF Due, Untouched

-----------------------------------------------------------------------------
\* The steps of the query.

LEMMA BeginKeeps ==
    ASSUME QueryInv, Begin
    PROVE  QueryInv'
<1> DEFINE found == {r \in db : FinalConstraints(r) /\ Where(r)}
<1>0. /\ yielded = <<>> /\ batch_ids_list_ = <<>> /\ taken = 0
      /\ record_ids = {} /\ record_dict_ = {} /\ continue_query_ = TRUE
  BY DEF QueryInv, NewInv, Begin
<1>1. QueryType /\ db \subseteq Version
  BY DEF QueryInv, QueryType
<1>2. /\ rows' \in SetToSeqs(found) /\ InOrder(rows') /\ pc' = "batch"
      /\ current' = Answers
      /\ UNCHANGED <<db, query, taken, batch, yielded, touched>>
  BY DEF Begin, RowOrders, InOrder
<1>3. IsFiniteSet(found)
  <2> DEFINE f == [r \in found |-> r.id]
  <2>1. f \in Injection(found, 1 .. MaxId)
    BY <1>1 DEF Injection, IsInjective, QueryType, Version, Id
  <2>2. IsFiniteSet(1 .. MaxId)
    BY FS_Interval, ConstantsAssumption DEF ConstantsAssumption
  <2> HIDE DEF f
  <2>3. QED
    BY <2>1, <2>2, FS_Injection
<1>4. PICK n \in Nat : n = Cardinality(found) /\ Cardinality(1 .. n) = n /\ IsFiniteSet(1 .. n)
  <2>1. PICK n \in Nat : n = Cardinality(found)
    BY <1>3, FS_CardinalityType
  <2>2. IsFiniteSet(1 .. n) /\ Cardinality(1 .. n) = n
    BY FS_Interval
  <2>3. QED
    BY <2>1, <2>2
<1>5. /\ rows' \in [1 .. n -> found] /\ rows' \in Seq(Version) /\ Len(rows') = n
      /\ \A i, j \in 1 .. n : rows'[i] = rows'[j] => i = j
  <2>1. found \subseteq Version
    BY <1>1
  <2> HIDE DEF found
  <2>2. rows' \in [1 .. n -> found] /\ \A i, j \in 1 .. n : i # j => rows'[i] # rows'[j]
    BY <1>2, <1>4 DEF SetToSeqs
  <2>3. rows' \in Seq(Version) /\ Len(rows') = n
    BY <2>1, <2>2
  <2>4. QED
    BY <2>2, <2>3
<1>6. \A r \in found : \E k \in 1 .. n : rows'[k] = r
  <2>1. rows' \in Injection(1 .. n, found)
    BY <1>5 DEF Injection, IsInjective
  <2>2. rows' \in Surjection(1 .. n, found)
    BY <1>3, <1>4, <2>1, FS_Injection
  <2>3. QED
    BY <2>2 DEF Surjection
<1>7. \A r : Answer(r) => FinalConstraints(r)
  BY DEF Answer, Visible, FinalConstraints
<1>8. QueryType'
  BY <1>0, <1>1, <1>2, <1>5 DEF QueryType, Answers, batch
<1>9. RowsInv'
  BY <1>0, <1>2, <1>5 DEF RowsInv, InOrder, batch
<1>10. PlaceInv'
  BY <1>0, <1>2 DEF PlaceInv, batch
<1>11. AnswerInv'
  BY <1>0, <1>2, SameAnswers DEF AnswerInv, batch
<1>12. DueInv'
  <2> SUFFICES ASSUME NEW r \in Due'
               PROVE  ToCome(r)'
    BY <1>2 DEF DueInv, Reached
  <2>1. r \in found
    BY <1>2, <1>7, SameDue DEF Due
  <2>2. QED
    BY <1>0, <1>2, <1>5, <1>6, <2>1 DEF ToCome, batch
<1>13. QED
  BY <1>2, <1>8, <1>9, <1>10, <1>11, <1>12 DEF QueryInv, NewInv

LEMMA TakeBatchKeeps ==
    ASSUME QueryInv, TakeBatch
    PROVE  QueryInv'
<1>1. /\ pc = "batch" /\ QueryType /\ RowsInv /\ PlaceInv /\ AnswerInv /\ DueInv
      /\ UNCHANGED <<db, query, rows, record_ids, record_dict_, yielded, current, touched>>
  BY DEF TakeBatch, QueryInv
<1>2. Due' = Due /\ (\A r : Untouched(r)' <=> Untouched(r)) /\ Answers' = Answers
  BY <1>1, SameDue, SameAnswers
<1>3. \A r \in Due : Yielded(r) \/ ToCome(r)
  BY <1>1 DEF DueInv, Reached
<1>4. AnswerInv'
  BY <1>1, <1>2 DEF AnswerInv, TakeBatch
<1>5. InOrder(rows)' <=> InOrder(rows)
  BY <1>1 DEF InOrder
<1>6. CASE ~continue_query_
  <2>1. pc' = "end" /\ UNCHANGED <<taken, continue_query_, batch_ids_list_>> /\ taken = Len(rows)
    BY <1>1, <1>6 DEF TakeBatch, RowsInv
  <2>2. \A r \in Due' : Reached(r)'
    BY <1>1, <1>2, <1>3, <2>1 DEF Reached, Yielded, ToCome, QueryType
  <2>3. QueryType'
    BY <1>1, <2>1 DEF QueryType
  <2>4. RowsInv'
    BY <1>1, <1>5, <2>1 DEF RowsInv
  <2>5. Passed' = Passed
    BY <2>1 DEF Passed
  <2>6. PlaceInv'
    BY <1>1, <2>1, <2>5 DEF PlaceInv
  <2>7. QED
    BY <1>4, <2>1, <2>2, <2>3, <2>4, <2>6 DEF QueryInv, DueInv, NewInv
<1>7. CASE continue_query_
  <2>1. PICK n : n = BatchLength(Rest)
    OBVIOUS
  <2>2. /\ continue_query_' = Full(Rest)
        /\ batch_ids_list_' = SubSeq(Rest, 1, n)
        /\ taken' = taken + n
        /\ pc' = IF Rest = <<>> /\ ~Full(Rest) THEN "end" ELSE "lookup"
    BY <1>7, <2>1 DEF TakeBatch, Continues, InRowOrder
  <2>3. /\ Rest \in Seq(Version) /\ Len(Rest) = Len(rows) - taken
        /\ Len(rows) \in Nat /\ taken \in Nat /\ Len(batch_ids_list_) \in Nat
    BY <1>1, RestFacts DEF Rest, QueryType
  <2>4. n \in 0 .. Len(Rest) /\ (~Full(Rest) => n = Len(Rest)) /\ Full(Rest) \in BOOLEAN
    BY <2>1, <2>3, BatchLengthType DEF Full
  <2>5. /\ batch_ids_list_' \in Seq(Version) /\ Len(batch_ids_list_') = n
        /\ \A k \in 1 .. n : batch_ids_list_'[k] = rows[taken + k]
    <3>1. n \in 0 .. Len(rows) - taken /\ taken \in 0 .. Len(rows) /\ rows \in Seq(Version)
      BY <1>1, <2>3, <2>4 DEF QueryType
    <3>2. n \in 0 .. Len(rows) - taken /\ Rest = SubSeq(rows, taken + 1, Len(rows))
      BY <3>1 DEF Rest
    <3>3. /\ SubSeq(Rest, 1, n) \in Seq(Version) /\ Len(SubSeq(Rest, 1, n)) = n
          /\ \A k \in 1 .. n : SubSeq(Rest, 1, n)[k] = rows[taken + k]
      BY <3>1, <3>2, RestFacts
    <3>4. QED
      BY <2>2, <3>3
  <2>6. QueryType'
    BY <1>1, <2>2, <2>3, <2>4, <2>5 DEF QueryType
  <2>7. RowsInv'
    BY <1>1, <1>5, <2>2, <2>3, <2>4 DEF RowsInv
  <2>8. Passed' = taken /\ Passed \in 0 .. taken
    BY <1>1, <2>2, <2>3, <2>4, <2>5 DEF Passed, QueryType
  <2>9. PlaceInv'
    <3>1. pc # "selected" /\ pc' # "selected" /\ yielded' = yielded /\ rows' = rows
      BY <1>1, <2>2
    <3>2. \A m \in 1 .. Passed : m \in 1 .. Passed'
      BY <2>3, <2>8
    <3>3. \A j \in 1 .. Len(batch_ids_list_') : batch_ids_list_'[j] = rows'[Passed' + j]
      BY <2>5, <2>8, <3>1
    <3>4. QED
      BY <1>1, <3>1, <3>2, <3>3 DEF PlaceInv
  <2>10. ASSUME NEW r \in Due'
         PROVE  Reached(r)'
    <3>1. CASE Yielded(r)
      BY <1>1, <3>1 DEF Reached, Yielded
    <3>2. CASE ToCome(r)
      <4>1. PICK k \in taken + 1 .. Len(rows) : rows[k] = r
        BY <3>2 DEF ToCome
      <4>2. pc' = "lookup"
        BY <2>2, <2>3, <4>1
      <4>3. CASE k <= taken + n
        <5>1. k - taken \in 1 .. n /\ taken + (k - taken) = k
          BY <2>3, <2>4, <4>1, <4>3
        <5>2. batch_ids_list_'[k - taken] = r
          BY <2>5, <4>1, <5>1
        <5>3. QED
          BY <2>5, <4>2, <5>1, <5>2 DEF Reached, InBatchAtHand
      <4>4. CASE ~(k <= taken + n)
        <5>1. k \in taken' + 1 .. Len(rows') /\ rows'[k] = r
          BY <1>1, <2>2, <2>3, <2>4, <4>1, <4>4
        <5>2. QED
          BY <4>2, <5>1 DEF Reached, ToCome
      <4>5. QED
        BY <4>3, <4>4
    <3>3. QED
      BY <1>2, <1>3, <3>1, <3>2
  <2>11. QED
    BY <1>4, <2>2, <2>6, <2>7, <2>9, <2>10 DEF QueryInv, DueInv, NewInv
<1>8. QED
  BY <1>6, <1>7

\* The steps that leave the collection and the rows alone, once the query runs.
LEMMA ReadingKeeps ==
    ASSUME QueryInv, UNCHANGED <<db, query, rows, taken, current, touched, continue_query_>>,
           pc \notin {"new", "selected"}, pc' \in {"batch", "lookup", "load", "walk"},
           batch_ids_list_' \in Seq(Version), Len(batch_ids_list_') <= taken,
           yielded' \in Seq(Version), record_dict_' \subseteq db,
           PlaceInv', AnswerInv', \A r \in Due : Reached(r)'
    PROVE  QueryInv'
<1>1. QueryType' /\ NewInv'
  BY DEF QueryInv, QueryType, NewInv
<1>2. InOrder(rows)' <=> InOrder(rows)
  BY DEF InOrder
<1>3. RowsInv'
  BY <1>2 DEF QueryInv, RowsInv
<1>4. DueInv'
  BY SameDue DEF DueInv
<1>5. QED
  BY <1>1, <1>3, <1>4 DEF QueryInv

LEMMA LookupKeeps ==
    ASSUME QueryInv, Lookup
    PROVE  QueryInv'
<1> DEFINE inBatch == ToSet(batch_ids_list_)
           keys == {r.key : r \in inBatch}
           ids == {r.id : r \in inBatch \cap LatestOf(keys)}
<1>1. /\ pc = "lookup" /\ record_ids' = ids /\ pc' = IF ids = {} THEN "batch" ELSE "load"
      /\ UNCHANGED <<db, query, rows, taken, continue_query_, batch_ids_list_, record_dict_,
                     yielded, current, touched>>
      /\ QueryType /\ RowsInv /\ PlaceInv /\ AnswerInv /\ DueInv
  BY DEF Lookup, LatestInBatch, QueryInv
<1>2. inBatch \subseteq db /\ \A r : InBatchAtHand(r) <=> r \in inBatch
  <2>1. /\ DOMAIN batch_ids_list_ = 1 .. Len(batch_ids_list_)
        /\ Len(batch_ids_list_) \in Nat /\ Len(rows) \in Nat
    BY <1>1 DEF QueryType
  <2>2. \A j \in 1 .. Len(batch_ids_list_) : Passed + j \in 1 .. Len(rows)
    BY <1>1, <2>1 DEF Passed, QueryType
  <2>3. \A j \in 1 .. Len(batch_ids_list_) : batch_ids_list_[j] \in db
    BY <1>1, <2>2 DEF PlaceInv, RowsInv
  <2>4. QED
    BY <2>1, <2>3 DEF ToSet, InBatchAtHand
<1>3. \A r \in inBatch : r \in LatestOf(keys) <=> Answer(r)
  BY <1>1, <1>2, LatestAnswers
<1>4. \A r \in db : r.id \in ids <=> r \in inBatch /\ Answer(r)
  BY <1>1, <1>2, <1>3 DEF QueryType
<1>9. \A i \in ids : \E r \in db : r.id = i
  BY <1>2
<1> HIDE DEF inBatch, ids
<1>5. PlaceInv'
  BY <1>1 DEF PlaceInv, Passed
<1>6. AnswerInv'
  <2>1. \A r \in db : r.id \in ids => r \in current /\ Untouched(r)
    BY <1>1, <1>4 DEF AnswerInv, Answers, Untouched
  <2>2. QED
    BY <1>1, <1>9, <2>1, SameAnswers, SameDue DEF AnswerInv
<1>7. ASSUME NEW r \in Due
      PROVE  Reached(r)'
  <2>1. CASE Yielded(r)
    BY <1>1, <2>1 DEF Yielded, Reached
  <2>2. CASE InBatchAtHand(r)
    <3>1. r.id \in ids
      BY <1>2, <1>4, <2>2 DEF Due
    <3>2. pc' = "load" /\ r.id \in record_ids'
      BY <1>1, <3>1
    <3>3. QED
      BY <1>1, <2>2, <3>2 DEF Reached, InBatchAtHand
  <2>3. CASE ToCome(r)
    BY <1>1, <2>3 DEF Reached, ToCome
  <2>4. QED
    BY <1>1, <2>1, <2>2, <2>3 DEF DueInv, Reached
<1>8. QED
  BY <1>1, <1>5, <1>6, <1>7, ReadingKeeps DEF QueryType

LEMMA LoadKeeps ==
    ASSUME QueryInv, Load
    PROVE  QueryInv'
<1>1. /\ pc = "load" /\ pc' = "walk" /\ record_dict_' = {r \in db : r.id \in record_ids}
      /\ UNCHANGED <<db, query, rows, taken, continue_query_, batch_ids_list_, record_ids,
                     yielded, current, touched>>
      /\ QueryType /\ PlaceInv /\ AnswerInv /\ DueInv
  BY DEF Load, QueryInv
<1>2. PlaceInv'
  <2>1. Passed' = Passed
    BY <1>1 DEF Passed
  <2>2. /\ UNCHANGED <<rows, batch_ids_list_, yielded>> /\ pc # "selected" /\ pc' # "selected"
        /\ PlaceInv
    BY <1>1
  <2>3. QED
    BY <2>1, <2>2 DEF PlaceInv
<1>3. AnswerInv'
  BY <1>1, SameAnswers, SameDue DEF AnswerInv
<1>4. ASSUME NEW r \in Due
      PROVE  Reached(r)'
  <2>1. CASE Yielded(r)
    BY <1>1, <2>1 DEF Yielded, Reached
  <2>2. CASE InBatchAtHand(r) /\ r.id \in record_ids
    BY <1>1, <2>2 DEF Reached, InBatchAtHand, Due
  <2>3. CASE ToCome(r)
    BY <1>1, <2>3 DEF Reached, ToCome
  <2>4. QED
    BY <1>1, <2>1, <2>2, <2>3 DEF DueInv, Reached
<1>5. QED
  BY <1>1, <1>2, <1>3, <1>4, ReadingKeeps DEF QueryType

LEMMA EndBatchKeeps ==
    ASSUME QueryInv, EndBatch
    PROVE  QueryInv'
<1>1. /\ pc = "walk" /\ pc' = "batch" /\ batch_ids_list_ = <<>>
      /\ UNCHANGED <<db, query, rows, taken, continue_query_, batch_ids_list_, record_ids,
                     record_dict_, yielded, current, touched>>
      /\ QueryType /\ PlaceInv /\ AnswerInv /\ DueInv
  BY DEF EndBatch, QueryInv, batch
<1>2. PlaceInv'
  BY <1>1 DEF PlaceInv, Passed
<1>3. AnswerInv'
  BY <1>1, SameAnswers, SameDue DEF AnswerInv
<1>4. ASSUME NEW r \in Due
      PROVE  Reached(r)'
  <2>1. Yielded(r) \/ ToCome(r)
    BY <1>1 DEF DueInv, Reached, InBatchAtHand
  <2>2. QED
    BY <1>1, <2>1 DEF Reached, Yielded, ToCome
<1>5. QED
  BY <1>1, <1>2, <1>3, <1>4, ReadingKeeps DEF QueryType

LEMMA WalkKeeps ==
    ASSUME QueryInv, Walk
    PROVE  QueryInv'
<1> DEFINE n == Len(batch_ids_list_)
<1>1. PICK r : r = Head(batch_ids_list_)
  OBVIOUS
<1>2. /\ pc = "walk" /\ pc' = "walk" /\ batch_ids_list_ # <<>>
      /\ batch_ids_list_' = Tail(batch_ids_list_)
      /\ UNCHANGED <<db, query, rows, taken, continue_query_, record_ids, record_dict_,
                     current, touched>>
      /\ QueryType /\ RowsInv /\ PlaceInv /\ AnswerInv /\ DueInv
  BY DEF Walk, QueryInv
<1>3. \/ /\ r \in record_dict_ /\ ~Deleted(r) /\ r.type \in Derived
         /\ yielded' = Append(yielded, r)
      \/ /\ ~(r \in record_dict_ /\ ~Deleted(r) /\ r.type \in Derived)
         /\ yielded' = yielded
  BY <1>1 DEF Walk
<1>4. /\ r = batch_ids_list_[1] /\ r \in Version /\ n \in Nat \ {0}
      /\ batch_ids_list_' \in Seq(Version) /\ Len(batch_ids_list_') = n - 1
      /\ \A k \in 1 .. n - 1 : batch_ids_list_'[k] = batch_ids_list_[k + 1]
  BY <1>1, <1>2, TailFacts DEF QueryType
<1>5. taken \in Nat /\ n <= taken /\ Passed \in Nat /\ Passed' = Passed + 1 /\ Len(yielded) \in Nat
  BY <1>2, <1>4 DEF QueryType, Passed
<1>6. r = rows[Passed + 1]
  BY <1>2, <1>4 DEF PlaceInv
<1>7. /\ yielded' \in Seq(Version) /\ Len(yielded') \in {Len(yielded), Len(yielded) + 1}
      /\ \A i \in 1 .. Len(yielded) : yielded'[i] = yielded[i]
      /\ Len(yielded') = Len(yielded) + 1 => r \in record_dict_ /\ yielded'[Len(yielded) + 1] = r
  <2>1. yielded \in Seq(Version)
    BY <1>2 DEF QueryType
  <2>2. CASE yielded' = yielded
    BY <1>5, <2>1, <2>2
  <2>3. CASE r \in record_dict_ /\ yielded' = Append(yielded, r)
    BY <1>4, <2>1, <2>3, AppendFacts
  <2>4. QED
    BY <1>3, <2>2, <2>3
<1>8. PlaceInv'
  <2>1. \A j \in 1 .. Len(batch_ids_list_') : batch_ids_list_'[j] = rows'[Passed' + j]
    <3> SUFFICES ASSUME NEW j \in 1 .. n - 1
                 PROVE  batch_ids_list_'[j] = rows[Passed + 1 + j]
      BY <1>2, <1>4, <1>5
    <3>1. j + 1 \in 1 .. n /\ Passed + 1 + j = Passed + (j + 1)
      BY <1>4, <1>5
    <3>2. QED
      BY <1>2, <1>4, <3>1 DEF PlaceInv
  <2>2. \A i \in 1 .. Len(yielded) : \E m \in 1 .. Passed : yielded'[i] = rows'[m]
    BY <1>2, <1>7 DEF PlaceInv
  <2>3. \A m \in 1 .. Passed : m \in 1 .. Passed' /\ m < Passed + 1
    BY <1>5
  <2>4. Passed + 1 \in 1 .. Passed'
    BY <1>5
  <2>5. ASSUME NEW i \in 1 .. Len(yielded'), i \notin 1 .. Len(yielded)
        PROVE  i = Len(yielded) + 1 /\ yielded'[i] = rows'[Passed + 1]
    BY <1>2, <1>5, <1>6, <1>7, <2>5
  <2>6. \A i \in 1 .. Len(yielded') : \E m \in 1 .. Passed' : yielded'[i] = rows'[m]
    BY <2>2, <2>3, <2>4, <2>5
  <2>7. ASSUME NEW i \in 1 .. Len(yielded'), NEW j \in 1 .. Len(yielded'), i < j
        PROVE  \E k, m \in 1 .. Passed' : k < m /\ yielded'[i] = rows'[k] /\ yielded'[j] = rows'[m]
    <3>1. i \in 1 .. Len(yielded)
      BY <1>5, <1>7, <2>7
    <3>2. CASE j \in 1 .. Len(yielded)
      <4>1. PICK k \in 1 .. Passed, m \in 1 .. Passed :
              k < m /\ yielded[i] = rows[k] /\ yielded[j] = rows[m]
        BY <1>2, <2>7, <3>1, <3>2 DEF PlaceInv
      <4>2. QED
        BY <1>2, <1>7, <2>3, <3>1, <3>2, <4>1
    <3>3. CASE j \notin 1 .. Len(yielded)
      BY <2>2, <2>3, <2>4, <2>5, <3>1, <3>3
    <3>4. QED
      BY <3>2, <3>3
  <2>8. QED
    BY <1>2, <2>1, <2>6, <2>7 DEF PlaceInv
<1>9. AnswerInv'
  <2>1. \A q : Untouched(q)' <=> Untouched(q)
    BY <1>2, SameDue
  <2>2. \A i \in 1 .. Len(yielded') : yielded'[i] \in current /\ Untouched(yielded'[i])
    BY <1>2, <1>5, <1>7 DEF AnswerInv
  <2>3. \A i \in 1 .. Len(yielded') : Untouched(yielded[i])'
    <3> SUFFICES ASSUME NEW i \in 1 .. Len(yielded')
                 PROVE  Untouched(yielded[i])'
      OBVIOUS
    <3>1. PICK q : q = yielded'[i]
      OBVIOUS
    <3>2. Untouched(q)'
      BY <2>1, <2>2, <3>1
    <3>3. QED
      BY <3>1, <3>2 DEF Untouched, Answer, Hides, Visible
  <2>4. QED
    BY <1>2, <2>1, <2>2, <2>3, SameAnswers DEF AnswerInv
<1>10. ASSUME NEW q \in Due
       PROVE  Reached(q)'
  <2>1. CASE Yielded(q)
    <3>1. Yielded(q)'
      BY <1>5, <1>7, <2>1 DEF Yielded
    <3>2. QED
      BY <3>1 DEF Reached
  <2>2. CASE InBatchAtHand(q) /\ q \in record_dict_
    <3>1. PICK j \in 1 .. n : batch_ids_list_[j] = q
      BY <2>2 DEF InBatchAtHand
    <3>2. CASE j = 1
      <4>1. yielded' = Append(yielded, r) /\ q = r
        BY <1>3, <1>4, <2>2, <3>1, <3>2 DEF Due
      <4>2. Yielded(q)'
        BY <1>2, <1>4, <4>1, AppendFacts DEF Yielded, QueryType
      <4>3. QED
        BY <4>2 DEF Reached
    <3>3. CASE j # 1
      <4>1. j - 1 \in 1 .. n - 1 /\ (j - 1) + 1 = j
        BY <1>4, <3>1, <3>3
      <4>2. batch_ids_list_'[j - 1] = q
        BY <1>4, <3>1, <4>1
      <4>3. InBatchAtHand(q)'
        BY <1>4, <4>1, <4>2 DEF InBatchAtHand
      <4>4. QED
        BY <1>2, <2>2, <4>3 DEF Reached
    <3>4. QED
      BY <3>2, <3>3
  <2>3. CASE ToCome(q)
    BY <1>2, <2>3 DEF Reached, ToCome
  <2>4. QED
    BY <1>2, <2>1, <2>2, <2>3 DEF DueInv, Reached
<1>11. Len(batch_ids_list_') <= taken
  BY <1>4, <1>5
<1>12. QED
  BY <1>2, <1>4, <1>7, <1>8, <1>9, <1>10, <1>11, ReadingKeeps DEF QueryType

LEMMA SelectKeeps ==
    ASSUME QueryInv, Select
    PROVE  QueryInv'
<1>1. PICK found : /\ found \subseteq db /\ yielded' \in RowOrders(found)
                   /\ pc' = "selected" /\ current' = Answers
                   /\ UNCHANGED <<db, query, rows, taken, batch, touched>>
  <2>1. PICK found : found = {r \in db : FinalConstraints(r) /\ Where(r)}
    OBVIOUS
  <2>2. PICK first : first = {r \in found : \A q \in found : q.key = r.key => SortsFirst(r, q)}
    OBVIOUS
  <2>3. yielded' \in RowOrders({r \in first : ~Deleted(r) /\ r.type \in Derived})
    BY <2>1, <2>2 DEF Select
  <2>4. {r \in first : ~Deleted(r) /\ r.type \in Derived} \subseteq db
    BY <2>1, <2>2
  <2>5. QED
    BY <2>3, <2>4 DEF Select
<1>2. /\ batch_ids_list_ = <<>> /\ taken = 0 /\ record_ids = {} /\ record_dict_ = {}
      /\ continue_query_ = TRUE /\ QueryType /\ RowsInv /\ PlaceInv
  BY DEF QueryInv, NewInv, Select
<1>3. yielded' \in Seq(Version) /\ InOrder(yielded')
  <2>1. yielded' \in SetToSeqs(found) /\ InOrder(yielded')
    BY <1>1 DEF RowOrders, InOrder
  <2>2. found \subseteq Version
    BY <1>1, <1>2 DEF QueryType
  <2>3. IsFiniteSet(found)
    <3> DEFINE f == [r \in found |-> r.id]
    <3>1. f \in Injection(found, 1 .. MaxId)
      BY <1>1, <1>2, <2>2 DEF Injection, IsInjective, QueryType, Version, Id
    <3>2. IsFiniteSet(1 .. MaxId)
      BY FS_Interval, ConstantsAssumption DEF ConstantsAssumption
    <3> HIDE DEF f
    <3>3. QED
      BY <3>1, <3>2, FS_Injection
  <2>4. PICK n \in Nat : n = Cardinality(found)
    BY <2>3, FS_CardinalityType
  <2>5. yielded' \in [1 .. n -> found]
    BY <2>1, <2>4 DEF SetToSeqs
  <2>6. QED
    BY <2>1, <2>2, <2>4, <2>5
<1>4. InOrder(rows)' <=> InOrder(rows)
  BY <1>1 DEF InOrder
<1>5. QueryType' /\ RowsInv'
  BY <1>1, <1>2, <1>3, <1>4 DEF QueryType, RowsInv, Answers, batch
<1>6. InOrder(yielded)'
  BY <1>1, <1>3 DEF InOrder
<1>7. PlaceInv'
  BY <1>1, <1>2, <1>6 DEF PlaceInv, Passed, batch
<1>8. AnswerInv' /\ DueInv' /\ NewInv'
  BY <1>1, <1>2 DEF AnswerInv, DueInv, NewInv, batch
<1>9. QED
  BY <1>5, <1>7, <1>8 DEF QueryInv

\* A version written turns up among the rows to come, or not at all.
LEMMA WrittenRows ==
    ASSUME QueryInv, Write
    PROVE  \E w \in Version :
              /\ \A q \in db : w.id > q.id
              /\ db' = db \cup {w}
              /\ touched' = IF FinalConstraints(w) THEN touched \cup {w.key} ELSE touched
              /\ \/ rows' = rows
                 \/ /\ continue_query_
                    /\ \E i \in taken + 1 .. Len(rows) + 1 :
                          InOrder(InsertAt(rows, i, w)) /\ rows' = InsertAt(rows, i, w)
<1>1. PICK id \in Id, k \in Key, d \in DataSetId, t \in DataType \cup {None},
           v \in Value \cup {NoValue} :
        LET r == [id |-> id, key |-> k, data_set |-> d, type |-> t, value |-> v] IN
        /\ \A q \in db : id > q.id
        /\ (t = None) = (v = NoValue)
        /\ db' = db \cup {r}
        /\ touched' = IF FinalConstraints(r) THEN touched \cup {k} ELSE touched
        /\ \/ UNCHANGED rows
           \/ /\ continue_query_ /\ FinalConstraints(r) /\ Where(r)
              /\ \E i \in taken + 1 .. Len(rows) + 1 :
                    InOrder(InsertAt(rows, i, r)) /\ rows' = InsertAt(rows, i, r)
  BY Zenon DEF Write
<1>2. PICK w : w = [id |-> id, key |-> k, data_set |-> d, type |-> t, value |-> v]
  OBVIOUS
<1>3. w \in Version /\ w.id = id /\ w.key = k
  BY <1>2 DEF Version
<1>4. /\ \A q \in db : w.id > q.id
      /\ db' = db \cup {w}
      /\ touched' = IF FinalConstraints(w) THEN touched \cup {w.key} ELSE touched
  BY <1>1, <1>2, <1>3
<1>5. \/ rows' = rows
      \/ /\ continue_query_
         /\ \E i \in taken + 1 .. Len(rows) + 1 :
               InOrder(InsertAt(rows, i, w)) /\ rows' = InsertAt(rows, i, w)
  BY <1>1, <1>2, Zenon
<1>6. QED
  BY <1>3, <1>4, <1>5

LEMMA WriteKeeps ==
    ASSUME QueryInv, Write
    PROVE  QueryInv'
<1>1. PICK w \in Version :
        /\ \A q \in db : w.id > q.id
        /\ db' = db \cup {w}
        /\ touched' = IF FinalConstraints(w) THEN touched \cup {w.key} ELSE touched
        /\ \/ rows' = rows
           \/ /\ continue_query_
              /\ \E i \in taken + 1 .. Len(rows) + 1 :
                    InOrder(InsertAt(rows, i, w)) /\ rows' = InsertAt(rows, i, w)
  BY WrittenRows
<1>2. /\ pc \notin {"new", "end", "selected"} /\ current' = current \cup Answers'
      /\ UNCHANGED <<query, pc, taken, continue_query_, batch_ids_list_, record_ids,
                     record_dict_, yielded>>
      /\ QueryType /\ RowsInv /\ PlaceInv /\ AnswerInv /\ DueInv
  BY DEF Write, batch, QueryInv
<1>3. w \notin db /\ \A r, q \in db' : q.id = r.id => q = r
  <2>1. \A q \in db : q.id \in Nat /\ q.id # w.id
    BY <1>1, <1>2, VersionFields DEF QueryType
  <2>2. QED
    BY <1>1, <1>2, <2>1 DEF QueryType
<1>4. /\ db \subseteq db' /\ touched \subseteq touched'
      /\ \A x \in db' \ db : FinalConstraints(x) => x.key \in touched'
  BY <1>1
<1>5. \A r : r.key \notin touched' => (Answer(r)' <=> Answer(r))
  BY <1>2, <1>4, AnswerKept
<1>6. \A r : Untouched(r) => Untouched(r)'
  BY <1>4, <1>5 DEF Untouched
<1>7. Due' \subseteq Due
  <2> SUFFICES ASSUME NEW r \in Due'
               PROVE  r \in Due
    OBVIOUS
  <2>1. /\ r \in db' /\ r.key \notin touched' /\ Answer(r)' /\ Where(r)'
        /\ ~Deleted(r) /\ r.type \in Derived
    BY DEF Due, Deleted
  <2>2. Answer(r) /\ Where(r) /\ r.key \notin touched
    BY <1>2, <1>4, <1>5, <2>1 DEF Where
  <2>3. r \in db
    BY <1>4, <2>1, <2>2 DEF Answer, Visible, FinalConstraints
  <2>4. QED
    BY <2>1, <2>2, <2>3 DEF Due
<1>8. /\ rows \in Seq(Version) /\ Len(rows) \in Nat /\ taken \in Nat /\ taken <= Len(rows)
      /\ Len(batch_ids_list_) \in Nat /\ Passed \in Nat /\ Passed + Len(batch_ids_list_) = taken
  BY <1>2 DEF QueryType, Passed
<1>9. /\ rows' \in Seq(Version) /\ Len(rows') \in Nat /\ taken <= Len(rows')
      /\ \A m \in 1 .. taken : rows'[m] = rows[m]
      /\ \A m \in taken + 1 .. Len(rows) : \E n \in taken + 1 .. Len(rows') : rows'[n] = rows[m]
      /\ RowsInv'
  <2>1. CASE rows' = rows
    <3>1. InOrder(rows)'
      BY <1>2, <2>1 DEF InOrder, RowsInv
    <3>2. RowsInv'
      BY <1>2, <1>4, <2>1, <3>1 DEF RowsInv
    <3>3. QED
      BY <1>8, <2>1, <3>2
  <2>2. CASE continue_query_ /\ \E i \in taken + 1 .. Len(rows) + 1 :
                InOrder(InsertAt(rows, i, w)) /\ rows' = InsertAt(rows, i, w)
    <3>0. PICK i \in taken + 1 .. Len(rows) + 1 :
             InOrder(InsertAt(rows, i, w)) /\ rows' = InsertAt(rows, i, w)
      BY <2>2
    <3>1. i \in 1 .. Len(rows) + 1 /\ i > taken /\ i \in Nat
      BY <1>8
    <3>2. /\ rows' \in Seq(Version) /\ Len(rows') = Len(rows) + 1
          /\ \A m \in 1 .. i - 1 : rows'[m] = rows[m]
          /\ rows'[i] = w
          /\ \A m \in i + 1 .. Len(rows') : rows'[m] = rows[m - 1]
      BY <1>8, <3>0, <3>1, InsertAtFacts
    <3>3. \A m \in 1 .. taken : rows'[m] = rows[m]
      BY <1>8, <3>1, <3>2
    <3>4. ASSUME NEW m \in taken + 1 .. Len(rows)
          PROVE  \E n \in taken + 1 .. Len(rows') : rows'[n] = rows[m]
      <4>1. CASE m < i
        BY <1>8, <3>1, <3>2, <4>1
      <4>2. CASE ~(m < i)
        <5>1. m + 1 \in i + 1 .. Len(rows') /\ (m + 1) - 1 = m /\ m + 1 \in taken + 1 .. Len(rows')
          BY <1>8, <3>1, <3>2, <4>2
        <5>2. QED
          BY <3>2, <5>1
      <4>3. QED
        BY <4>1, <4>2
    <3> DEFINE Old(m) == IF m < i THEN m ELSE m - 1
    <3>5. \A m \in 1 .. Len(rows') :
             m # i => Old(m) \in 1 .. Len(rows) /\ rows'[m] = rows[Old(m)]
      BY <1>8, <3>1, <3>2
    <3>6. \A m, n \in 1 .. Len(rows') : m # i /\ n # i /\ Old(m) = Old(n) => m = n
      BY <1>8, <3>1, <3>2
    <3> HIDE DEF Old
    <3>7. \A m \in 1 .. Len(rows') : rows'[m] \in db' /\ (rows'[m] = w => m = i)
      <4>1. \A m \in 1 .. Len(rows) : rows[m] \in db
        BY <1>2 DEF RowsInv
      <4>2. w \in db' /\ w \notin db /\ db \subseteq db'
        BY <1>1, <1>3, <1>4
      <4>3. QED
        BY <3>2, <3>5, <4>1, <4>2
    <3>8. \A m, n \in 1 .. Len(rows') : rows'[m] = rows'[n] => m = n
      <4> SUFFICES ASSUME NEW m \in 1 .. Len(rows'), NEW n \in 1 .. Len(rows'),
                          rows'[m] = rows'[n]
                   PROVE  m = n
        OBVIOUS
      <4>1. CASE m = i \/ n = i
        BY <3>2, <3>7, <4>1
      <4>2. CASE m # i /\ n # i
        <5>1. Old(m) = Old(n)
          BY <1>2, <3>5, <4>2 DEF RowsInv
        <5>2. QED
          BY <3>6, <4>2, <5>1
      <4>3. QED
        BY <4>1, <4>2
    <3>9. InOrder(rows)'
      BY <1>2, <3>0 DEF InOrder
    <3>10. RowsInv'
      BY <1>2, <2>2, <3>7, <3>8, <3>9 DEF RowsInv
    <3>11. QED
      BY <1>8, <3>2, <3>3, <3>4, <3>10
  <2>3. QED
    BY <1>1, <2>1, <2>2
<1>10. QueryType'
  <2>1. Answers' \subseteq db'
    BY DEF Answers
  <2>2. QED
    BY <1>1, <1>2, <1>3, <1>4, <1>8, <1>9, <2>1 DEF QueryType
<1>11. PlaceInv'
  <2>1. Passed' = Passed
    BY <1>2 DEF Passed
  <2>2. \A m \in 1 .. Passed : rows'[m] = rows[m]
    BY <1>8, <1>9
  <2>3. \A j \in 1 .. Len(batch_ids_list_) : rows'[Passed + j] = rows[Passed + j]
    <3>1. \A j \in 1 .. Len(batch_ids_list_) : Passed + j \in 1 .. taken
      BY <1>8
    <3>2. QED
      BY <1>9, <3>1
  <2>4. \A j \in 1 .. Len(batch_ids_list_') : batch_ids_list_'[j] = rows'[Passed' + j]
    BY <1>2, <2>1, <2>3 DEF PlaceInv
  <2>5. \A i \in 1 .. Len(yielded') : \E m \in 1 .. Passed' : yielded'[i] = rows'[m]
    BY <1>2, <2>1, <2>2 DEF PlaceInv
  <2>6. \A i, j \in 1 .. Len(yielded') : i < j =>
           \E m, n \in 1 .. Passed' : m < n /\ yielded'[i] = rows'[m] /\ yielded'[j] = rows'[n]
    <3> SUFFICES ASSUME NEW i \in 1 .. Len(yielded), NEW j \in 1 .. Len(yielded), i < j
                 PROVE  \E m, n \in 1 .. Passed :
                           m < n /\ yielded[i] = rows'[m] /\ yielded[j] = rows'[n]
      BY <1>2, <2>1
    <3>1. PICK m \in 1 .. Passed, n \in 1 .. Passed :
             m < n /\ yielded[i] = rows[m] /\ yielded[j] = rows[n]
      BY <1>2 DEF PlaceInv
    <3>2. QED
      BY <2>2, <3>1
  <2>7. QED
    BY <1>2, <2>4, <2>5, <2>6 DEF PlaceInv
<1>12. AnswerInv'
  <2>1. \A r \in db' : r.id \in record_ids => r \in db
    BY <1>1, <1>2, <1>3, <1>4 DEF AnswerInv
  <2>2. \A i \in 1 .. Len(yielded') : yielded'[i] \in current' /\ Untouched(yielded[i])'
    <3> SUFFICES ASSUME NEW i \in 1 .. Len(yielded)
                 PROVE  yielded[i] \in current' /\ Untouched(yielded[i])'
      BY <1>2
    <3>1. PICK q : q = yielded[i]
      OBVIOUS
    <3>2. q \in current /\ Untouched(q)'
      BY <1>2, <1>6, <3>1 DEF AnswerInv
    <3>3. yielded'[i] = q
      BY <1>2, <3>1
    <3>4. QED
      BY <1>2, <3>2, <3>3 DEF Untouched, Answer, Hides, Visible
  <2>3. QED
    BY <1>2, <1>4, <1>6, <2>1, <2>2 DEF AnswerInv
<1>13. ASSUME NEW r \in Due
       PROVE  Reached(r)'
  <2>1. CASE Yielded(r)
    BY <1>2, <2>1 DEF Reached, Yielded
  <2>2. CASE /\ pc \in {"lookup", "load", "walk"} /\ InBatchAtHand(r)
             /\ pc = "load" => r.id \in record_ids
             /\ pc = "walk" => r \in record_dict_
    BY <1>2, <2>2 DEF Reached, InBatchAtHand
  <2>3. CASE ToCome(r)
    BY <1>2, <1>9, <2>3 DEF Reached, ToCome
  <2>4. QED
    BY <1>2, <2>1, <2>2, <2>3 DEF DueInv, Reached
<1>14. QED
  BY <1>2, <1>7, <1>9, <1>10, <1>11, <1>12, <1>13 DEF QueryInv, DueInv, NewInv

-----------------------------------------------------------------------------
\* The invariant holds.

LEMMA QueryInit == Init => QueryInv
<1> SUFFICES ASSUME Init
             PROVE  QueryInv
  OBVIOUS
<1>1. QueryType
  BY ConstantsAssumption DEF ConstantsAssumption, Init, QueryType
<1>2. RowsInv /\ PlaceInv /\ AnswerInv /\ DueInv /\ NewInv
  BY DEF Init, RowsInv, PlaceInv, AnswerInv, DueInv, NewInv, InOrder
<1>3. QED
  BY <1>1, <1>2 DEF QueryInv

LEMMA QueryStutters == QueryInv /\ UNCHANGED vars => QueryInv'
<1> SUFFICES ASSUME QueryInv, UNCHANGED vars
             PROVE  QueryInv'
  OBVIOUS
<1>1. /\ UNCHANGED <<db, query, pc, rows, taken, continue_query_, batch_ids_list_, record_ids,
                     record_dict_, yielded, current, touched>>
      /\ QueryType /\ RowsInv /\ PlaceInv /\ AnswerInv /\ DueInv /\ NewInv
  BY DEF QueryInv, vars, batch
<1>2. QueryType' /\ NewInv'
  BY <1>1 DEF QueryType, NewInv
<1>3. RowsInv' /\ PlaceInv'
  BY <1>1 DEF RowsInv, PlaceInv, InOrder, Passed
<1>4. AnswerInv'
  BY <1>1, SameAnswers, SameDue DEF AnswerInv
<1>5. DueInv'
  BY <1>1, SameDue DEF DueInv, Reached, Yielded, InBatchAtHand, ToCome
<1>6. QED
  BY <1>2, <1>3, <1>4, <1>5 DEF QueryInv

LEMMA QueryNext == QueryInv /\ [Next]_vars => QueryInv'
BY BeginKeeps, TakeBatchKeeps, LookupKeeps, LoadKeeps, WalkKeeps, EndBatchKeeps, SelectKeeps,
   WriteKeeps, QueryStutters DEF Next, Iterate

\* The invariant holds whatever the writers do (Write), between any two accesses of
\* batch_load and get_next_record to the server.
THEOREM QueryInvariant == Spec => []QueryInv
BY QueryInit, QueryNext, PTL DEF Spec

-----------------------------------------------------------------------------
\* What the caller gets.

\* A key turns up once in what the iterator yields, though its versions are in
\* several batches, unless it is written meanwhile.
THEOREM YieldedOnce == Spec => []KeyOnce
<1>1. QueryInv => KeyOnce
  <2> SUFFICES ASSUME QueryInv, pc # "selected",
                      NEW i \in 1 .. Len(yielded), NEW j \in 1 .. Len(yielded),
                      yielded[i].key = yielded[j].key, yielded[i].key \notin touched
               PROVE  i = j
    BY DEF KeyOnce
  <2>1. QueryType /\ RowsInv /\ PlaceInv /\ AnswerInv
    BY DEF QueryInv
  <2>2. /\ yielded[i] \in db /\ yielded[j] \in db
        /\ Untouched(yielded[i]) /\ Untouched(yielded[j])
    BY <2>1 DEF AnswerInv, QueryType
  <2>3. PICK r \in db, q \in db : r = yielded[i] /\ q = yielded[j]
    BY <2>2
  <2>4. Answer(r) /\ Answer(q) /\ r.key = q.key
    BY <2>2, <2>3 DEF Untouched
  <2>5. r = q
    BY <2>1, <2>4, AnswerUnique
  <2>6. \A k, l \in 1 .. Len(yielded) : k < l => yielded[k] # yielded[l]
    <3> SUFFICES ASSUME NEW k \in 1 .. Len(yielded), NEW l \in 1 .. Len(yielded), k < l,
                        yielded[k] = yielded[l]
                 PROVE  FALSE
      OBVIOUS
    <3>1. PICK m \in 1 .. Passed, n \in 1 .. Passed :
             m < n /\ yielded[k] = rows[m] /\ yielded[l] = rows[n]
      BY <2>1 DEF PlaceInv
    <3>2. m \in 1 .. Len(rows) /\ n \in 1 .. Len(rows)
      BY <2>1 DEF Passed, QueryType
    <3>3. m = n
      <4>1. rows[m] = rows[n]
        BY <3>1
      <4>2. QED
        BY <2>1, <3>2, <4>1 DEF RowsInv
    <3>4. QED
      BY <3>1, <3>3
  <2>7. yielded[i] = yielded[j] /\ Len(yielded) \in Nat
    BY <2>1, <2>3, <2>5 DEF QueryType
  <2>8. i = j \/ i < j \/ j < i
    BY <2>7
  <2>9. QED
    BY <2>6, <2>7, <2>8
<1>2. QED
  BY <1>1, QueryInvariant, PTL

\* The iterator keeps the order of the original query across batches
\* (temporal_mongo_query_cursor_impl.hpp:137), and so does select.
THEOREM YieldedInOrder == Spec => []OrderKept
<1>1. QueryInv => OrderKept
  <2> SUFFICES ASSUME QueryInv, query.sorted,
                      NEW i \in 1 .. Len(yielded), NEW j \in 1 .. Len(yielded), i < j
               PROVE  yielded[i].value <= yielded[j].value
    BY DEF OrderKept
  <2>1. QueryType /\ RowsInv /\ PlaceInv
    BY DEF QueryInv
  <2>2. CASE pc = "selected"
    BY <2>1, <2>2 DEF PlaceInv, InOrder
  <2>3. CASE pc # "selected"
    <3>1. PICK m \in 1 .. Passed, n \in 1 .. Passed :
             m < n /\ yielded[i] = rows[m] /\ yielded[j] = rows[n]
      BY <2>1, <2>3 DEF PlaceInv
    <3>2. m \in 1 .. Len(rows) /\ n \in 1 .. Len(rows)
      BY <2>1 DEF Passed, QueryType
    <3>3. QED
      BY <2>1, <3>1, <3>2 DEF RowsInv, InOrder
  <2>4. QED
    BY <2>2, <2>3
<1>2. QED
  BY <1>1, QueryInvariant, PTL

\* The iterator yields no version that was superseded all the time
\* (temporal_mongo_query_cursor_impl.hpp:143).
THEOREM YieldedWereAnswers == Spec => []NothingStale
<1>1. QueryInv => NothingStale
  BY DEF QueryInv, AnswerInv, NothingStale
<1>2. QED
  BY <1>1, QueryInvariant, PTL

\* At the end of the iteration every record that answers the query was yielded,
\* unless its key was written meanwhile (temporal_mongo_query_cursor_impl.hpp:103).
THEOREM EveryAnswerIsYielded == Spec => []UntouchedFound
<1>1. QueryInv => UntouchedFound
  <2> SUFFICES ASSUME QueryInv, pc = "end", NEW r \in Due
               PROVE  r \in ToSet(yielded)
    BY DEF UntouchedFound, Due
  <2>1. Yielded(r)
    BY DEF QueryInv, DueInv, Reached
  <2>2. DOMAIN yielded = 1 .. Len(yielded)
    BY DEF QueryInv, QueryType
  <2>3. QED
    BY <2>1, <2>2 DEF Yielded, ToSet
<1>2. QED
  BY <1>1, QueryInvariant, PTL
=============================================================================
