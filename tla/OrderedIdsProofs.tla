-------------------------- MODULE OrderedIdsProofs --------------------------
(***************************************************************************)
(* Proofs about OrderedIds, for any data sources, processes, counter size   *)
(* and clock error: the type invariant, the order of the ids of one data     *)
(* source, the order of ids across data sources to the resolution of the     *)
(* clocks, and that no id is returned twice within a lap of the counter.     *)
(***************************************************************************)
EXTENDS OrderedIds, TLAPS

-----------------------------------------------------------------------------
\* Lemmas about the order of ids.

\* operator< is transitive on ids, which are compared lexicographically.
LEMMA BeforeTransitive ==
    ASSUME NEW a \in TemporalId, NEW b \in TemporalId, NEW c \in TemporalId,
           NotAfter(a, b), Before(b, c)
    PROVE  Before(a, c)
BY DEF TemporalId, Before, NotAfter

\* operator<= is total: an id that is not <= another is after it.
LEMMA NotAfterTotal ==
    ASSUME NEW a \in TemporalId, NEW b \in TemporalId, ~NotAfter(a, b)
    PROVE  Before(b, a)
BY DEF TemporalId, Before, NotAfter

-----------------------------------------------------------------------------
\* Type correctness.

LEMMA GenerateType ==
    ASSUME TypeOK, NEW s \in Source, GenerateNewId(s)
    PROVE  /\ result' \in [Source -> TemporalId]
           /\ counter' \in [Process -> 0 .. Counters - 1]
           /\ drawn' \in [Process -> 0 .. Counters + 1]
           /\ \E ms \in Nat : /\ now <= ms + ClockError /\ ms <= now + ClockError
                              /\ result'[s].ms = ms
           /\ \A t \in Source \ {s} : result'[t] = result[t]
<1> DEFINE p == HostOf[s]
<1>1. p \in Process /\ Random[p] \in Nat /\ counter[p] \in 0 .. Counters - 1 /\ Counters \in Nat \ {0}
  BY ConstantsAssumption DEF ConstantsAssumption, TypeOK
<1>2. PICK ms \in ClockReadings :
        /\ result' = [result EXCEPT ![s] = [ms |-> ms, random |-> Random[p], count |-> counter[p]]]
        /\ counter' = [counter EXCEPT ![p] = (@ + 1) % Counters]
        /\ Draw(p)
  BY DEF GenerateNewId
<1>3. ms \in Nat /\ now <= ms + ClockError /\ ms <= now + ClockError
  BY <1>2, ConstantsAssumption DEF ClockReadings, ConstantsAssumption, TypeOK
<1>4. [ms |-> ms, random |-> Random[p], count |-> counter[p]] \in TemporalId
  BY <1>1, <1>3 DEF TemporalId
<1>5. result' \in [Source -> TemporalId] /\ result'[s].ms = ms
      /\ \A t \in Source \ {s} : result'[t] = result[t]
  BY <1>2, <1>4 DEF TypeOK
<1>6. (counter[p] + 1) % Counters \in 0 .. Counters - 1
  BY <1>1
<1>7. counter' \in [Process -> 0 .. Counters - 1]
  BY <1>1, <1>2, <1>6 DEF TypeOK
<1>8. drawn' \in [Process -> 0 .. Counters + 1]
  BY <1>1, <1>2 DEF TypeOK, Draw
<1>9. QED
  BY <1>3, <1>5, <1>7, <1>8

LEMMA TypeInit == Init => TypeOK
BY ConstantsAssumption DEF Init, TypeOK, ConstantsAssumption, EmptyId, TemporalId

LEMMA TypeStep ==
    ASSUME TypeOK, [Next]_vars
    PROVE  TypeOK'
<1>1. CASE Tick
  BY <1>1, ConstantsAssumption DEF Tick, TypeOK, ConstantsAssumption
<1>2. ASSUME NEW s \in Source, Call(s)
      PROVE  TypeOK'
  <2>1. began' \in [Source -> Nat] /\ pc' \in [Source -> {"idle", "check"}] /\ calls' \in 0 .. MaxCalls
    BY <1>2, ConstantsAssumption DEF Call, TypeOK, ConstantsAssumption
  <2>2. QED
    BY <1>2, <2>1, GenerateType DEF Call, TypeOK
<1>3. ASSUME NEW s \in Source, Retry(s)
      PROVE  TypeOK'
  BY <1>3, GenerateType DEF Retry, TypeOK
<1>4. ASSUME NEW s \in Source, Return(s)
      PROVE  TypeOK'
  <2> DEFINE new == [id |-> result[s], began |-> began[s], ended |-> now]
  <2>1. new \in Issued
    BY DEF TypeOK, Issued
  <2>2. Append(issued[s], new) \in Seq(Issued)
    BY <2>1 DEF TypeOK
  <2>3. issued' \in [Source -> Seq(Issued)]
    BY <1>4, <2>2 DEF Return, TypeOK
  <2>4. EmptyId \in TemporalId
    BY DEF EmptyId, TemporalId
  <2>5. QED
    BY <1>4, <2>3, <2>4 DEF Return, TypeOK
<1>5. CASE UNCHANGED vars
  BY <1>5 DEF vars, TypeOK
<1>6. QED
  BY <1>1, <1>2, <1>3, <1>4, <1>5 DEF Next

\* Every state of OrderedIds has the types TypeOK names: in particular the
\* counter of a process stays below Counters (temporal_id.cpp:102).
THEOREM TypeCorrect == Spec => []TypeOK
<1>1. Init => TypeOK
  BY TypeInit
<1>2. TypeOK /\ [Next]_vars => TypeOK'
  BY TypeStep
<1>3. QED
  BY <1>1, <1>2, PTL DEF Spec

-----------------------------------------------------------------------------
\* The order of ids.

\* prev_object_id_ is the greatest id the data source returned.
PrevIsLast ==
    \A s \in Source : \A i \in 1 .. Len(issued[s]) : NotAfter(issued[s][i].id, prev[s])

\* An id was generated while its call ran, by a clock within ClockError.
PendingTimes ==
    \A s \in Source :
        pc[s] = "check" =>
            /\ began[s] <= now
            /\ began[s] <= result[s].ms + ClockError
            /\ result[s].ms <= now + ClockError

IssuedTimes ==
    \A s \in Source : \A i \in 1 .. Len(issued[s]) :
        /\ issued[s][i].began <= issued[s][i].id.ms + ClockError
        /\ issued[s][i].id.ms <= issued[s][i].ended + ClockError

OrderInv == TypeOK /\ SourceOrdered /\ PrevIsLast /\ PendingTimes /\ IssuedTimes

LEMMA OrderInit == Init => OrderInv
BY TypeInit DEF Init, OrderInv, SourceOrdered, PrevIsLast, PendingTimes, IssuedTimes

LEMMA IssuedFields ==
    ASSUME TypeOK, NEW s \in Source, NEW i \in 1 .. Len(issued[s])
    PROVE  /\ issued[s][i].id \in TemporalId
           /\ issued[s][i].id.ms \in Nat
           /\ issued[s][i].began \in Nat
           /\ issued[s][i].ended \in Nat
<1>1. issued[s] \in Seq(Issued)
  BY DEF TypeOK
<1>2. issued[s][i] \in Issued
  BY <1>1
<1>3. QED
  BY <1>2 DEF Issued, TemporalId

\* What Return appends to the ids of s, and what it leaves.
LEMMA ReturnIssued ==
    ASSUME TypeOK, NEW s \in Source, Return(s), NEW t \in Source, NEW i \in 1 .. Len(issued'[t])
    PROVE  \/ /\ t = s /\ i = Len(issued[s]) + 1
              /\ issued'[t][i] = [id |-> result[s], began |-> began[s], ended |-> now]
              /\ issued'[t][i].id = result[s]
           \/ /\ i \in 1 .. Len(issued[t])
              /\ issued'[t][i] = issued[t][i]
              /\ t = s => i < Len(issued[s]) + 1
<1> DEFINE new == [id |-> result[s], began |-> began[s], ended |-> now]
<1>1. issued[s] \in Seq(Issued) /\ new \in Issued
  BY DEF TypeOK, Issued
<1>2. issued' = [issued EXCEPT ![s] = Append(issued[s], new)]
  BY DEF Return
<1>3. CASE t # s
  BY <1>2, <1>3 DEF TypeOK
<1>4. CASE t = s
  <2>1. issued'[t] = Append(issued[s], new)
    BY <1>2, <1>4 DEF TypeOK
  <2> HIDE DEF new
  <2>2. i \in 1 .. Len(issued[s]) + 1
    BY <1>1, <2>1
  <2>3. CASE i = Len(issued[s]) + 1
    <3>1. issued'[t][i] = new
      BY <1>1, <2>1, <2>3
    <3>2. QED
      BY <1>4, <2>3, <3>1 DEF new
  <2>4. CASE i # Len(issued[s]) + 1
    <3>1. i \in 1 .. Len(issued[s]) /\ i < Len(issued[s]) + 1
      BY <1>1, <2>2, <2>4
    <3>2. issued'[t][i] = issued[t][i]
      BY <1>1, <1>4, <2>1, <3>1
    <3>3. QED
      BY <1>4, <3>1, <3>2
  <2>5. QED
    BY <2>3, <2>4
<1>5. QED
  BY <1>3, <1>4

LEMMA OrderStep ==
    ASSUME OrderInv, [Next]_vars
    PROVE  OrderInv'
<1> USE DEF OrderInv
<1>0. TypeOK'
  BY TypeStep
<1>1. CASE Tick
  <2>1. SourceOrdered'
    BY <1>1 DEF Tick, SourceOrdered
  <2>2. PrevIsLast'
    BY <1>1 DEF Tick, PrevIsLast
  <2>3. IssuedTimes'
    BY <1>1 DEF Tick, IssuedTimes
  <2>4. PendingTimes'
    BY <1>1, ConstantsAssumption DEF Tick, PendingTimes, TypeOK, TemporalId, ConstantsAssumption
  <2>5. QED
    BY <1>0, <2>1, <2>2, <2>3, <2>4
<1>2. ASSUME NEW s \in Source, Call(s)
      PROVE  OrderInv'
  <2>1. SourceOrdered' /\ PrevIsLast' /\ IssuedTimes'
    BY <1>2 DEF Call, SourceOrdered, PrevIsLast, IssuedTimes
  <2>2. PendingTimes'
    <3> SUFFICES ASSUME NEW t \in Source, pc'[t] = "check"
                 PROVE  /\ began'[t] <= now'
                        /\ began'[t] <= result'[t].ms + ClockError
                        /\ result'[t].ms <= now' + ClockError
      BY DEF PendingTimes
    <3>1. CASE t = s
      BY <1>2, <3>1, GenerateType DEF Call, TypeOK
    <3>2. CASE t # s
      BY <1>2, <3>2, GenerateType DEF Call, TypeOK, PendingTimes
    <3>3. QED
      BY <3>1, <3>2
  <2>3. QED
    BY <1>0, <2>1, <2>2
<1>3. ASSUME NEW s \in Source, Retry(s)
      PROVE  OrderInv'
  <2>1. SourceOrdered' /\ PrevIsLast' /\ IssuedTimes'
    BY <1>3 DEF Retry, SourceOrdered, PrevIsLast, IssuedTimes
  <2>2. PendingTimes'
    <3> SUFFICES ASSUME NEW t \in Source, pc'[t] = "check"
                 PROVE  /\ began'[t] <= now'
                        /\ began'[t] <= result'[t].ms + ClockError
                        /\ result'[t].ms <= now' + ClockError
      BY DEF PendingTimes
    <3>1. CASE t = s
      \* The new reading is near the present, which is not before the call began.
      <4>1. PICK ms \in Nat : now <= ms + ClockError /\ ms <= now + ClockError /\ result'[s].ms = ms
        BY <1>3, GenerateType DEF Retry
      <4>2. began[s] \in Nat /\ now \in Nat /\ began[s] <= now /\ began' = began /\ now' = now
        BY <1>3 DEF Retry, TypeOK, PendingTimes
      <4>3. QED
        BY <3>1, <4>1, <4>2, ConstantsAssumption DEF ConstantsAssumption
    <3>2. CASE t # s
      BY <1>3, <3>2, GenerateType DEF Retry, TypeOK, PendingTimes
    <3>3. QED
      BY <3>1, <3>2
  <2>3. QED
    BY <1>0, <2>1, <2>2
<1>4. ASSUME NEW s \in Source, Return(s)
      PROVE  OrderInv'
  <2>1. result[s] \in TemporalId /\ prev[s] \in TemporalId
    BY DEF TypeOK
  <2>2. Before(prev[s], result[s]) /\ prev' = [prev EXCEPT ![s] = result[s]] /\ pc[s] = "check"
    BY <1>4, <2>1, NotAfterTotal DEF Return
  <2>3. \A i \in 1 .. Len(issued[s]) : Before(issued[s][i].id, result[s])
    <3> SUFFICES ASSUME NEW i \in 1 .. Len(issued[s])
                 PROVE  Before(issued[s][i].id, result[s])
      OBVIOUS
    <3>1. issued[s][i].id \in TemporalId /\ NotAfter(issued[s][i].id, prev[s])
      BY IssuedFields DEF PrevIsLast
    <3>2. QED
      BY <2>1, <2>2, <3>1, BeforeTransitive
  <2>4. SourceOrdered'
    <3> SUFFICES ASSUME NEW t \in Source, NEW i \in 1 .. Len(issued'[t]),
                        NEW j \in 1 .. Len(issued'[t]), i < j
                 PROVE  Before(issued'[t][i].id, issued'[t][j].id)
      BY DEF SourceOrdered
    <3>1. \/ t = s /\ j = Len(issued[s]) + 1 /\ issued'[t][j].id = result[s]
          \/ j \in 1 .. Len(issued[t]) /\ issued'[t][j] = issued[t][j]
             /\ (t = s => j < Len(issued[s]) + 1)
      BY <1>4, ReturnIssued
    <3>2. \/ t = s /\ i = Len(issued[s]) + 1
          \/ i \in 1 .. Len(issued[t]) /\ issued'[t][i] = issued[t][i]
      BY <1>4, ReturnIssued
    <3>3. Len(issued[s]) \in Nat
      BY DEF TypeOK
    <3>4. i \in 1 .. Len(issued[t]) /\ issued'[t][i] = issued[t][i]
      BY <3>1, <3>2, <3>3
    <3>5. QED
      BY <2>3, <3>1, <3>4 DEF SourceOrdered
  <2>5. PrevIsLast'
    <3> SUFFICES ASSUME NEW t \in Source, NEW i \in 1 .. Len(issued'[t])
                 PROVE  NotAfter(issued'[t][i].id, prev'[t])
      BY DEF PrevIsLast
    <3>1. \/ t = s /\ issued'[t][i].id = result[s]
          \/ i \in 1 .. Len(issued[t]) /\ issued'[t][i] = issued[t][i]
      BY <1>4, ReturnIssued
    <3>2. prev'[t] = IF t = s THEN result[s] ELSE prev[t]
      BY <2>2 DEF TypeOK
    <3>3. QED
      BY <2>3, <3>1, <3>2 DEF PrevIsLast, NotAfter
  <2>6. PendingTimes'
    BY <1>4 DEF Return, TypeOK, PendingTimes
  <2>7. IssuedTimes'
    <3> SUFFICES ASSUME NEW t \in Source, NEW i \in 1 .. Len(issued'[t])
                 PROVE  /\ issued'[t][i].began <= issued'[t][i].id.ms + ClockError
                        /\ issued'[t][i].id.ms <= issued'[t][i].ended + ClockError
      BY DEF IssuedTimes
    <3>1. CASE issued'[t][i] = [id |-> result[s], began |-> began[s], ended |-> now]
      BY <2>2, <3>1 DEF PendingTimes
    <3>2. CASE i \in 1 .. Len(issued[t]) /\ issued'[t][i] = issued[t][i]
      BY <3>2 DEF IssuedTimes
    <3>3. QED
      BY <1>4, <3>1, <3>2, ReturnIssued
  <2>8. QED
    BY <1>0, <2>4, <2>5, <2>6, <2>7
<1>5. CASE UNCHANGED vars
  BY <1>0, <1>5 DEF vars, SourceOrdered, PrevIsLast, PendingTimes, IssuedTimes
<1>6. QED
  BY <1>1, <1>2, <1>3, <1>4, <1>5 DEF Next

LEMMA OrderInvariant == Spec => []OrderInv
<1>1. Init => OrderInv
  BY OrderInit
<1>2. OrderInv /\ [Next]_vars => OrderInv'
  BY OrderStep
<1>3. QED
  BY <1>1, <1>2, PTL DEF Spec

\* The ids one data source returns strictly increase, whatever its clock and the
\* counter do (mongo_data_source.hpp:89).
THEOREM SourceOrder == Spec => []SourceOrdered
<1>1. OrderInv => SourceOrdered
  BY DEF OrderInv
<1>2. QED
  BY <1>1, OrderInvariant, PTL

\* Ids of calls further apart than twice the clock error are in the order of the
\* calls, across all data sources and processes (mongo_data_source.hpp:90).
THEOREM CrossSource == Spec => []CrossSourceOrder
<1>1. OrderInv => CrossSourceOrder
  <2> SUFFICES ASSUME OrderInv, NEW s \in Source, NEW t \in Source,
                      NEW i \in 1 .. Len(issued[s]), NEW j \in 1 .. Len(issued[t]),
                      issued[s][i].ended + 2 * ClockError < issued[t][j].began
               PROVE  Before(issued[s][i].id, issued[t][j].id)
    BY DEF CrossSourceOrder
  <2>1. /\ issued[s][i].id.ms <= issued[s][i].ended + ClockError
        /\ issued[t][j].began <= issued[t][j].id.ms + ClockError
    BY DEF OrderInv, IssuedTimes
  <2>2. issued[s][i].id.ms < issued[t][j].id.ms
    <3> DEFINE a == issued[s][i].id.ms
               b == issued[s][i].ended
               c == issued[t][j].began
               d == issued[t][j].id.ms
    <3>1. a \in Nat /\ b \in Nat /\ c \in Nat /\ d \in Nat /\ ClockError \in Nat
      BY IssuedFields, ConstantsAssumption DEF OrderInv, ConstantsAssumption
    <3>2. a <= b + ClockError /\ c <= d + ClockError /\ b + 2 * ClockError < c
      BY <2>1
    <3> HIDE DEF a, b, c, d
    <3>3. a < d
      BY <3>1, <3>2
    <3>4. QED
      BY <3>3 DEF a, d
  <2>3. QED
    BY <2>2 DEF Before
<1>2. QED
  BY <1>1, OrderInvariant, PTL

-----------------------------------------------------------------------------
\* The uniqueness of ids.

\* The ids in play of a data source: those it returned and, as number 0, the one
\* its call is about to compare.
Held(s) == {i \in 0 .. Len(issued[s]) : i # 0 \/ pc[s] = "check"}
IdOf(s, i) == IF i = 0 THEN result[s] ELSE issued[s][i].id

\* How many values process p has drawn since it last drew c, if it has.
Age(p, c) == IF c < counter[p] THEN counter[p] - 1 - c ELSE counter[p] + Counters - 1 - c

\* Until the counter has run a lap, every id in play has a count drawn since then.
DrawnInv ==
    \A s \in Source : \A i \in Held(s) :
        /\ IdOf(s, i).random = Random[HostOf[s]]
        /\ IdOf(s, i).count \in 0 .. Counters - 1
        /\ drawn[HostOf[s]] <= Counters => Age(HostOf[s], IdOf(s, i).count) < drawn[HostOf[s]]

\* No two of a process have one count.
DistinctInv ==
    \A s, t \in Source : \A i \in Held(s), j \in Held(t) :
        /\ HostOf[s] = HostOf[t] /\ drawn[HostOf[s]] <= Counters
        /\ IdOf(s, i).count = IdOf(t, j).count
        => s = t /\ i = j

UniqueInv == TypeOK /\ DrawnInv /\ DistinctInv

LEMMA NextCount ==
    ASSUME NEW n \in Nat \ {0}, NEW c \in 0 .. n - 1
    PROVE  (c + 1) % n = IF c = n - 1 THEN 0 ELSE c + 1
OBVIOUS

\* The arithmetic of a draw: the counter value taken is not the count of an id in
\* play, and these become one older.
LEMMA DrawAges ==
    ASSUME NEW n \in Nat \ {0}, NEW k \in 0 .. n - 1, NEW c \in 0 .. n - 1, NEW d \in Nat,
           d <= n - 1,
           (IF c < k THEN k - 1 - c ELSE k + n - 1 - c) < d
    PROVE  LET m == IF k = n - 1 THEN 0 ELSE k + 1 IN
           c # k /\ (IF c < m THEN m - 1 - c ELSE m + n - 1 - c) < d + 1
OBVIOUS

LEMMA GenerateUnique ==
    ASSUME UniqueInv, NEW s \in Source, GenerateNewId(s), TypeOK', issued' = issued,
           pc'[s] = "check", \A t \in Source \ {s} : pc'[t] = pc[t]
    PROVE  UniqueInv'
<1> DEFINE p == HostOf[s]
           k == counter[p]
<1>1. /\ \A t \in Source : HostOf[t] \in Process
      /\ Counters \in Nat \ {0} /\ k \in 0 .. Counters - 1 /\ drawn[p] \in Nat
      /\ TypeOK /\ DrawnInv /\ DistinctInv
  BY ConstantsAssumption DEF ConstantsAssumption, UniqueInv, TypeOK
<1>2. PICK ms \in ClockReadings :
        /\ result' = [result EXCEPT ![s] = [ms |-> ms, random |-> Random[p], count |-> k]]
        /\ counter' = [counter EXCEPT ![p] = (@ + 1) % Counters]
        /\ Draw(p)
  BY DEF GenerateNewId
<1>3. counter'[p] = IF k = Counters - 1 THEN 0 ELSE k + 1
  BY <1>1, <1>2, NextCount DEF TypeOK
<1>4. \A q \in Process \ {p} : counter'[q] = counter[q] /\ drawn'[q] = drawn[q]
  BY <1>1, <1>2 DEF TypeOK, Draw
<1>5. /\ drawn'[p] <= Counters => drawn'[p] = drawn[p] + 1 /\ drawn[p] <= Counters - 1
      /\ drawn'[p] <= Counters => drawn[p] <= Counters
  <2>1. drawn'[p] = IF drawn[p] > Counters THEN drawn[p] ELSE drawn[p] + 1
    BY <1>1, <1>2 DEF TypeOK, Draw
  <2>2. QED
    BY <1>1, <2>1
<1>6. /\ 0 \in Held(s)' /\ IdOf(s, 0)'.random = Random[p] /\ IdOf(s, 0)'.count = k
  <2>1. Len(issued[s]) \in Nat
    BY <1>1 DEF TypeOK
  <2>2. result'[s] = [ms |-> ms, random |-> Random[p], count |-> k]
    BY <1>1, <1>2 DEF TypeOK
  <2>3. QED
    BY <2>1, <2>2 DEF Held, IdOf
<1>7. ASSUME NEW t \in Source, NEW i \in Held(t)', ~(t = s /\ i = 0)
      PROVE  i \in Held(t) /\ IdOf(t, i)' = IdOf(t, i)
  <2>1. CASE t = s
    BY <1>7, <2>1 DEF Held, IdOf
  <2>2. CASE t # s
    BY <1>1, <1>2, <1>7, <2>2 DEF Held, IdOf, TypeOK
  <2>3. QED
    BY <2>1, <2>2
<1> HIDE DEF k
\* An id in play of the process, unless it is the new one, has another count.
<1>8. ASSUME NEW t \in Source, NEW i \in Held(t)', ~(t = s /\ i = 0),
             HostOf[t] = p, drawn'[p] <= Counters
      PROVE  IdOf(t, i).count # k /\ Age(p, IdOf(t, i).count)' < drawn'[p]
  <2>1. PICK c : c = IdOf(t, i).count
    OBVIOUS
  <2>2. c \in 0 .. Counters - 1 /\ Age(p, c) < drawn[p] /\ drawn[p] <= Counters - 1
    BY <1>1, <1>5, <1>7, <1>8, <2>1 DEF DrawnInv
  <2>3. (IF c < k THEN k - 1 - c ELSE k + Counters - 1 - c) < drawn[p]
    BY <2>2 DEF Age, k
  <2>4. c # k /\ Age(p, c)' < drawn[p] + 1
    BY <1>1, <1>3, <2>2, <2>3, DrawAges DEF Age
  <2>5. IdOf(t, i)' = IdOf(t, i) /\ IdOf(t, i)'.count = c
    BY <1>7, <1>8, <2>1
  <2>6. QED
    BY <1>5, <1>8, <2>1, <2>4, <2>5 DEF Age
<1>9. DrawnInv'
  <2> SUFFICES ASSUME NEW t \in Source, NEW i \in Held(t)'
               PROVE  /\ IdOf(t, i)'.random = Random[HostOf[t]]
                      /\ IdOf(t, i)'.count \in 0 .. Counters - 1
                      /\ drawn'[HostOf[t]] <= Counters =>
                            Age(HostOf[t], IdOf(t, i).count)' < drawn'[HostOf[t]]
    BY DEF DrawnInv
  <2>1. CASE t = s /\ i = 0
    <3>1. drawn'[p] <= Counters => Age(p, IdOf(s, 0).count)' < drawn'[p]
      BY <1>1, <1>3, <1>5, <1>6 DEF Age
    <3>2. QED
      BY <1>1, <1>6, <2>1, <3>1
  <2>2. CASE ~(t = s /\ i = 0)
    <3>1. i \in Held(t) /\ IdOf(t, i)' = IdOf(t, i)
      BY <1>7, <2>2
    <3>2. CASE HostOf[t] = p
      BY <1>1, <1>8, <2>2, <3>1, <3>2 DEF DrawnInv
    <3>3. CASE HostOf[t] # p
      BY <1>1, <1>4, <3>1, <3>3 DEF DrawnInv, Age
    <3>4. QED
      BY <3>2, <3>3
  <2>3. QED
    BY <2>1, <2>2
<1>10. DistinctInv'
  <2> SUFFICES ASSUME NEW t \in Source, NEW u \in Source, NEW i \in Held(t)', NEW j \in Held(u)',
                      HostOf[t] = HostOf[u], drawn'[HostOf[t]] <= Counters,
                      IdOf(t, i)'.count = IdOf(u, j)'.count
               PROVE  t = u /\ i = j
    BY DEF DistinctInv
  <2>1. CASE (t = s /\ i = 0) /\ ~(u = s /\ j = 0)
    BY <1>6, <1>7, <1>8, <2>1
  <2>2. CASE ~(t = s /\ i = 0) /\ (u = s /\ j = 0)
    BY <1>6, <1>7, <1>8, <2>2
  <2>3. CASE ~(t = s /\ i = 0) /\ ~(u = s /\ j = 0)
    <3>1. /\ i \in Held(t) /\ IdOf(t, i)' = IdOf(t, i)
          /\ j \in Held(u) /\ IdOf(u, j)' = IdOf(u, j)
      BY <1>7, <2>3
    <3>2. drawn[HostOf[t]] <= Counters
      BY <1>1, <1>4, <1>5
    <3>3. QED
      BY <1>1, <3>1, <3>2 DEF DistinctInv
  <2>4. QED
    BY <2>1, <2>2, <2>3
<1>11. QED
  BY <1>9, <1>10 DEF UniqueInv

LEMMA UniqueStep ==
    ASSUME UniqueInv, [Next]_vars
    PROVE  UniqueInv'
<1>0. TypeOK' /\ TypeOK /\ DrawnInv /\ DistinctInv
  BY TypeStep DEF UniqueInv
<1>1. CASE Tick \/ UNCHANGED vars
  <2>1. UNCHANGED <<counter, drawn, result, pc, issued>>
    BY <1>1 DEF Tick, vars
  <2>2. \A s : Held(s)' = Held(s) /\ \A i : IdOf(s, i)' = IdOf(s, i)
    BY <2>1 DEF Held, IdOf
  <2>3. \A p, c : Age(p, c)' = Age(p, c)
    BY <2>1 DEF Age
  <2>4. DrawnInv'
    BY <1>0, <2>1, <2>2, <2>3 DEF DrawnInv
  <2>5. DistinctInv'
    BY <1>0, <2>1, <2>2 DEF DistinctInv
  <2>6. QED
    BY <1>0, <2>4, <2>5 DEF UniqueInv
<1>2. ASSUME NEW s \in Source, Call(s)
      PROVE  UniqueInv'
  BY <1>0, <1>2, GenerateUnique DEF Call, TypeOK
<1>3. ASSUME NEW s \in Source, Retry(s)
      PROVE  UniqueInv'
  BY <1>0, <1>3, GenerateUnique DEF Retry, TypeOK
<1>4. ASSUME NEW s \in Source, Return(s)
      PROVE  UniqueInv'
  <2> DEFINE last == Len(issued[s]) + 1
  <2>1. /\ pc[s] = "check" /\ pc'[s] = "idle" /\ UNCHANGED <<counter, drawn>>
        /\ \A t \in Source \ {s} : pc'[t] = pc[t] /\ result'[t] = result[t] /\ issued'[t] = issued[t]
        /\ Len(issued[s]) \in Nat
    BY <1>0, <1>4 DEF Return, TypeOK
  \* The id returned is the one that was compared.
  <2>2. ASSUME NEW t \in Source, NEW i \in Held(t)'
        PROVE  \/ t = s /\ i = last /\ 0 \in Held(s) /\ IdOf(t, i)' = IdOf(s, 0)
               \/ (t = s => i # 0) /\ i \in Held(t) /\ IdOf(t, i)' = IdOf(t, i)
    <3>1. CASE t # s
      BY <2>1, <3>1 DEF Held, IdOf
    <3>2. CASE t = s
      <4>1. i \in 1 .. Len(issued'[s])
        BY <1>0, <2>1, <3>2 DEF Held, TypeOK
      <4>2. \/ i = last /\ issued'[s][i].id = result[s]
            \/ /\ i \in 1 .. Len(issued[s]) /\ issued'[s][i] = issued[s][i]
        <5>1. TypeOK /\ Return(s)
          BY <1>0, <1>4
        <5>2. QED
          BY <4>1, <5>1, ReturnIssued
      <4>3. i \in Nat \ {0} /\ IdOf(t, i)' = issued'[s][i].id
        BY <3>2, <4>1 DEF IdOf
      <4>4. 0 \in Held(s) /\ IdOf(s, 0) = result[s]
        BY <2>1 DEF Held, IdOf
      <4>5. QED
        BY <2>1, <3>2, <4>2, <4>3, <4>4 DEF Held, IdOf
    <3>3. QED
      BY <3>1, <3>2
  <2> DEFINE Was(t, i) == IF t = s /\ i = last THEN 0 ELSE i
  <2>3. ASSUME NEW t \in Source, NEW i \in Held(t)'
        PROVE  Was(t, i) \in Held(t) /\ IdOf(t, i)' = IdOf(t, Was(t, i))
    <3>1. ~(t = s /\ i = last) \/ i = last
      OBVIOUS
    <3>2. last \notin Held(s)
      BY <2>1 DEF Held
    <3>3. QED
      BY <2>2, <3>2
  <2>4. ASSUME NEW t \in Source, NEW i \in Held(t)', NEW j \in Held(t)', Was(t, i) = Was(t, j)
        PROVE  i = j
    BY <2>1, <2>2, <2>4
  <2> HIDE DEF Was
  <2>5. DrawnInv'
    BY <1>0, <2>1, <2>3 DEF DrawnInv, Age
  <2>6. DistinctInv'
    <3> SUFFICES ASSUME NEW t \in Source, NEW u \in Source, NEW i \in Held(t)', NEW j \in Held(u)',
                        HostOf[t] = HostOf[u], drawn'[HostOf[t]] <= Counters,
                        IdOf(t, i)'.count = IdOf(u, j)'.count
                 PROVE  t = u /\ i = j
      BY DEF DistinctInv
    <3>1. t = u /\ Was(t, i) = Was(u, j)
      BY <1>0, <2>1, <2>3 DEF DistinctInv
    <3>2. QED
      BY <2>4, <3>1
  <2>7. QED
    BY <1>0, <2>5, <2>6 DEF UniqueInv
<1>5. QED
  BY <1>1, <1>2, <1>3, <1>4 DEF Next

\* No two calls return the same id, of one data source or of two, of one process or
\* of several, until a process has gone through all the values of its counter
\* (temporal_id.hpp:42).
THEOREM Unique == Spec => []IdsUnique
<1>1. Init => UniqueInv
  BY TypeInit DEF Init, UniqueInv, DrawnInv, DistinctInv, Held
<1>2. UniqueInv /\ [Next]_vars => UniqueInv'
  BY UniqueStep
<1>3. UniqueInv => IdsUnique
  <2> SUFFICES ASSUME UniqueInv, \A p \in Process : drawn[p] <= Counters,
                      NEW s \in Source, NEW t \in Source,
                      NEW i \in 1 .. Len(issued[s]), NEW j \in 1 .. Len(issued[t]),
                      issued[s][i].id = issued[t][j].id
               PROVE  s = t /\ i = j
    BY DEF IdsUnique
  <2>1. /\ i \in Held(s) /\ IdOf(s, i) = issued[s][i].id
        /\ j \in Held(t) /\ IdOf(t, j) = issued[t][j].id
    BY DEF UniqueInv, TypeOK, Held, IdOf
  <2>2. HostOf[s] \in Process /\ HostOf[t] \in Process
    BY ConstantsAssumption DEF ConstantsAssumption
  <2>3. HostOf[s] = HostOf[t]
    BY <2>1, <2>2, RandomsDiffer DEF UniqueInv, DrawnInv
  <2>4. QED
    BY <2>1, <2>2, <2>3 DEF UniqueInv, DistinctInv
<1>4. QED
  BY <1>1, <1>2, <1>3, PTL DEF Spec
=============================================================================
