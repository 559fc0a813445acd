----------------------------- MODULE OrderedIds -----------------------------
(***************************************************************************)
(* How a data source obtains its TemporalIds: MongoDataSource::             *)
(* create_ordered_object_id over TemporalId::generate_new_id.               *)
(*                                                                         *)
(* An id is 16 bytes: the milliseconds of the host clock as a big-endian    *)
(* int64, then bytes 4..11 of a fresh BSON ObjectId, which are a 5-byte     *)
(* value drawn once per process and a 3-byte counter of the process that    *)
(* every generated ObjectId increments and that wraps.  Ids are compared    *)
(* with memcmp, hence lexicographically in those three fields.              *)
(*                                                                         *)
(* Several data sources run in one process (a Context holds one each), and  *)
(* several processes on several hosts share a database.  No clock is        *)
(* trusted: a reading is anywhere within ClockError of the true time, so    *)
(* the clock of one process may step back between two readings.             *)
(***************************************************************************)
EXTENDS Naturals, Sequences

CONSTANTS
    Source,      \* data source objects
    Process,     \* operating system processes
    HostOf,      \* the process each data source lives in
    Random,      \* the 5-byte random value of each process
    Counters,    \* number of values of the ObjectId counter (2^24 in the driver)
    ClockError,  \* largest distance of a clock reading from the true time
    MaxNow,      \* bound: the true time the model stops at
    MaxCalls     \* bound: calls of all the data sources together

ASSUME ConstantsAssumption ==
    /\ HostOf \in [Source -> Process]
    /\ Random \in [Process -> Nat]
    /\ Counters \in Nat \ {0}
    /\ ClockError \in Nat
    /\ MaxNow \in Nat
    /\ MaxCalls \in Nat

\* The driver draws 5 bytes at random, and nothing rules out that two processes draw
\* the same.  Only the uniqueness of ids rests on it.
ASSUME RandomsDiffer == \A p, q \in Process : Random[p] = Random[q] => p = q

VARIABLES
    now,      \* true time in milliseconds
    counter,  \* next value of each process's ObjectId counter
    drawn,    \* history: counter values drawn by each process, up to a full lap and one more
    prev,     \* prev_object_id_ of each data source
    result,   \* local variable result of create_ordered_object_id
    began,    \* true time at which the running call began
    calls,    \* number of calls begun, for the bound
    pc,       \* "idle", or "check" when result is about to be compared with prev
    issued    \* history: the calls that returned, in order

vars == <<now, counter, drawn, prev, result, began, calls, pc, issued>>

TemporalId == [ms : Nat, random : Nat, count : Nat]

\* TemporalId::empty, all bytes zero.
EmptyId == [ms |-> 0, random |-> 0, count |-> 0]

\* Mutant: the bytes are compared from the wrong end.
BeforeFromTheEnd(a, b) ==
    \/ a.count < b.count
    \/ a.count = b.count /\ a.random < b.random
    \/ a.count = b.count /\ a.random = b.random /\ a.ms < b.ms

\* operator< : memcmp of the 16 bytes.
Before(a, b) ==
    \/ a.ms < b.ms
    \/ a.ms = b.ms /\ a.random < b.random
    \/ a.ms = b.ms /\ a.random = b.random /\ a.count < b.count

\* Mutants: only a repeated id is generated again; a later id is.
NotAfterOnlyEqual(a, b) == a = b
NotAfterSwapped(a, b) == a = b \/ Before(b, a)

\* operator<=
NotAfter(a, b) == a = b \/ Before(a, b)

\* What the clock of any host may show.
ClockReadings == {ms \in 0 .. now + ClockError : now <= ms + ClockError}

Issued == [id : TemporalId, began : Nat, ended : Nat]

TypeOK ==
    /\ now \in Nat
    /\ counter \in [Process -> 0 .. Counters - 1]
    /\ drawn \in [Process -> 0 .. Counters + 1]
    /\ prev \in [Source -> TemporalId]
    /\ result \in [Source -> TemporalId]
    /\ began \in [Source -> Nat]
    /\ calls \in 0 .. MaxCalls
    /\ pc \in [Source -> {"idle", "check"}]
    /\ issued \in [Source -> Seq(Issued)]

Init ==
    /\ now = ClockError + 1
    /\ counter \in [Process -> 0 .. Counters - 1]
    /\ drawn = [p \in Process |-> 0]
    /\ prev = [s \in Source |-> EmptyId]
    /\ result = [s \in Source |-> EmptyId]
    /\ began = [s \in Source |-> 0]
    /\ calls = 0
    /\ pc = [s \in Source |-> "idle"]
    /\ issued = [s \in Source |-> <<>>]

-----------------------------------------------------------------------------

\* The process of s takes the next value of its counter.
Draw(p) == drawn' = [drawn EXCEPT ![p] = IF @ > Counters THEN @ ELSE @ + 1]

\* Mutants: the counter does not advance; the counter does not wrap.
GenerateSameCount(s) ==
    \E ms \in ClockReadings :
        LET p == HostOf[s] IN
        /\ result' = [result EXCEPT ![s] =
                        [ms |-> ms, random |-> Random[p], count |-> counter[p]]]
        /\ counter' = counter
        /\ Draw(p)
GenerateNoWrap(s) ==
    \E ms \in ClockReadings :
        LET p == HostOf[s] IN
        /\ result' = [result EXCEPT ![s] =
                        [ms |-> ms, random |-> Random[p], count |-> counter[p]]]
        /\ counter' = [counter EXCEPT ![p] = @ + 1]
        /\ Draw(p)

\* TemporalId::generate_new_id on behalf of data source s.
GenerateNewId(s) ==
    \E ms \in ClockReadings :
        LET p == HostOf[s] IN
        /\ result' = [result EXCEPT ![s] =
                        [ms |-> ms, random |-> Random[p], count |-> counter[p]]]
        /\ counter' = [counter EXCEPT ![p] = (@ + 1) % Counters]
        /\ Draw(p)

\* The call begins with a first id.  The bounds leave the clock enough time to
\* pass every id the call may have to exceed.
Call(s) ==
    /\ pc[s] = "idle"
    /\ calls < MaxCalls
    /\ calls' = calls + 1
    /\ now + 2 * ClockError < MaxNow
    /\ GenerateNewId(s)
    /\ pc' = [pc EXCEPT ![s] = "check"]
    /\ began' = [began EXCEPT ![s] = now]
    /\ UNCHANGED <<now, prev, issued>>

\* while (result <= prev_object_id_): generate again.
Retry(s) ==
    /\ pc[s] = "check"
    /\ NotAfter(result[s], prev[s])
    /\ GenerateNewId(s)
    /\ UNCHANGED <<now, prev, began, calls, pc, issued>>

\* The loop ends: remember the id and return it; the locals are gone.
Return(s) ==
    /\ pc[s] = "check"
    /\ ~NotAfter(result[s], prev[s])
    /\ prev' = [prev EXCEPT ![s] = result[s]]
    /\ pc' = [pc EXCEPT ![s] = "idle"]
    /\ issued' = [issued EXCEPT ![s] =
                    Append(@, [id |-> result[s], began |-> began[s], ended |-> now])]
    /\ result' = [result EXCEPT ![s] = EmptyId]
    /\ began' = [began EXCEPT ![s] = 0]
    /\ UNCHANGED <<now, counter, drawn, calls>>

Tick ==
    /\ now < MaxNow
    /\ now' = now + 1
    /\ UNCHANGED <<counter, drawn, prev, result, began, calls, pc, issued>>

Next ==
    \/ Tick
    \/ \E s \in Source : Call(s) \/ Retry(s) \/ Return(s)

\* Time passes, and a thread inside the call keeps running.
Fairness ==
    /\ WF_vars(Tick)
    /\ \A s \in Source : WF_vars(Retry(s) \/ Return(s))

Spec == Init /\ [][Next]_vars /\ Fairness

-----------------------------------------------------------------------------

\* "For this data source instance, to arbitrary resolution"
\* (mongo_data_source.hpp:89): the ids one data source returns strictly
\* increase, whatever the clock does and however often the counter wraps.
SourceOrdered ==
    \A s \in Source : \A i, j \in 1 .. Len(issued[s]) :
        i < j => Before(issued[s][i].id, issued[s][j].id)

\* "Across all processes and machines", to the resolution of the clocks
\* (mongo_data_source.hpp:90-95): when one call returned more than twice the
\* clock error before another began, the ids are in the order of the calls.
CrossSourceOrder ==
    \A s, t \in Source :
        \A i \in 1 .. Len(issued[s]), j \in 1 .. Len(issued[t]) :
            issued[s][i].ended + 2 * ClockError < issued[t][j].began
                => Before(issued[s][i].id, issued[t][j].id)

\* temporal_id.hpp:42 calls an id unique: no two calls return the same id, of
\* one data source or of two, in one process or in two, until a process has
\* gone through all the values of its counter.  The retry of one data source
\* draws from the counter the others use, so it may not spoil this.
IdsUnique ==
    (\A p \in Process : drawn[p] <= Counters) =>
        \A s, t \in Source :
            \A i \in 1 .. Len(issued[s]), j \in 1 .. Len(issued[t]) :
                issued[s][i].id = issued[t][j].id => s = t /\ i = j

\* The retry loop of create_ordered_object_id ends: every call returns.
CallsReturn == \A s \in Source : pc[s] = "check" ~> pc[s] = "idle"
=============================================================================
