--------------------------- MODULE QueryPipeline ---------------------------
(* QueryInnerImpl: calls gather the stages of an aggregation pipeline, and    *)
(* sort keys until another call flushes them as one stage.                    *)
EXTENDS Naturals, Sequences, FiniteSets, SequencesExt, FiniteSetsExt

CONSTANTS
    Contents,       \* the documents of the collection, in the order it returns them
    KeyOf,          \* the value of each field of each document
    Filters,        \* the sets of documents that filters match
    MaxQueryCalls

VARIABLES
    pipeline_, sort_,
    cursor,     \* the results that the last cursor may give, and those the program asked for
    expected,   \* what the calls have asked for: the results that are right, and
                \* the keys by which then_by refines them
    spent,      \* whether select was called
    queryCalls

queryVars == <<pipeline_, sort_, cursor, expected, spent, queryCalls>>

SortField == DOMAIN KeyOf
Ascending == 1
Descending == -1

------------------------------------------------------------------------------
(* The stages as the server runs them: the sets of results it may give.  A    *)
(* sort leaves equal documents in any order, and groups come in any order.    *)

Before(k, a, b) == IF k[2] = Ascending THEN KeyOf[k[1]][a] < KeyOf[k[1]][b] ELSE KeyOf[k[1]][a] > KeyOf[k[1]][b]
\* a may come before b in the order of the keys.
InOrder(keys, a, b) ==
    \A i \in DOMAIN keys :
        Before(keys[i], b, a) => \E j \in 1 .. i - 1 : Before(keys[j], a, b)
Sorted(keys, s) == \A i \in DOMAIN s : \A j \in 1 .. i - 1 : InOrder(keys, s[j], s[i])
Orders(set) == SetToSeqs(set)
SortedOrders(keys, s) == {t \in Orders(ToSet(s)) : Sorted(keys, t)}
Prefix(n, s) == SubSeq(s, 1, IF n < Len(s) THEN n ELSE Len(s))
FirstOfEach(field, s) ==
    {s[i] : i \in {i \in DOMAIN s : \A j \in 1 .. i - 1 : KeyOf[field][s[j]] # KeyOf[field][s[i]]}}

Apply(stage, s) ==
    CASE stage[1] = "match" -> {SelectSeq(s, LAMBDA d : d \in stage[2])}
      [] stage[1] = "sort" -> SortedOrders(stage[2], s)
      [] stage[1] = "limit" -> {Prefix(stage[2], s)}
      [] stage[1] = "group" -> Orders(FirstOfEach(stage[2], s))
ApplyToAll(stage, results) == UNION {Apply(stage, s) : s \in results}
Aggregate(stages) ==
    LET results[n \in 0 .. Len(stages)] == IF n = 0 THEN {Contents} ELSE ApplyToAll(stages[n], results[n - 1])
    IN  results[Len(stages)]

------------------------------------------------------------------------------
\* Mutant: the keys stay in the list after they were flushed.
FlushKept(stages) ==
    /\ pipeline_' = pipeline_ \o (IF sort_ = <<>> THEN <<>> ELSE <<<<"sort", sort_>>>>) \o stages
    /\ sort_' = sort_
\* flush_sort, then the stages of the call.
Flush(stages) ==
    /\ pipeline_' = pipeline_ \o (IF sort_ = <<>> THEN <<>> ELSE <<<<"sort", sort_>>>>) \o stages
    /\ sort_' = <<>>

QueryInit ==
    /\ pipeline_ = <<>> /\ sort_ = <<>> /\ cursor = [results |-> {}, asked |-> {}]
    /\ expected = [results |-> {Contents}, keys |-> <<>>]
    /\ spent = FALSE /\ queryCalls = 0

CallQuery == queryCalls < MaxQueryCalls /\ queryCalls' = queryCalls + 1 /\ ~spent
Expect(results) == expected' = [results |-> results, keys |-> <<>>]

where ==
    \E filter \in Filters :
        /\ CallQuery
        /\ Flush(<<<<"match", filter>>>>)
        /\ Expect({SelectSeq(s, LAMBDA d : d \in filter) : s \in expected.results})
        /\ UNCHANGED <<cursor, spent>>
\* The first document of each key, in the order so far.
group_by ==
    \E field \in SortField :
        /\ CallQuery
        /\ Flush(<<<<"group", field>>>>)
        /\ Expect(UNION {Orders(FirstOfEach(field, s)) : s \in expected.results})
        /\ UNCHANGED <<cursor, spent>>
limit ==
    \E n \in 1 .. Len(Contents) - 1 :
        /\ CallQuery
        /\ Flush(<<<<"limit", n>>>>)
        /\ Expect({Prefix(n, s) : s \in expected.results})
        /\ UNCHANGED <<cursor, spent>>

\* sort_by and sort_by_descending; an error while a sort is not finished.
sort_by ==
    \E field \in SortField, direction \in {Ascending, Descending} :
        /\ CallQuery
        /\ sort_ = <<>>
        /\ sort_' = <<<<field, direction>>>>
        /\ expected' = [results |-> UNION {SortedOrders(sort_', s) : s \in expected.results}, keys |-> sort_']
        /\ UNCHANGED <<pipeline_, cursor, spent>>
\* then_by and then_by_descending: the documents that are equal so far are sorted by one
\* more key.  Without a sort that is unfinished the key is the first.
then_by ==
    \E field \in SortField, direction \in {Ascending, Descending} :
        LET key == <<field, direction>>
            refined == Append(expected.keys, key)
        IN  /\ CallQuery
            /\ sort_' = Append(sort_, key)
            /\ expected' = [results |-> IF expected.keys = <<>>
                                        THEN UNION {SortedOrders(<<key>>, s) : s \in expected.results}
                                        ELSE {s \in expected.results : Sorted(refined, s)},
                            keys |-> refined]
            /\ UNCHANGED <<pipeline_, cursor, spent>>

\* A cursor flushes the sort too: a then_by after it sorts anew.
get_cursor ==
    /\ CallQuery
    /\ Flush(<<>>)
    /\ cursor' = [results |-> Aggregate(pipeline_'), asked |-> expected.results]
    /\ expected' = [expected EXCEPT !.keys = <<>>]
    /\ UNCHANGED spent
\* The projection stays in the pipeline: what comes after select reads tuples, so a program
\* selects last.
select ==
    /\ CallQuery
    /\ Flush(<<>>)
    /\ cursor' = [results |-> Aggregate(pipeline_'), asked |-> expected.results]
    /\ expected' = [expected EXCEPT !.keys = <<>>]
    /\ spent' = TRUE

QueryNext == where \/ group_by \/ limit \/ sort_by \/ then_by \/ get_cursor \/ select
QuerySpec == QueryInit /\ [][QueryNext]_queryVars

------------------------------------------------------------------------------
\* The results a cursor may give are those that the calls, each taking effect at once, ask
\* for: no deferred sort is lost, applied twice, or moved past a filter, a limit or a group.
CursorAsAsked == cursor.results = cursor.asked
=============================================================================
