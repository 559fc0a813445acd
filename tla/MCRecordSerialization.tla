------------------------ MODULE MCRecordSerialization -----------------------
(* A program stores records and reads them, or walks the calendar, or saves   *)
(* and loads records through contexts.                                        *)
EXTENDS RecordSerialization, CalendarWalk, ContextBase

MCFields ==
    [ Rec |-> <<Field("_id", <<"temporal_id">>), KeyField>>,
      SampleKey |-> <<Field("name", <<"string">>), Field("number", <<"int">>)>>,
      Sample |-> <<Field("_id", <<"temporal_id">>), KeyField,
                   Field("name", <<"string">>), Field("number", <<"int">>),
                   Field("amount", <<"nullable", "long">>), Field("value", <<"double">>),
                   Field("day", <<"nullable", "date">>), Field("at", <<"nullable", "time">>),
                   Field("open", <<"nullable", "minute">>), Field("moment", <<"datetime">>),
                   Field("side", <<"enum", "Side">>), Field("raw", <<"bytes">>),
                   Field("link", <<"key", "SampleKey">>),
                   Field("part", <<"data", "Part">>), Field("parts", <<"list", <<"data", "Part">>>>),
                   Field("marks", <<"list", <<"nullable", "int">>>>),
                   Field("moments", <<"list", <<"datetime">>>>)>>,
      Part |-> <<Field("weight", <<"long">>), Field("flag", <<"nullable", "bool">>),
                 Field("notes", <<"list", <<"string">>>>)>>,
      Special |-> <<Field("weight", <<"long">>), Field("flag", <<"nullable", "bool">>),
                    Field("notes", <<"list", <<"string">>>>), Field("extra", <<"nullable", "double">>)>>,
      Plain |-> <<Field("number", <<"long">>), Field("amount", <<"nullable", "long">>),
                  Field("moment", <<"nullable", "datetime">>), Field("side", <<"enum", "Side">>),
                  Field("link", <<"key", "SampleKey">>), Field("part", <<"data", "Part">>),
                  Field("parts", <<"list", <<"data", "Part">>>>),
                  Field("moments", <<"list", <<"datetime">>>>)>>]
MCBaseType ==
    [Rec |-> None, SampleKey |-> None, Sample |-> "Rec", Part |-> None, Special |-> "Part", Plain |-> None]
MCEnumItems == [Side |-> <<"Empty", "Left", "Right">>]
MCKeyClass == [Sample |-> "SampleKey"]

\* New objects with the fields that f gives.
Object(class, f) == <<"data", class, f @@ default_fields(class)>>
SampleObject(f) == Object("Sample", f @@ ("name" :> <<"string", <<"A">>>>))

Part1 == Object("Part", "weight" :> <<"long", 0, 5>>)
Part2 == Object("Part", ("flag" :> <<"bool", TRUE>>) @@ ("weight" :> <<"long", 7, 1>>)
                           @@ ("notes" :> <<"list", <<<<"string", <<"B">>>>, Null>>>>))
EmptyNotes == Object("Part", "notes" :> <<"list", <<>>>>)
Special0 == Object("Special", <<>>)
Special1 == Object("Special", "extra" :> <<"double", 3>>)
Link == <<"key", "SampleKey", [name |-> <<"string", <<"B">>>>, number |-> <<"int", 2>>]>>
Day1 == DayNumber(1969, 12, 31)

\* What each field may hold besides its default.
Changes(n) ==
    CASE n \in {"amount", "number"} -> {<<"long", 0, 5>>, <<"long", -1, Billion - 5>>, <<"long", 3, 0>>}
      [] n = "value" -> {<<"double", 3>>, <<"double", 4>>}
      [] n = "day" -> {<<"date", Day1>>}
      [] n = "at" -> {<<"time", LocalTime(23, 59, 59, 999)>>, <<"time", TimePlusUnits(LocalTime(23, 0, 0, 0), "hours", 2)>>}
      [] n = "open" -> {<<"minute", LocalMinute(9, 30)>>}
      [] n = "moment" -> {<<"datetime", LocalDateTime(Day1, LocalTime(23, 59, 0, 1))>>}
      [] n = "side" -> {<<"enum", "Side", "Right">>}
      [] n = "raw" -> {<<"bytes", <<"raw", 1>>>>}
      [] n = "link" -> {Link}
      [] n = "part" -> {Part1, Part2, EmptyNotes, Special0, Special1}
      [] n = "parts" -> {<<"list", <<>>>>, <<"list", <<Part2, Special1>>>>, <<"list", <<Null, Part1>>>>}
      [] n = "marks" -> {<<"list", <<<<"int", 1>>, Null>>>>, <<"list", <<>>>>}
      [] n = "moments" -> {<<"list", <<<<"datetime", LocalDateTime(Day1, LocalTime(0, 0, 0, 0))>>>>>>}

\* Objects of a class with at most one field changed.
Variants(class, base) ==
    {base} \cup UNION {{<<"data", class, [base[3] EXCEPT ![n] = v]>> : v \in Changes(n)} :
                          n \in DOMAIN base[3] \ {"_id", "name", "notes"}}
NumberOfSample(o) == o[3]["number"][1] = "int"
MCObjects ==
    {o \in Variants("Sample", SampleObject("_id" :> <<"temporal_id", 3>>)) : NumberOfSample(o)}
        \cup Variants("Plain", Object("Plain", <<>>))
        \cup {Link, SampleObject([day |-> <<"date", 0>>, open |-> <<"minute", 0>>, link |-> Link, part |-> Part2,
                 parts |-> <<"list", <<Part1, Null, Special1>>>>, marks |-> <<"list", <<Null, <<"int", 2>>>>>>])}

Picked(class, chosen) ==
    [i \in DOMAIN chosen |-> Fields[class][CHOOSE j \in FieldsNamed(class, chosen[i]) : TRUE]]
MCSelections ==
    [SampleKey |-> {}, 
     Sample |-> {Picked("Sample", <<"_id", "parts", "side", "moment", "at", "number", "amount", "marks", "part">>),
                 Picked("Sample", <<"_id", "link">>), Picked("Sample", <<"number", "_id", "raw">>),
                 Picked("Sample", <<"number">>)},
     Plain |-> {Picked("Plain", <<"part", "moment", "parts">>)}]

MCClientValues == {<<"int", 1>>, Null}

------------------------------------------------------------------------------
\* Walks over the ends of days, months, leap years and the epoch.
MCStarts ==
    {[day |-> DayNumber(1969, 12, 31), ms |-> DayMs - 1], [day |-> DayNumber(2000, 2, 29), ms |-> 0],
     [day |-> DayNumber(2100, 1, 31), ms |-> 12 * HourMs + 1]}
MCPeriods == {from_days(1), from_weeks(5), from_hours(25), from_milliseconds(-1), from_minutes(90)}
MCAmounts == {-13, 1, 12}

------------------------------------------------------------------------------
\* The second data source was initialised with a context of its own, whose data source is
\* either that one, with one call less, or the first.  Contexts use the dataset that imports
\* the other, and that.
MCHomeOf == [d1 |-> "c1", d2 |-> "c2"]
MCContextInit ==
    /\ ContextInit
    /\ data_source["c1"] = "d1" /\ data_set = [c1 |-> 2, c2 |-> 1]
    /\ stored["d2"] = <<>>
    /\ stored["d1"][1].key = DataSetKeyFor("n")
    /\ contextCalls \in {IF data_source["c2"] = "d1" THEN 0 ELSE 1, MaxContextCalls}
Interchangeable == Permutations(RecordObject)

------------------------------------------------------------------------------
\* The values that are stored come from the walks: a run is one of the three.
NoWalk ==
    /\ date = Epoch /\ time = Moment(Epoch, 0) /\ moment = time
    /\ origin = [date |-> date, time |-> time, moment |-> moment]
    /\ elapsed = from_days(0) /\ whole = TRUE /\ steps = MaxSteps + 1
NoSerialization ==
    /\ bson = Bson!NewBsonWriter /\ json = Json!NewJsonWriter /\ made = MaxCalls
    /\ object = Null /\ format = "" /\ stage = "done" /\ pending = <<>> /\ writer = bson
    /\ loaded = NoReader /\ tuple = NewTupleWriter(<<>>)
NoContext ==
    /\ MCContextInit /\ data_source["c2"] = "d1"
    /\ contextCalls = MaxContextCalls
MCInit ==
    \/ Init /\ NoWalk /\ NoContext
    \/ NoSerialization /\ CalendarInit /\ NoContext
    \/ NoSerialization /\ NoWalk /\ MCContextInit
MCNext ==
    \/ contextCalls = MaxContextCalls /\ Next /\ UNCHANGED <<calendarVars, contextVars>>
    \/ steps < MaxSteps /\ CalendarNext /\ UNCHANGED <<vars, contextVars>>
    \/ contextCalls < MaxContextCalls /\ ContextNext /\ UNCHANGED <<vars, calendarVars>>

\* StoredFaithfully of all that a walk comes to, in the runs that are walks: what is stored
\* of a date, a time or a moment brings it back, and is in its order.
WalksStored == steps <= MaxSteps => StoredFaithfully

MCSpec == MCInit /\ [][MCNext]_<<vars, calendarVars, contextVars>>
=============================================================================
