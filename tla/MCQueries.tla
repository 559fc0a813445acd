----------------------------- MODULE MCQueries ------------------------------
(* A program writes filters, or makes a query, or asks for types, or opens    *)
(* data sources and their collections, or makes and stores ids.               *)
EXTENDS FilterTokens, QueryPipeline, TypeRegistry, Collections, IdentifierForms, TLC

MCNoFields == <<>>

\* Two documents around the epoch, and one that misses fields.
Weight(n) == (<<"part", "weight">> :> <<"int", n>>) @@ (<<"part", "inner", "weight">> :> <<"int", 3 - n>>)
MCDocument(day, open, side, id, n) ==
    (<<"day">> :> <<"date", day>>) @@ (<<"open">> :> <<"minute", open>>) @@ (<<"side">> :> <<"enum", "Side", side>>)
        @@ (<<"link">> :> <<"temporal_id", id>>) @@ Weight(n)
        @@ (<<"moment">> :> <<"datetime", LocalDateTime(day, LocalTime(0, 0, 0, n))>>)
MCCollection ==
    {MCDocument(DayNumber(1969, 12, 31), LocalMinute(9, 59), "Left", 1, 1),
     MCDocument(DayNumber(1970, 1, 1), LocalMinute(10, 0), "Right", 2, 2),
     Weight(1) @@ (<<"open">> :> <<"minute", 0>>)}
Today == <<"date", DayNumber(1970, 1, 1)>>
NearlyTen == <<"minute", LocalMinute(9, 59)>>
JustAfter == <<"datetime", LocalDateTime(DayNumber(1970, 1, 1), LocalTime(0, 0, 0, 2))>>
MCConditions ==
    (<<"day">> :> {<<"$lt", Today>>, <<"$gte", Today>>}) @@ (<<"open">> :> {<<"$gt", NearlyTen>>})
        @@ (<<"side">> :> {<<"$ne", <<"enum", "Side", "Left">>>>})
        @@ (<<"link">> :> {<<"$eq", <<"temporal_id", 1>>>>, <<"$in", <<<<"temporal_id", 1>>, <<"temporal_id", 2>>>>>>})
        @@ (<<"part", "weight">> :> {<<"$eq", <<"int", 1>>>>, <<"$gt", <<"int", 1>>>>})
        @@ (<<"part", "inner", "weight">> :> {<<"$lte", <<"int", 1>>>>})
        @@ (<<"moment">> :> {<<"$lte", JustAfter>>})
MCElement == UNION {{path[i] : i \in DOMAIN path} : path \in DOMAIN MCConditions}

\* Three documents; two are equal in one field, and other two in the other.
MCContents == <<1, 2, 3>>
MCKeyOf == [a |-> <<1, 1, 2>>, b |-> <<2, 1, 1>>]
MCFilters == {{2, 3}, {1, 3}}

\* Classes A, B, C: B and C of one short name, with a member of one name.
Calling(kind, name, types) == [kind |-> kind, name |-> name, types |-> types]
Based(c) == Calling("base", "", <<c>>)
MCSchemas ==
    [A : {<<>>,
          <<Calling("field", "x", <<"int">>), Calling("method", "m", <<"C">>), Calling("constructor", "new", <<"int">>)>>,
          <<Calling("method", "m", <<"int", "B">>), Calling("field", "y", <<"B">>), Calling("field", "x", <<"A">>)>>},
     B : {<<Based("A"), Calling("field", "x", <<"B">>), Calling("field", "z", <<"int">>)>>,
          <<Calling("method", "m", <<"C", "int">>), Calling("interface", "I", <<"C">>), Based("A"),
            Calling("constructor", "new", <<"A">>)>>,
          <<Calling("field", "z", <<"C">>), Calling("generic_argument", "C", <<"C">>)>>},
     C : {<<Based("B"), Calling("field", "x", <<"int">>), Calling("method", "m", <<"B">>)>>,
          <<Calling("field", "w", <<"A">>), Based("A")>>,
          <<Calling("field", "x", <<"B">>)>>}]
MCAllSchemas == MCSchemas \cup {[c \in {"A", "B", "C"} |-> <<>>]}
MCCppName == [A |-> "3one1AE", B |-> "3one1BE", C |-> "3two1BE"]
MCFullName == [A |-> "one.A", B |-> "one.B", C |-> "two.B"]
MCShortName == [A |-> "A", B |-> "B", C |-> "B"]

\* Environments with one database, with one name, protected by type and flag, and refused.
EnvironmentOf(type, group, name, readOnly) ==
    [env_type |-> type, env_group |-> group, env_name |-> name, mongo_server |-> TRUE, read_only |-> readOnly]
MCSettings ==
    {EnvironmentOf("test", <<"a">>, <<"c", "b">>, FALSE), EnvironmentOf("test", <<"a", "c">>, <<"b">>, FALSE),
     EnvironmentOf("test", <<"c">>, <<"c", "b">>, TRUE), EnvironmentOf("prod", <<"a">>, <<"b">>, FALSE),
     EnvironmentOf("custom", <<>>, <<"b">>, FALSE), EnvironmentOf("user", <<"a">>, <<"b">>, FALSE),
     EnvironmentOf("test", <<"a">>, <<"b c">>, FALSE), EnvironmentOf("test", <<"a">>, <<"long">>, FALSE)}
MCPartLength == ("PROD" :> 4) @@ ("TEST" :> 4) @@ ("a" :> 1) @@ ("b" :> 1) @@ ("c" :> 1) @@ ("b c" :> 3) @@ ("long" :> 60)

\* Records of one root, which declare the same index and different ones of one name.
MCBaseOf ==
    [Data |-> Unset, Key |-> "Data", Record |-> "Data", Part |-> "Data",
     TypedKey |-> "Key", TradeKey |-> "TypedKey",
     TypedRecord |-> "Record", RootRecord |-> "TypedRecord", Trade |-> "RootRecord",
     Swap |-> "Trade", Bond |-> "Trade"]
MCClass == DOMAIN MCBaseOf
MCTemplates == {"TypedKey", "TypedRecord", "RootRecord"}
MCArguments == [c \in MCClass |-> IF c \in {"TypedKey", "TypedRecord"} THEN <<"TradeKey", "Trade">> ELSE <<>>]
Up(element) == [element |-> element, minus |-> FALSE]
Down(element) == [element |-> element, minus |-> TRUE]
Indexed(pluses, blanks, names, name) ==
    [definition |-> [pluses |-> pluses, blanks |-> blanks, tokens |-> names], name |-> name]
MCAttributes ==
    [c \in MCClass |->
        CASE c = "Trade" -> <<Indexed(1, FALSE, <<Up("a"), Down("b")>>, Unset), Indexed(0, FALSE, <<Up("b")>>, "own")>>
          [] c = "Swap" -> <<Indexed(0, FALSE, <<Up("b")>>, "own"), Indexed(0, FALSE, <<Up("x"), Up("a")>>, "other")>>
          [] c = "Bond" -> <<Indexed(0, TRUE, <<Down("a"), Up("b")>>, "other")>>
          [] OTHER -> <<>>]
MCOwnFields == [c \in MCClass |-> CASE c = "Trade" -> {"a", "b"} [] c = "Swap" -> {"x"} [] OTHER -> {}]

MCTails == {<<0, 0, 0, 0, 0, 0, 0, 0>>, <<0, 3, 0, 1, 0, 0, 2, 3>>, <<1, 0, 0, 0, 0, 3, 3, 3>>}
MCTimes == {-1, 0, 3, 4, 255}

Symmetry == Permutations(Source)

NoFilter == filterCalls = 0
NoQuery == queryCalls = 0
NoRegistry == type_map = <<>> /\ schema = [c \in CppClass |-> <<>>]
NoCollection == opened = [s \in Source |-> Unset]
NoIds == clock = 0 /\ ids = <<>>
MCInit == FilterInit /\ QueryInit /\ RegistryInit /\ CollectionsInit /\ IdsInit
MCNext ==
    \/ NoQuery /\ NoRegistry /\ NoCollection /\ NoIds /\ FilterNext /\ UNCHANGED <<queryVars, registryVars, collectionVars, idVars>>
    \/ NoFilter /\ NoRegistry /\ NoCollection /\ NoIds /\ QueryNext /\ UNCHANGED <<filterVars, registryVars, collectionVars, idVars>>
    \/ NoFilter /\ NoQuery /\ NoCollection /\ NoIds /\ RegistryNext /\ UNCHANGED <<filterVars, queryVars, collectionVars, idVars>>
    \/ NoFilter /\ NoQuery /\ NoRegistry /\ NoIds /\ CollectionsNext /\ UNCHANGED <<filterVars, queryVars, registryVars, idVars>>
    \/ NoFilter /\ NoQuery /\ NoRegistry /\ NoCollection /\ IdsNext
       /\ UNCHANGED <<filterVars, queryVars, registryVars, collectionVars>>
MCSpec == MCInit /\ [][MCNext]_<<filterVars, queryVars, registryVars, collectionVars, idVars>>
=============================================================================
