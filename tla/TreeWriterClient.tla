-------------------------- MODULE TreeWriterClient --------------------------
(* A client that writes one tree to the BSON writer and to the JSON writer.   *)
(* It makes any calls in any order: the writers promise to refuse those that  *)
(* do not follow the protocol of TreeWriterBase.                              *)
EXTENDS TreeWriter, RecordTypes, NodaTime

CONSTANTS
    convention,     \* MongoClientSettings::get_discriminator_convention
    TypeNames,      \* the names of types the client uses
    ElementNames,   \* the names of elements it uses
    ClientValues,   \* the values it writes
    MaxCalls        \* bound: the calls the client makes

Bson == INSTANCE BsonWriter
Json == INSTANCE JsonWriter

\* Both writers have a form of every value the client writes.
ASSUME ClientAssumption ==
    /\ MaxCalls \in Nat
    /\ TypeNames \subseteq Class
    /\ NoKey \notin ElementNames
    /\ \A value \in ClientValues : value[1] \in Bson!BsonWritable \cap Json!JsonWritable

VARIABLES
    bson,   \* the BsonWriterImpl
    json,   \* the JsonWriterImpl
    made    \* how many calls the client has made

clientVars == <<bson, json, made>>

\* The calls of TreeWriterBase.
Calls ==
    ({"start_document", "end_document", "start_dict", "end_dict"} \X TypeNames)
        \cup ({"start_element", "end_element"} \X ElementNames)
        \cup ({"write_value"} \X ClientValues)
        \cup {<<"start_array">>, <<"end_array">>, <<"start_array_item">>, <<"end_array_item">>,
              <<"start_value">>, <<"end_value">>}

ClientInit == bson = Bson!NewBsonWriter /\ json = Json!NewJsonWriter /\ made = 0

\* A client stops at an exception.
MakeCall(c) ==
    /\ made < MaxCalls
    /\ ~bson.exception
    /\ bson' = Bson!Call(bson, c)
    /\ json' = Json!Call(json, c)
    /\ made' = made + 1

ClientNext == \E c \in Calls : MakeCall(c)
ClientSpec == ClientInit /\ [][ClientNext]_clientVars

------------------------------------------------------------------------------
\* The JSON writer follows the BSON writer: it never throws where the BSON writer
\* accepts, and both are in the same state of the protocol with the same elements
\* open, though one checks the tree at each call and the other does not.
JsonFollowsBson ==
    ~bson.exception => ~json.exception /\ json.state = bson.state /\ json.stack = bson.stack

\* What a state inside an element, or inside the root for the first level, has open.
Containers(state) ==
    CASE state \in {"document_started", "dict_started"} -> <<"document">>
      [] state = "dict_array_item_started" -> <<"array", "document">>
      [] state \in {"array_started", "array_item_started", "array_item_completed",
                    "dict_array_item_completed", "value_array_item_started",
                    "value_array_item_written", "value_array_item_completed"} -> <<"array">>
      [] OTHER -> <<>>

\* The documents and arrays that are open in the BSON builder are those that the
\* elements on the stack and the state stand for: the writer can not close one that
\* the client has not opened nor leave one open, though state and builder are
\* changed by different code and the state of an element is restored from the stack.
Nested ==
    ~bson.exception =>
        LET states == [k \in 1 .. Len(bson.stack) |->
                          IF k = Len(bson.stack) THEN bson.state ELSE bson.stack[k + 1].state]
            kinds == [k \in 1 .. Len(bson.builder.frames) |-> bson.builder.frames[k].kind]
        IN  kinds = <<"array">> \o FlattenSeq([k \in DOMAIN states |-> Containers(states[k])])

\* Both writers build the same tree.  The JSON builder may have given up on one, in
\* calls that the states allow: an element before the root dictionary, or a document
\* after the first.  The root's _t differs, and BSON opens the root document early.
\* What is open in the BSON tree is what the protocol has open (Nested).
Unlabelled(b) ==
    [k \in DOMAIN b.frames |->
        LET items == b.frames[k].items
        IN  [b.frames[k] EXCEPT !.items =
                CASE k = 1 -> [i \in DOMAIN items |-> Tail(items[i][2])]
                  [] k = 2 -> Tail(items)
                  [] OTHER -> items]]
SameTree ==
    /\ Nested
    /\ ~bson.exception /\ ~json.malformed =>
          Unlabelled(json.builder) =
              IF bson.state = "document_started" THEN Front(Unlabelled(bson.builder))
                                                 ELSE Unlabelled(bson.builder)
=============================================================================
