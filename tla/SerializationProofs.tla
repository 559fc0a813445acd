------------------------- MODULE SerializationProofs -------------------------
(* What is written and what it is written from.  For any values and any       *)
(* number of calls, the JSON writer follows the BSON writer through the       *)
(* protocol (TreeWriterClient).  For any dates, periods and amounts, the      *)
(* three classes of calendar values stay together (CalendarWalk).             *)
EXTENDS TreeWriterClient, CalendarWalk, TLAPS

\* The two writers are records, and agree on the protocol.
BsonShape(b) ==
    DOMAIN b = {"state", "stack", "builder", "exception"} /\ b.exception \in BOOLEAN
JsonShape(j) ==
    DOMAIN j = {"state", "stack", "builder", "malformed", "exception"} /\ j.exception \in BOOLEAN
Agree(b, j) == ~b.exception => ~j.exception /\ j.state = b.state /\ j.stack = b.stack
Follows(b, j) == BsonShape(b) /\ JsonShape(j) /\ Agree(b, j)

------------------------------------------------------------------------------
(* What the steps of the methods do to two writers that agree.                *)

\* An exception of the BSON writer leaves nothing to agree on.
LEMMA BsonThrows ==
    ASSUME NEW b, NEW j, Follows(b, j)
    PROVE  Follows(Throw(b), j) /\ Follows(Throw(b), Throw(j))
BY SMT DEF Follows, BsonShape, JsonShape, Agree, Throw

\* The transition matrix is the same function of the state.
LEMMA BothMove ==
    ASSUME NEW b, NEW j, NEW moves, Follows(b, j)
    PROVE  Follows(Move(b, moves), Move(j, moves))
<1>1. CASE b.exception
  <2>1. Move(b, moves) = b
    BY <1>1 DEF Move
  <2>2. JsonShape(Move(j, moves))
    <3>1. JsonShape(j) /\ JsonShape(Throw(j)) /\ JsonShape([j EXCEPT !.state = moves[j.state]])
      BY SMT DEF Follows, JsonShape, Throw
    <3> QED BY <3>1 DEF Move
  <2> QED BY <1>1, <2>1, <2>2 DEF Follows, Agree
<1>2. CASE ~b.exception /\ b.state \notin DOMAIN moves
  <2>1. Move(b, moves) = Throw(b)
    BY <1>2 DEF Move
  <2>2. Move(j, moves) = Throw(j)
    BY <1>2 DEF Move, Follows, Agree
  <2> QED BY <2>1, <2>2, BsonThrows
<1>3. CASE ~b.exception /\ b.state \in DOMAIN moves
  <2>1. Move(b, moves) = [b EXCEPT !.state = moves[b.state]]
    BY <1>3 DEF Move
  <2>2. Move(j, moves) = [j EXCEPT !.state = moves[b.state]]
    BY <1>3 DEF Move, Follows, Agree
  <2> QED BY <1>3, <2>1, <2>2, SMT DEF Follows, BsonShape, JsonShape, Agree
<1> QED BY <1>1, <1>2, <1>3

\* Whatever is written to a builder, the protocol does not see it.
LEMMA BsonWrites ==
    ASSUME NEW b, NEW j, NEW builder, Follows(b, j)
    PROVE  Follows(Bson!Write(b, builder), j)
<1>1. CASE Bson!Write(b, builder) = b
    BY <1>1
<1>2. CASE Bson!Write(b, builder) = Throw(b)
    BY <1>2, BsonThrows
<1>3. CASE Bson!Write(b, builder) = [b EXCEPT !.builder = builder]
    BY <1>3, SMT DEF Follows, BsonShape, JsonShape, Agree
<1> QED BY <1>1, <1>2, <1>3 DEF Bson!Write, Bson!Throw, Throw

LEMMA JsonWrites ==
    ASSUME NEW b, NEW j, NEW builder, Follows(b, j)
    PROVE  Follows(b, Json!Write(j, builder))
BY SMT DEF Follows, BsonShape, JsonShape, Agree, Json!Write

LEMMA BothPush ==
    ASSUME NEW b, NEW j, NEW name, Follows(b, j)
    PROVE  Follows(Bson!Push(b, name), Json!Push(j, name))
BY SMT DEF Follows, BsonShape, JsonShape, Agree, Bson!Push, Json!Push

LEMMA BothPop ==
    ASSUME NEW b, NEW j, NEW name, Follows(b, j), ~b.exception
    PROVE  Follows(Bson!Pop(b, name), Json!Pop(j, name))
<1>1. /\ Json!Last(j.stack) = Last(b.stack) /\ Bson!Last(b.stack) = Last(b.stack)
      /\ Json!Front(j.stack) = Bson!Front(b.stack)
    BY DEF Follows, Agree, Last, Bson!Last, Json!Last, Bson!Front, Json!Front
<1>2. Follows(Bson!Restored(b), Json!Restored(j))
    BY <1>1, SMT DEF Follows, BsonShape, JsonShape, Agree, Bson!Restored, Json!Restored
<1>3. CASE name = Last(b.stack).name
  <2>1. Bson!Pop(b, name) = Bson!Restored(b) /\ Json!Pop(j, name) = Json!Restored(j)
    BY <1>1, <1>3 DEF Bson!Pop, Json!Pop
  <2> QED BY <1>2, <2>1
<1>4. CASE name # Last(b.stack).name
  <2>1. Bson!Pop(b, name) = Throw(Bson!Restored(b)) /\ Json!Pop(j, name) = Throw(Json!Restored(j))
    BY <1>1, <1>4 DEF Bson!Pop, Json!Pop, Bson!Throw, Json!Throw, Throw
  <2> QED BY <1>2, <2>1, BsonThrows
<1> QED BY <1>3, <1>4

\* Each writer moves by the same transition matrix.
LEMMA WritersMove ==
    ASSUME NEW b, NEW j, Follows(b, j)
    PROVE  /\ Follows(Bson!Move(b, Bson!StartElementMoves), Json!Move(j, Json!StartElementMoves))
           /\ Follows(Bson!Move(b, Bson!EndElementMoves), Json!Move(j, Json!EndElementMoves))
           /\ Follows(Bson!Move(b, Bson!StartDictMoves), Json!Move(j, Json!StartDictMoves))
           /\ Follows(Bson!Move(b, Bson!EndDictMoves), Json!Move(j, Json!EndDictMoves))
           /\ Follows(Bson!Move(b, Bson!StartArrayMoves), Json!Move(j, Json!StartArrayMoves))
           /\ Follows(Bson!Move(b, Bson!EndArrayMoves), Json!Move(j, Json!EndArrayMoves))
           /\ Follows(Bson!Move(b, Bson!StartArrayItemMoves), Json!Move(j, Json!StartArrayItemMoves))
           /\ Follows(Bson!Move(b, Bson!EndArrayItemMoves), Json!Move(j, Json!EndArrayItemMoves))
           /\ Follows(Bson!Move(b, Bson!StartValueMoves), Json!Move(j, Json!StartValueMoves))
           /\ Follows(Bson!Move(b, Bson!WriteValueMoves), Json!Move(j, Json!WriteValueMoves))
           /\ Follows(Bson!Move(b, Bson!EndValueMoves), Json!Move(j, Json!EndValueMoves))
<1>1. \A moves : Bson!Move(b, moves) = Move(b, moves) /\ Json!Move(j, moves) = Move(j, moves)
    BY DEF Bson!Move, Json!Move, Move, Bson!Throw, Json!Throw, Throw
<1>2. \A moves : Follows(Bson!Move(b, moves), Json!Move(j, moves))
    BY <1>1, BothMove
<1>3. /\ Bson!StartElementMoves = Json!StartElementMoves /\ Bson!EndElementMoves = Json!EndElementMoves
      /\ Bson!StartDictMoves = Json!StartDictMoves /\ Bson!EndDictMoves = Json!EndDictMoves
      /\ Bson!StartArrayMoves = Json!StartArrayMoves /\ Bson!EndArrayMoves = Json!EndArrayMoves
      /\ Bson!StartArrayItemMoves = Json!StartArrayItemMoves
      /\ Bson!EndArrayItemMoves = Json!EndArrayItemMoves
      /\ Bson!StartValueMoves = Json!StartValueMoves /\ Bson!WriteValueMoves = Json!WriteValueMoves
      /\ Bson!EndValueMoves = Json!EndValueMoves
    BY DEF Bson!StartElementMoves, Json!StartElementMoves, Bson!EndElementMoves, Json!EndElementMoves,
           Bson!StartDictMoves, Json!StartDictMoves, Bson!EndDictMoves, Json!EndDictMoves,
           Bson!StartArrayMoves, Json!StartArrayMoves, Bson!EndArrayMoves, Json!EndArrayMoves,
           Bson!StartArrayItemMoves, Json!StartArrayItemMoves, Bson!EndArrayItemMoves,
           Json!EndArrayItemMoves, Bson!StartValueMoves, Json!StartValueMoves, Bson!WriteValueMoves,
           Json!WriteValueMoves, Bson!EndValueMoves, Json!EndValueMoves
<1> QED BY <1>2, <1>3

\* The calls of the builders.
LEMMA WritersBuild ==
    ASSUME NEW b, NEW j, NEW x, NEW y, Follows(b, j)
    PROVE  /\ Follows(Bson!Key(b, x), j) /\ Follows(b, Json!Key(j, y))
           /\ Follows(Bson!Value(b, x), j) /\ Follows(b, Json!Value(j, y))
           /\ Follows(Bson!Open(b, x), j) /\ Follows(b, Json!Open(j, y))
           /\ Follows(Bson!Close(b, x), j) /\ Follows(b, Json!Close(j, y))
BY BsonWrites, JsonWrites
   DEF Bson!Key, Bson!Value, Bson!Open, Bson!Close, Json!Key, Json!Value, Json!Open, Json!Close

------------------------------------------------------------------------------
(* Each method leaves two writers that agree in agreement.                    *)

LEMMA StartDocument ==
    ASSUME NEW b, NEW j, NEW name, Follows(b, j), ~b.exception
    PROVE  Follows(Bson!write_start_document(b, name), Json!write_start_document(j, name))
<1> DEFINE pb == Bson!Push(b, name)
           pj == Json!Push(j, name)
           sb == [pb EXCEPT !.state = "document_started"]
           sj == [pj EXCEPT !.state = "document_started"]
<1>1. Follows(pb, pj)
    BY BothPush
<1>2. Follows(sb, sj)
    BY <1>1, SMT DEF Follows, BsonShape, JsonShape, Agree
<1>3. pb.stack = pj.stack /\ b.state = j.state
    <2>1. b.stack = j.stack /\ b.state = j.state
      BY DEF Follows, Agree
    <2> QED BY <2>1, SMT DEF Follows, BsonShape, JsonShape, Bson!Push, Json!Push
<1>4. CASE b.state = "empty" /\ Len(pb.stack) = 1
  <2> DEFINE started == Bson!Key(Bson!Open(sb, "document"), "_t")
  <2>1. Bson!write_start_document(b, name) = Bson!Value(started, Bson!Discriminator(name))
    BY <1>4 DEF Bson!write_start_document
  <2>2. Json!write_start_document(j, name) = sj
    BY <1>3, <1>4 DEF Json!write_start_document
  <2>3. Follows(started, sj)
    BY <1>2, WritersBuild
  <2> HIDE DEF started, sj
  <2> QED BY <2>1, <2>2, <2>3, WritersBuild
<1>5. CASE ~(b.state = "empty" /\ Len(pb.stack) = 1)
  <2>1. Bson!write_start_document(b, name) = Throw(pb)
    BY <1>5 DEF Bson!write_start_document, Bson!Throw, Throw
  <2>2. Json!write_start_document(j, name) = Throw(pj)
    BY <1>3, <1>5 DEF Json!write_start_document, Json!Throw, Throw
  <2> QED BY <1>1, <2>1, <2>2, BsonThrows
<1> QED BY <1>4, <1>5

LEMMA EndDocument ==
    ASSUME NEW b, NEW j, NEW name, Follows(b, j), ~b.exception
    PROVE  Follows(Bson!write_end_document(b, name), Json!write_end_document(j, name))
<1> DEFINE cb == [b EXCEPT !.state = "document_completed"]
           cj == [j EXCEPT !.state = "document_completed"]
           completes == b.state = "dict_completed" /\ Len(b.stack) = 1
<1>1. Follows(cb, cj) /\ ~cb.exception
    BY SMT DEF Follows, BsonShape, JsonShape, Agree
<1>2. Bson!write_end_document(b, name) = IF completes THEN Bson!Pop(cb, name) ELSE Throw(b)
    BY DEF Bson!write_end_document, Bson!Throw, Throw
<1>3. Json!write_end_document(j, name) = IF completes THEN Json!Pop(cj, name) ELSE Throw(j)
    BY DEF Json!write_end_document, Json!Throw, Throw, Follows, Agree
<1> HIDE DEF cb, cj, completes
<1> QED BY <1>1, <1>2, <1>3, BothPop, BsonThrows

LEMMA StartElement ==
    ASSUME NEW b, NEW j, NEW name, Follows(b, j)
    PROVE  Follows(Bson!write_start_element(b, name), Json!write_start_element(j, name))
<1> DEFINE mb == Bson!Move(Bson!Push(b, name), Bson!StartElementMoves)
           mj == Json!Move(Json!Push(j, name), Json!StartElementMoves)
<1>1. Follows(mb, mj)
    BY BothPush, WritersMove
<1> HIDE DEF mb, mj
<1>2. Follows(Bson!Key(mb, name), Json!Key(mj, name))
    BY <1>1, WritersBuild
<1> QED BY <1>2 DEF Bson!write_start_element, Json!write_start_element, mb, mj

LEMMA EndElement ==
    ASSUME NEW b, NEW j, NEW name, Follows(b, j)
    PROVE  Follows(Bson!write_end_element(b, name), Json!write_end_element(j, name))
<1> DEFINE mb == Bson!Move(b, Bson!EndElementMoves)
           mj == Json!Move(j, Json!EndElementMoves)
<1>1. Follows(mb, mj)
    BY WritersMove
<1>2. Bson!write_end_element(b, name) = IF mb.exception THEN mb ELSE Bson!Pop(mb, name)
    BY DEF Bson!write_end_element
<1>3. Json!write_end_element(j, name) = IF mj.exception THEN mj ELSE Json!Pop(mj, name)
    BY DEF Json!write_end_element
<1> HIDE DEF mb, mj
<1>4. CASE ~mb.exception
  <2>1. ~mj.exception
    BY <1>1, <1>4 DEF Follows, Agree
  <2> QED BY <1>1, <1>2, <1>3, <1>4, <2>1, BothPop
<1>5. CASE mb.exception
  <2>1. JsonShape(mj) /\ JsonShape(Json!Pop(mj, name))
    <3>1. JsonShape(mj)
      BY <1>1 DEF Follows
    <3>2. JsonShape(Json!Restored(mj))
      BY <3>1, SMT DEF JsonShape, Json!Restored
    <3>3. JsonShape(Json!Throw(Json!Restored(mj)))
      BY <3>2, SMT DEF JsonShape, Json!Throw
    <3> QED BY <3>1, <3>2, <3>3 DEF Json!Pop
  <2>2. BsonShape(mb)
    BY <1>1 DEF Follows
  <2> QED BY <1>2, <1>3, <1>5, <2>1, <2>2 DEF Follows, Agree
<1> QED BY <1>4, <1>5

\* BSON opened the root dictionary with the document.
LEMMA StartDict ==
    ASSUME NEW b, NEW j, NEW name, Follows(b, j)
    PROVE  Follows(Bson!write_start_dict(b, name), Json!write_start_dict(j, name))
<1> DEFINE mb == Bson!Move(b, Bson!StartDictMoves)
           mj == Json!Move(j, Json!StartDictMoves)
           kb == Bson!Key(Bson!Open(mb, "document"), "_t")
           kj == Json!Key(Json!Open(mj, "document"), "_t")
           type == <<"string", <<name>>>>
<1>1. Follows(mb, mj)
    BY WritersMove
<1>2. Bson!write_start_dict(b, name) \in {mb, Bson!Value(kb, type)}
    BY DEF Bson!write_start_dict
<1>3. Json!write_start_dict(j, name) = Json!Value(kj, type)
    BY DEF Json!write_start_dict
<1> HIDE DEF mb, mj, type
<1>4. Follows(mb, kj) /\ Follows(kb, kj)
  <2>1. Follows(Bson!Open(mb, "document"), mj)
    BY <1>1, WritersBuild
  <2>2. Follows(kb, mj)
    BY <2>1, WritersBuild
  <2>3. Follows(mb, Json!Open(mj, "document")) /\ Follows(kb, Json!Open(mj, "document"))
    BY <1>1, <2>2, WritersBuild
  <2> QED BY <2>3, WritersBuild
<1> HIDE DEF kb, kj
<1>5. Follows(mb, Json!Value(kj, type)) /\ Follows(Bson!Value(kb, type), kj)
    BY <1>4, WritersBuild
<1>6. Follows(Bson!Value(kb, type), Json!Value(kj, type))
    BY <1>5, WritersBuild
<1> QED BY <1>2, <1>3, <1>5, <1>6

LEMMA EndDict ==
    ASSUME NEW b, NEW j, NEW name, Follows(b, j)
    PROVE  Follows(Bson!write_end_dict(b, name), Json!write_end_dict(j, name))
<1> DEFINE mb == Bson!Move(b, Bson!EndDictMoves)
           mj == Json!Move(j, Json!EndDictMoves)
<1>1. Follows(mb, mj)
    BY WritersMove
<1> HIDE DEF mb, mj
<1>2. Follows(Bson!Close(mb, "document"), Json!Close(mj, "document"))
    BY <1>1, WritersBuild
<1> QED BY <1>2 DEF Bson!write_end_dict, Json!write_end_dict, mb, mj

LEMMA StartArray ==
    ASSUME NEW b, NEW j, Follows(b, j)
    PROVE  Follows(Bson!write_start_array(b), Json!write_start_array(j))
<1> DEFINE mb == Bson!Move(b, Bson!StartArrayMoves)
           mj == Json!Move(j, Json!StartArrayMoves)
<1>1. Follows(mb, mj)
    BY WritersMove
<1> HIDE DEF mb, mj
<1>2. Follows(Bson!Open(mb, "array"), Json!Open(mj, "array"))
    BY <1>1, WritersBuild
<1> QED BY <1>2 DEF Bson!write_start_array, Json!write_start_array, mb, mj

LEMMA EndArray ==
    ASSUME NEW b, NEW j, Follows(b, j)
    PROVE  Follows(Bson!write_end_array(b), Json!write_end_array(j))
<1> DEFINE mb == Bson!Move(b, Bson!EndArrayMoves)
           mj == Json!Move(j, Json!EndArrayMoves)
<1>1. Follows(mb, mj)
    BY WritersMove
<1> HIDE DEF mb, mj
<1>2. Follows(Bson!Close(mb, "array"), Json!Close(mj, "array"))
    BY <1>1, WritersBuild
<1> QED BY <1>2 DEF Bson!write_end_array, Json!write_end_array, mb, mj

\* Both writers have a form of the value.
LEMMA WriteValue ==
    ASSUME NEW b, NEW j, NEW value \in ClientValues, Follows(b, j)
    PROVE  Follows(Bson!write_value(b, value), Json!write_value(j, value))
<1> DEFINE mb == Bson!Move(b, Bson!WriteValueMoves)
           mj == Json!Move(j, Json!WriteValueMoves)
<1>1. Follows(mb, mj)
    BY WritersMove
<1>2. value[1] \in Bson!BsonWritable /\ value[1] \in Json!JsonWritable
    BY ClientAssumption DEF ClientAssumption
<1>3. Bson!write_value(b, value) = Bson!Value(mb, Bson!BsonValue(value))
    BY <1>2 DEF Bson!write_value
<1>4. Json!write_value(j, value) = Json!Value(mj, Json!JsonValue(value))
    BY <1>2 DEF Json!write_value
<1> HIDE DEF mb, mj
<1>5. Follows(Bson!Value(mb, Bson!BsonValue(value)), mj)
    BY <1>1, WritersBuild
<1>6. Follows(Bson!Value(mb, Bson!BsonValue(value)), Json!Value(mj, Json!JsonValue(value)))
    BY <1>5, WritersBuild
<1> QED BY <1>3, <1>4, <1>6

\* A call, whichever it is.
LEMMA AnyCall ==
    ASSUME NEW b, NEW j, NEW c \in Calls, Follows(b, j), ~b.exception
    PROVE  Follows(Bson!Call(b, c), Json!Call(j, c))
<1>0. ~j.exception
    BY DEF Follows, Agree
<1>1. CASE c \in {"start_document", "end_document", "start_dict", "end_dict"} \X TypeNames
  <2>1. PICK kind \in {"start_document", "end_document", "start_dict", "end_dict"}, name \in TypeNames :
            c = <<kind, name>>
    BY <1>1
  <2>2. CASE kind = "start_document"
    BY <1>0, <2>1, <2>2, StartDocument DEF Bson!Call, Json!Call
  <2>3. CASE kind = "end_document"
    BY <1>0, <2>1, <2>3, EndDocument DEF Bson!Call, Json!Call
  <2>4. CASE kind = "start_dict"
    BY <1>0, <2>1, <2>4, StartDict DEF Bson!Call, Json!Call
  <2>5. CASE kind = "end_dict"
    BY <1>0, <2>1, <2>5, EndDict DEF Bson!Call, Json!Call
  <2> QED BY <2>1, <2>2, <2>3, <2>4, <2>5
<1>2. CASE c \in {"start_element", "end_element"} \X ElementNames
  <2>1. PICK kind \in {"start_element", "end_element"}, name \in ElementNames : c = <<kind, name>>
    BY <1>2
  <2>2. CASE kind = "start_element"
    BY <1>0, <2>1, <2>2, StartElement DEF Bson!Call, Json!Call
  <2>3. CASE kind = "end_element"
    BY <1>0, <2>1, <2>3, EndElement DEF Bson!Call, Json!Call
  <2> QED BY <2>1, <2>2, <2>3
<1>3. CASE c \in {"write_value"} \X ClientValues
  <2>1. PICK value \in ClientValues : c = <<"write_value", value>>
    BY <1>3
  <2> QED BY <1>0, <2>1, WriteValue DEF Bson!Call, Json!Call
<1>4. CASE c \in {<<"start_array">>, <<"end_array">>}
    BY <1>0, <1>4, StartArray, EndArray DEF Bson!Call, Json!Call
<1>5. CASE c \in {<<"start_array_item">>, <<"end_array_item">>, <<"start_value">>, <<"end_value">>}
  <2>1. /\ Follows(Bson!write_start_array_item(b), Json!write_start_array_item(j))
        /\ Follows(Bson!write_end_array_item(b), Json!write_end_array_item(j))
        /\ Follows(Bson!write_start_value(b), Json!write_start_value(j))
        /\ Follows(Bson!write_end_value(b), Json!write_end_value(j))
    BY WritersMove DEF Bson!write_start_array_item, Json!write_start_array_item,
       Bson!write_end_array_item, Json!write_end_array_item, Bson!write_start_value,
       Json!write_start_value, Bson!write_end_value, Json!write_end_value
  <2> QED BY <1>0, <1>5, <2>1 DEF Bson!Call, Json!Call
<1> QED BY <1>1, <1>2, <1>3, <1>4, <1>5 DEF Calls

------------------------------------------------------------------------------
\* The BSON writer is the stricter of the two: as long as it accepts the client's calls
\* (bson_writer.cpp), the JSON writer (json_writer.cpp) accepts them, is in the same
\* state of the transition matrix and has the same elements open.
THEOREM FollowsBson == ClientSpec => []JsonFollowsBson
<1>1. ClientInit => Follows(bson, json)
    BY DEF ClientInit, Follows, BsonShape, JsonShape, Agree, Bson!NewBsonWriter, Json!NewJsonWriter
<1>2. Follows(bson, json) /\ [ClientNext]_clientVars => Follows(bson, json)'
  <2> SUFFICES ASSUME Follows(bson, json), [ClientNext]_clientVars
               PROVE  Follows(bson', json')
    BY DEF Follows, BsonShape, JsonShape, Agree
  <2>1. ASSUME NEW c \in Calls, MakeCall(c)
        PROVE  Follows(bson', json')
    BY <2>1, AnyCall DEF MakeCall
  <2>2. CASE UNCHANGED clientVars
    BY <2>2 DEF clientVars
  <2> QED BY <2>1, <2>2 DEF ClientNext
<1>3. Follows(bson, json) => JsonFollowsBson
    BY DEF Follows, Agree, JsonFollowsBson
<1> QED BY <1>1, <1>2, <1>3, PTL DEF ClientSpec

-----------------------------------------------------------------------------
(* Calendar values: days and milliseconds.                                   *)

Total(x) == x.day * DayMs + x.ms

\* A day is some milliseconds, and so is an hour.
LEMMA DayLength ==
    /\ DayMs \in Int /\ DayMs > 0 /\ HourMs \in Int /\ HourMs > 0 /\ MinuteMs \in Int
    /\ 0 \div HourMs = 0 /\ 0 % HourMs = 0
BY SMT DEF DayMs, HourMs, MinuteMs

\* A carry changes the parts of a moment, not the moment.
LEMMA CarryKeeps ==
    ASSUME NEW d \in Int, NEW ms \in Int
    PROVE  Moment(d, ms) \in Durations /\ Total(Moment(d, ms)) = d * DayMs + ms
<1>1. ms = DayMs * (ms \div DayMs) + (ms % DayMs) /\ ms \div DayMs \in Int /\ ms % DayMs \in 0 .. DayMs - 1
  BY SMT, DayLength
<1>2. Moment(d, ms) \in Durations
  BY SMT, <1>1 DEF Moment, Durations
<1>3. Total(Moment(d, ms)) = (d + (ms \div DayMs)) * DayMs + (ms % DayMs)
  BY DEF Total, Moment
<1>4. (d + (ms \div DayMs)) * DayMs + (ms % DayMs) = d * DayMs + ms
  BY SMT, <1>1, DayLength
<1> QED
  BY <1>2, <1>3, <1>4

\* A number of whole days and a rest of a day have one quotient.
LEMMA OneQuotient ==
    ASSUME NEW D \in Int, D > 0, NEW a \in Int, NEW b \in Int,
           NEW p \in 0 .. D - 1, NEW q \in 0 .. D - 1, a * D + p = b * D + q
    PROVE  a = b
BY SMT

\* Days and milliseconds are told by their number of milliseconds.
LEMMA TotalTells ==
    ASSUME NEW x \in Durations, NEW y \in Durations, Total(x) = Total(y)
    PROVE  x = y
<1>1. x.day \in Int /\ y.day \in Int /\ x.ms \in 0 .. DayMs - 1 /\ y.ms \in 0 .. DayMs - 1
  BY DEF Durations
<1>2. x.day * DayMs + x.ms = y.day * DayMs + y.ms
  BY DEF Total
<1>3. x.day = y.day
  BY <1>1, <1>2, DayLength, OneQuotient
<1>4. x.ms = y.ms
  BY SMT, <1>1, <1>2, <1>3, DayLength
<1> QED
  BY <1>3, <1>4 DEF Durations

\* The parts of a moment or a period are numbers.
LEMMA TotalType ==
    ASSUME NEW x \in Durations
    PROVE  /\ x.day \in Int /\ x.ms \in 0 .. DayMs - 1 /\ x.ms \in Int /\ Total(x) \in Int
           /\ Total(x) = x.day * DayMs + x.ms
<1>1. x.day \in Int /\ x.ms \in 0 .. DayMs - 1 /\ x.ms \in Int
  BY SMT, DayLength DEF Durations
<1>2. x.day * DayMs + x.ms \in Int
  BY SMT, <1>1, DayLength
<1> QED
  BY <1>1, <1>2 DEF Total

\* Sums and differences.
LEMMA Sums ==
    ASSUME NEW x \in Durations, NEW y \in Durations
    PROVE  /\ Moment(x.day + y.day, x.ms + y.ms) \in Durations
           /\ Total(Moment(x.day + y.day, x.ms + y.ms)) = Total(x) + Total(y)
           /\ Moment(x.day - y.day, x.ms - y.ms) \in Durations
           /\ Total(Moment(x.day - y.day, x.ms - y.ms)) = Total(x) - Total(y)
<1>1. /\ x.day \in Int /\ x.ms \in Int /\ Total(x) = x.day * DayMs + x.ms
      /\ y.day \in Int /\ y.ms \in Int /\ Total(y) = y.day * DayMs + y.ms
  BY TotalType
<1>2. /\ (x.day + y.day) * DayMs + (x.ms + y.ms) = Total(x) + Total(y)
      /\ (x.day - y.day) * DayMs + (x.ms - y.ms) = Total(x) - Total(y)
  BY SMT, <1>1, DayLength
<1> QED
  BY <1>1, <1>2, CarryKeeps

\* Whole days have no milliseconds.
LEMMA WholeDays ==
    ASSUME NEW d \in Int
    PROVE  from_days(d) \in Durations /\ from_days(d).day = d /\ from_days(d).ms = 0
<1>1. 0 \div DayMs = 0 /\ 0 % DayMs = 0
  BY SMT DEF DayMs
<1>2. 0 \in 0 .. DayMs - 1
  BY SMT, DayLength
<1> QED
  BY SMT, <1>1, <1>2 DEF from_days, Duration, Moment, Durations

\* plus_hours and the like add periods, plus_days and plus_weeks whole days.
LEMMA UnitTypes ==
    ASSUME NEW n \in Int
    PROVE  /\ \A unit \in TimeUnits \cup {"days", "weeks"} : from_units(unit, n) \in Durations
           /\ from_units("days", n) = from_days(n) /\ from_units("weeks", n) = from_days(7 * n)
<1>1. from_units("days", n) = from_days(n) /\ from_units("weeks", n) = from_days(7 * n)
  BY SMT DEF from_units, from_weeks, from_days
<1>2. ASSUME NEW unit \in TimeUnits
      PROVE  from_units(unit, n) \in Durations
  <2>1. n * HourMs \in Int /\ n * MinuteMs \in Int /\ n * 1000 \in Int
    BY SMT, DayLength
  <2>2. PICK ms \in Int : from_units(unit, n) = Moment(0, ms)
    BY SMT, <2>1 DEF from_units, from_hours, from_minutes, from_seconds, from_milliseconds, Duration, TimeUnits
  <2> QED
    BY <2>2, CarryKeeps
<1>3. from_days(n) \in Durations /\ from_days(7 * n) \in Durations
  BY WholeDays
<1> QED
  BY <1>1, <1>2, <1>3

\* The days of a period of whole days.
LEMMA DaysOfPeriod ==
    ASSUME NEW p \in Durations, p.ms = 0
    PROVE  DateDuration(p) = p.day
<1>1. p.day \in Int
  BY SMT DEF Durations
<1>2. TotalHours(p) = 24 * p.day
  BY SMT, <1>1, DayLength DEF TotalHours
<1>3. Quotient(24 * p.day, 24) = p.day
  BY SMT, <1>1 DEF Quotient
<1> QED
  BY SMT, <1>2, <1>3 DEF DateDuration

\* The days of any period.
LEMMA DateDurationType ==
    ASSUME NEW p \in Durations
    PROVE  DateDuration(p) \in Int
<1>1. p.day \in Int /\ p.ms \in Int
  BY TotalType
<1>2. TotalHours(p) \in Int
  BY SMT, <1>1, DayLength DEF TotalHours
<1> HIDE DEF TotalHours
<1>3. \A k \in Int : Quotient(k, 24) \in Int
  BY SMT DEF Quotient
<1> QED
  BY SMT, <1>2, <1>3 DEF DateDuration

\* A day has a year, a month and a day of the month.
LEMMA CivilType ==
    ASSUME NEW n \in Int
    PROVE  Year(n) \in Int /\ Month(n) \in Int /\ Day(n) \in Int
<1> DEFINE a == n + 2440588 + 32044
           b == (4 * a + 3) \div 146097
           c == a - ((146097 * b) \div 4)
           d == (4 * c + 3) \div 1461
           e == c - ((1461 * d) \div 4)
           m == (5 * e + 2) \div 153
<1>1. a \in Int
  BY SMT
<1> HIDE DEF a
<1>2. b \in Int
  BY SMT, <1>1
<1> HIDE DEF b
<1>3. c \in Int
  BY SMT, <1>1, <1>2
<1> HIDE DEF c
<1>4. d \in Int
  BY SMT, <1>3
<1> HIDE DEF d
<1>5. e \in Int
  BY SMT, <1>3, <1>4
<1> HIDE DEF e
<1>6. m \in Int
  BY SMT, <1>5
<1> HIDE DEF m
<1>7. /\ 100 * b + d - 4800 + (m \div 10) \in Int /\ m + 3 - 12 * (m \div 10) \in Int
      /\ e - ((153 * m + 2) \div 5) + 1 \in Int
  BY SMT, <1>2, <1>4, <1>5, <1>6
<1>8. CivilDate(n) =
        [year |-> 100 * b + d - 4800 + (m \div 10), month |-> m + 3 - 12 * (m \div 10),
         day |-> e - ((153 * m + 2) \div 5) + 1]
  BY SMT DEF CivilDate, a, b, c, d, e, m
<1> QED
  BY SMT, <1>7, <1>8 DEF Year, Month, Day

\* A year, a month and a day have a number.
LEMMA DayNumberType ==
    ASSUME NEW y \in Int, NEW m \in Int, NEW d \in Int
    PROVE  DayNumber(y, m, d) \in Int
<1>1. \A z \in Int : DaysBeforeYear(z) \in Int
  BY SMT DEF DaysBeforeYear
<1>2. DaysBeforeMonth(y, m) \in Int
  BY SMT DEF DaysBeforeMonth
<1> QED
  BY SMT, <1>1, <1>2 DEF DayNumber

\* Months and years later there is a day.
LEMMA AddMonthsType ==
    ASSUME NEW n \in Int, NEW k \in Int
    PROVE  AddMonths(n, k) \in Int
<1> DEFINE months == 12 * Year(n) + Month(n) - 1 + k
           y == months \div 12
           m == (months % 12) + 1
           last == DaysInMonth(y, m)
           at_end == Day(n) = DaysInMonth(Year(n), Month(n))
           day == IF at_end \/ Day(n) > last THEN last ELSE Day(n)
<1>1. Year(n) \in Int /\ Month(n) \in Int /\ Day(n) \in Int
  BY CivilType
<1>2. months \in Int
  BY <1>1
<1> HIDE DEF months
<1>3. y \in Int /\ m \in Int
  BY <1>2
<1> HIDE DEF y, m
<1>4. last \in Int
  BY SMT DEF DaysInMonth
<1> HIDE DEF last, at_end
<1>5. day \in Int
  BY <1>1, <1>4
<1> HIDE DEF day
<1>6. DayNumber(y, m, day) \in Int
  BY <1>3, <1>5, DayNumberType
<1>7. AddMonths(n, k) = DayNumber(y, m, day)
  BY SMT DEF AddMonths, months, y, m, last, at_end, day
<1> QED
  BY <1>6, <1>7

\* The next and the previous weekday are days.
LEMMA WeekdayTypes ==
    ASSUME NEW n \in Int, NEW target \in 0 .. 6
    PROVE  next_weekday(n, target) \in Int /\ previous_weekday(n, target) \in Int
<1>1. day_of_week(n) \in Int
  BY SMT DEF day_of_week
<1> QED
  BY SMT, <1>1 DEF next_weekday, previous_weekday

-----------------------------------------------------------------------------
(* What a walk keeps.                                                        *)

CalendarTypes ==
    /\ date \in Int /\ time \in Durations /\ moment \in Durations /\ elapsed \in Durations
    /\ origin \in [date : Int, time : Durations, moment : Durations] /\ whole \in BOOLEAN
\* The three values and the elapsed period agree in milliseconds, and in whole days.
Together ==
    /\ Total(moment) - Total(origin.moment) = Total(elapsed)
    /\ Total(time) - Total(origin.time) = Total(elapsed)
    /\ time.ms = moment.ms
    /\ whole => date = moment.day /\ elapsed.ms = 0 /\ elapsed.day = date - origin.date
CalendarInv == CalendarTypes /\ Together

\* At first the three are one moment, and nothing has elapsed.
LEMMA CalendarInitially ==
    ASSUME CalendarInit
    PROVE  CalendarInv
<1>1. moment \in Durations /\ date = moment.day /\ time = Moment(0, moment.ms) /\ whole = TRUE
      /\ origin = [date |-> date, time |-> time, moment |-> moment] /\ elapsed = from_days(0)
  BY CalendarAssumption DEF CalendarInit, Epoch
<1>2. moment.day \in Int /\ moment.ms \in Int /\ moment.ms \in 0 .. DayMs - 1 /\ Total(moment) \in Int
  BY <1>1, TotalType
<1>3. time \in Durations /\ Total(time) \in Int
  <2>1. Moment(0, moment.ms) \in Durations
    BY <1>2, CarryKeeps, SMT
  <2> QED
    BY <1>1, <2>1, TotalType
<1>4. time.ms = moment.ms
  <2>1. moment.ms % DayMs = moment.ms
    BY SMT, <1>2, DayLength
  <2> QED
    BY <1>1, <2>1 DEF Moment
<1>5. elapsed \in Durations /\ elapsed.day = 0 /\ elapsed.ms = 0
  BY <1>1, WholeDays
<1>6. Total(elapsed) = 0
  BY SMT, <1>5, DayLength DEF Total
<1>7. CalendarTypes
  BY <1>1, <1>2, <1>3, <1>5 DEF CalendarTypes
<1>8. /\ origin.moment = moment /\ origin.time = time /\ origin.date = date
      /\ Total(moment) - Total(moment) = 0 /\ Total(time) - Total(time) = 0 /\ date - date = 0
  BY SMT, <1>1, <1>2, <1>3
<1> QED
  BY <1>1, <1>4, <1>5, <1>6, <1>7, <1>8 DEF CalendarInv, Together

\* The period p moves the three values, and d the date.
Moved(p, d) ==
    /\ p \in Durations /\ d \in Int
    /\ time' = Moment(time.day + p.day, time.ms + p.ms)
    /\ moment' = Moment(moment.day + p.day, moment.ms + p.ms)
    /\ elapsed' = Moment(elapsed.day + p.day, elapsed.ms + p.ms)
    /\ date' = date + d /\ whole' \in BOOLEAN
    /\ whole' => whole /\ p.ms = 0 /\ d = p.day
    /\ UNCHANGED origin
MovedBack(p, d) ==
    /\ p \in Durations /\ d \in Int
    /\ time' = Moment(time.day - p.day, time.ms - p.ms)
    /\ moment' = Moment(moment.day - p.day, moment.ms - p.ms)
    /\ elapsed' = Moment(elapsed.day - p.day, elapsed.ms - p.ms)
    /\ date' = date - d /\ whole' \in BOOLEAN
    /\ whole' => whole /\ p.ms = 0 /\ d = p.day
    /\ UNCHANGED origin

\* Whole days carry nothing.
LEMMA NoCarry ==
    ASSUME NEW d \in Int, NEW ms \in 0 .. DayMs - 1
    PROVE  Moment(d, ms).day = d /\ Moment(d, ms).ms = ms
<1>1. ms \div DayMs = 0 /\ ms % DayMs = ms
  BY SMT, DayLength
<1> QED
  BY SMT, <1>1 DEF Moment

\* The types of the variables, one by one.
LEMMA PartsAre ==
    ASSUME CalendarInv
    PROVE  /\ date \in Int /\ origin.date \in Int
           /\ time \in Durations /\ moment \in Durations /\ elapsed \in Durations
           /\ origin.time \in Durations /\ origin.moment \in Durations
           /\ \A x \in {time, moment, elapsed, origin.time, origin.moment} :
                 x.day \in Int /\ x.ms \in Int /\ x.ms \in 0 .. DayMs - 1 /\ Total(x) \in Int
<1>1. /\ date \in Int /\ origin.date \in Int
      /\ time \in Durations /\ moment \in Durations /\ elapsed \in Durations
      /\ origin.time \in Durations /\ origin.moment \in Durations
  BY DEF CalendarInv, CalendarTypes
<1> QED
  BY <1>1, TotalType

\* Values that are moved by one period stay together,
LEMMA MovedKeeps ==
    ASSUME CalendarInv, NEW p, NEW d, Moved(p, d)
    PROVE  CalendarInv'
<1>1. p \in Durations /\ p.day \in Int /\ p.ms \in Int /\ Total(p) \in Int /\ d \in Int
  BY TotalType DEF Moved
<1>2. /\ time' \in Durations /\ Total(time') = Total(time) + Total(p)
      /\ moment' \in Durations /\ Total(moment') = Total(moment) + Total(p)
      /\ elapsed' \in Durations /\ Total(elapsed') = Total(elapsed) + Total(p)
  BY <1>1, PartsAre, Sums DEF Moved
<1>3. CalendarTypes'
  <2>1. date' \in Int
    BY SMT, <1>1, PartsAre DEF Moved
  <2> QED
    BY <1>2, <2>1 DEF CalendarInv, CalendarTypes, Moved
<1>4. /\ Total(moment') - Total(origin.moment) = Total(elapsed')
      /\ Total(time') - Total(origin.time) = Total(elapsed')
  <2>1. /\ Total(moment) \in Int /\ Total(origin.moment) \in Int /\ Total(elapsed) \in Int
        /\ Total(time) \in Int /\ Total(origin.time) \in Int
    BY PartsAre
  <2>2. /\ Total(moment) - Total(origin.moment) = Total(elapsed)
        /\ Total(time) - Total(origin.time) = Total(elapsed)
    BY DEF CalendarInv, Together
  <2> QED
    BY SMT, <1>1, <1>2, <2>1, <2>2
<1>5. time'.ms = moment'.ms
  BY DEF Moved, Moment, CalendarInv, Together
<1>6. ASSUME whole'
      PROVE  date' = moment'.day /\ elapsed'.ms = 0 /\ elapsed'.day = date' - origin.date
  <2>1. p.ms = 0 /\ d = p.day /\ date = moment.day /\ elapsed.ms = 0 /\ elapsed.day = date - origin.date
    BY <1>6 DEF Moved, CalendarInv, Together
  <2>2. /\ moment.ms + p.ms \in 0 .. DayMs - 1 /\ elapsed.ms + p.ms \in 0 .. DayMs - 1
        /\ moment.day + p.day \in Int /\ elapsed.day + p.day \in Int /\ elapsed.ms + p.ms = 0
    BY SMT, <1>1, <2>1, PartsAre
  <2>3. moment'.day = moment.day + p.day /\ elapsed'.day = elapsed.day + p.day /\ elapsed'.ms = 0
    BY <2>2, NoCarry DEF Moved
  <2>4. date' = date + p.day
    BY <2>1 DEF Moved
  <2> QED
    BY SMT, <1>1, <2>1, <2>3, <2>4, PartsAre
<1> QED
  BY <1>3, <1>4, <1>5, <1>6 DEF CalendarInv, Together, Moved

\* and so do values that are moved back.
LEMMA MovedBackKeeps ==
    ASSUME CalendarInv, NEW p, NEW d, MovedBack(p, d)
    PROVE  CalendarInv'
<1>1. p \in Durations /\ p.day \in Int /\ p.ms \in Int /\ Total(p) \in Int /\ d \in Int
  BY TotalType DEF MovedBack
<1>2. /\ time' \in Durations /\ Total(time') = Total(time) - Total(p)
      /\ moment' \in Durations /\ Total(moment') = Total(moment) - Total(p)
      /\ elapsed' \in Durations /\ Total(elapsed') = Total(elapsed) - Total(p)
  BY <1>1, PartsAre, Sums DEF MovedBack
<1>3. CalendarTypes'
  <2>1. date' \in Int
    BY SMT, <1>1, PartsAre DEF MovedBack
  <2> QED
    BY <1>2, <2>1 DEF CalendarInv, CalendarTypes, MovedBack
<1>4. /\ Total(moment') - Total(origin.moment) = Total(elapsed')
      /\ Total(time') - Total(origin.time) = Total(elapsed')
  <2>1. /\ Total(moment) \in Int /\ Total(origin.moment) \in Int /\ Total(elapsed) \in Int
        /\ Total(time) \in Int /\ Total(origin.time) \in Int
    BY PartsAre
  <2>2. /\ Total(moment) - Total(origin.moment) = Total(elapsed)
        /\ Total(time) - Total(origin.time) = Total(elapsed)
    BY DEF CalendarInv, Together
  <2> QED
    BY SMT, <1>1, <1>2, <2>1, <2>2
<1>5. time'.ms = moment'.ms
  BY DEF MovedBack, Moment, CalendarInv, Together
<1>6. ASSUME whole'
      PROVE  date' = moment'.day /\ elapsed'.ms = 0 /\ elapsed'.day = date' - origin.date
  <2>1. p.ms = 0 /\ d = p.day /\ date = moment.day /\ elapsed.ms = 0 /\ elapsed.day = date - origin.date
    BY <1>6 DEF MovedBack, CalendarInv, Together
  <2>2. /\ moment.ms - p.ms \in 0 .. DayMs - 1 /\ elapsed.ms - p.ms \in 0 .. DayMs - 1
        /\ moment.day - p.day \in Int /\ elapsed.day - p.day \in Int /\ elapsed.ms - p.ms = 0
    BY SMT, <1>1, <2>1, PartsAre
  <2>3. moment'.day = moment.day - p.day /\ elapsed'.day = elapsed.day - p.day /\ elapsed'.ms = 0
    BY <2>2, NoCarry DEF MovedBack
  <2>4. date' = date - p.day
    BY <2>1 DEF MovedBack
  <2> QED
    BY SMT, <1>1, <2>1, <2>3, <2>4, PartsAre
<1> QED
  BY <1>3, <1>4, <1>5, <1>6 DEF CalendarInv, Together, MovedBack

\* plus of the three classes, with a period of whole days or not.
LEMMA AddPeriodKeeps ==
    ASSUME CalendarInv, AddPeriod
    PROVE  CalendarInv'
<1>1. PICK p \in Periods :
        /\ date' = DatePlus(date, p) /\ time' = TimePlus(time, p) /\ moment' = DateTimePlus(moment, p)
        /\ elapsed' = PeriodPlus(elapsed, p) /\ whole' = (whole /\ p.ms = 0) /\ UNCHANGED origin
  BY DEF AddPeriod
<1>2. p \in Durations /\ DateDuration(p) \in Int /\ (p.ms = 0 => DateDuration(p) = p.day)
  BY CalendarAssumption, DateDurationType, DaysOfPeriod
<1>3. whole \in BOOLEAN
  BY DEF CalendarInv, CalendarTypes
<1>4. Moved(p, DateDuration(p))
  BY <1>1, <1>2, <1>3 DEF Moved, DatePlus, TimePlus, DateTimePlus, PeriodPlus, Duration
<1> QED
  BY <1>4, MovedKeeps

\* minus of the three classes.
LEMMA SubtractPeriodKeeps ==
    ASSUME CalendarInv, SubtractPeriod
    PROVE  CalendarInv'
<1>1. PICK p \in Periods :
        /\ date' = DateMinus(date, p) /\ time' = TimeMinus(time, p) /\ moment' = DateTimeMinus(moment, p)
        /\ elapsed' = PeriodMinus(elapsed, p) /\ whole' = (whole /\ p.ms = 0) /\ UNCHANGED origin
  BY DEF SubtractPeriod
<1>2. p \in Durations /\ DateDuration(p) \in Int /\ (p.ms = 0 => DateDuration(p) = p.day)
  BY CalendarAssumption, DateDurationType, DaysOfPeriod
<1>3. whole \in BOOLEAN
  BY DEF CalendarInv, CalendarTypes
<1>4. MovedBack(p, DateDuration(p))
  BY <1>1, <1>2, <1>3 DEF MovedBack, DateMinus, TimeMinus, DateTimeMinus, PeriodMinus, Duration
<1> QED
  BY <1>4, MovedBackKeeps

\* plus_hours, plus_days and the like.
LEMMA AddUnitsKeeps ==
    ASSUME CalendarInv, AddUnits
    PROVE  CalendarInv'
<1>1. PICK n \in Amounts :
        \/ \E unit \in TimeUnits :
              /\ time' = TimePlusUnits(time, unit, n)
              /\ moment' = DateTimePlusUnits(moment, unit, n)
              /\ elapsed' = PeriodPlus(elapsed, from_units(unit, n))
              /\ whole' = FALSE
              /\ UNCHANGED date
        \/ \E unit \in {"days", "weeks"} :
              /\ date' = DatePlusUnits(date, unit, n)
              /\ time' = TimePlus(time, from_units(unit, n))
              /\ moment' = DateTimePlusUnits(moment, unit, n)
              /\ elapsed' = PeriodPlus(elapsed, from_units(unit, n))
              /\ UNCHANGED whole
  BY DEF AddUnits
<1>2. n \in Int /\ UNCHANGED origin
  BY CalendarAssumption DEF AddUnits
<1>3. CASE \E unit \in TimeUnits :
              /\ time' = TimePlusUnits(time, unit, n)
              /\ moment' = DateTimePlusUnits(moment, unit, n)
              /\ elapsed' = PeriodPlus(elapsed, from_units(unit, n))
              /\ whole' = FALSE
              /\ UNCHANGED date
  <2>1. PICK unit \in TimeUnits :
          /\ time' = TimePlusUnits(time, unit, n)
          /\ moment' = DateTimePlusUnits(moment, unit, n)
          /\ elapsed' = PeriodPlus(elapsed, from_units(unit, n))
          /\ whole' = FALSE
          /\ UNCHANGED date
    BY <1>3
  <2> DEFINE p == from_units(unit, n)
  <2>2. p \in Durations
    BY <1>2, UnitTypes
  <2>3. unit \notin {"months", "years"}
    BY DEF TimeUnits
  <2> HIDE DEF p
  <2>4. moment' = Moment(moment.day + p.day, moment.ms + p.ms)
    BY <2>1, <2>3 DEF DateTimePlusUnits, DateTimePlus, p
  <2>5. time' = Moment(time.day + p.day, time.ms + p.ms)
    BY <2>1 DEF TimePlusUnits, TimePlus, p
  <2>6. elapsed' = Moment(elapsed.day + p.day, elapsed.ms + p.ms)
    BY <2>1 DEF PeriodPlus, Duration, p
  <2>7. date' = date + 0
    BY SMT, <2>1, PartsAre
  <2>8. 0 \in Int
    BY SMT
  <2>9. Moved(p, 0)
    BY <1>2, <2>1, <2>2, <2>4, <2>5, <2>6, <2>7, <2>8 DEF Moved
  <2> QED
    BY <2>9, MovedKeeps
<1>4. CASE \E unit \in {"days", "weeks"} :
              /\ date' = DatePlusUnits(date, unit, n)
              /\ time' = TimePlus(time, from_units(unit, n))
              /\ moment' = DateTimePlusUnits(moment, unit, n)
              /\ elapsed' = PeriodPlus(elapsed, from_units(unit, n))
              /\ UNCHANGED whole
  <2>1. PICK unit \in {"days", "weeks"} :
          /\ date' = DatePlusUnits(date, unit, n)
          /\ time' = TimePlus(time, from_units(unit, n))
          /\ moment' = DateTimePlusUnits(moment, unit, n)
          /\ elapsed' = PeriodPlus(elapsed, from_units(unit, n))
          /\ UNCHANGED whole
    BY <1>4
  <2> DEFINE d == IF unit = "days" THEN n ELSE 7 * n
             p == from_days(d)
  <2>2. d \in Int
    BY SMT, <1>2
  <2>3. from_units(unit, n) = p
    BY <1>2, UnitTypes
  <2>4. date' = date + d
    BY SMT, <2>1 DEF DatePlusUnits
  <2> HIDE DEF d
  <2>5. p \in Durations /\ p.day = d /\ p.ms = 0
    BY <2>2, WholeDays
  <2> HIDE DEF p
  <2>6. moment' = Moment(moment.day + p.day, moment.ms + p.ms)
    BY <2>1, <2>3 DEF DateTimePlusUnits, DateTimePlus
  <2>7. time' = Moment(time.day + p.day, time.ms + p.ms)
    BY <2>1, <2>3 DEF TimePlus
  <2>8. elapsed' = Moment(elapsed.day + p.day, elapsed.ms + p.ms)
    BY <2>1, <2>3 DEF PeriodPlus, Duration
  <2>9. whole' \in BOOLEAN
    BY <2>1 DEF CalendarInv, CalendarTypes
  <2>10. Moved(p, d)
    BY <1>2, <2>1, <2>2, <2>4, <2>5, <2>6, <2>7, <2>8, <2>9 DEF Moved
  <2> QED
    BY <2>10, MovedKeeps
<1> QED
  BY <1>1, <1>3, <1>4

\* Months, years and weekdays: the date and the day of the moment move alike.
LEMMA RecountKeeps ==
    ASSUME CalendarInv, Recount, NEW d \in Int, NEW e \in Int, date' = d,
           moment' = [moment EXCEPT !.day = e], moment.day = date => d = e
    PROVE  CalendarInv'
<1>1. moment' \in Durations /\ moment'.day = e /\ moment'.ms = moment.ms
  BY PartsAre DEF Durations
<1>2. elapsed' \in Durations /\ elapsed'.day = 0 /\ elapsed'.ms = 0
  BY WholeDays, SMT DEF Recount
<1>3. Total(elapsed') = 0
  BY SMT, <1>2, DayLength DEF Total
<1>4. /\ origin' = [date |-> date', time |-> time, moment |-> moment'] /\ time' = time /\ whole' = whole
      /\ origin'.date = date' /\ origin'.time = time' /\ origin'.moment = moment'
  BY DEF Recount
<1>5. CalendarTypes'
  BY <1>1, <1>2, <1>4 DEF CalendarInv, CalendarTypes
<1>6. Total(time') \in Int /\ Total(moment') \in Int
  BY <1>1, <1>4, PartsAre, TotalType
<1>7. /\ Total(moment') - Total(moment') = 0 /\ Total(time') - Total(time') = 0 /\ date' - date' = 0
  BY SMT, <1>6
<1> QED
  BY <1>1, <1>2, <1>3, <1>4, <1>5, <1>7 DEF CalendarInv, Together

\* plus_months and plus_years of LocalDate and LocalDateTime.
LEMMA MonthsKeep ==
    ASSUME CalendarInv, AddMonthsOrYears
    PROVE  CalendarInv'
<1>1. PICK n \in Amounts, unit \in {"months", "years"} :
        date' = DatePlusUnits(date, unit, n) /\ moment' = DateTimePlusUnits(moment, unit, n)
  BY DEF AddMonthsOrYears
<1> DEFINE k == IF unit = "months" THEN n ELSE 12 * n
<1>2. k \in Int
  BY SMT, CalendarAssumption
<1>3. \A x : DatePlusUnits(x, unit, n) = AddMonths(x, k)
  BY DEF DatePlusUnits
<1>4. moment' = [moment EXCEPT !.day = AddMonths(moment.day, k)]
  BY <1>1, <1>3 DEF DateTimePlusUnits
<1> HIDE DEF k
<1>5. AddMonths(date, k) \in Int /\ AddMonths(moment.day, k) \in Int
  BY <1>2, PartsAre, AddMonthsType
<1> QED
  BY <1>1, <1>3, <1>4, <1>5, RecountKeeps DEF AddMonthsOrYears

\* next and previous of LocalDate and LocalDateTime.
LEMMA WeekdaysKeep ==
    ASSUME CalendarInv, NextWeekday \/ PreviousWeekday
    PROVE  CalendarInv'
<1>1. CASE NextWeekday
  <2>1. PICK target \in 0 .. 6 :
          date' = next_weekday(date, target) /\ moment' = DateTimeNext(moment, target)
    BY <1>1 DEF NextWeekday
  <2>2. next_weekday(date, target) \in Int /\ next_weekday(moment.day, target) \in Int
    BY PartsAre, WeekdayTypes
  <2> QED
    BY <1>1, <2>1, <2>2, RecountKeeps DEF NextWeekday, DateTimeNext
<1>2. CASE PreviousWeekday
  <2>1. PICK target \in 0 .. 6 :
          date' = previous_weekday(date, target) /\ moment' = DateTimePrevious(moment, target)
    BY <1>2 DEF PreviousWeekday
  <2>2. previous_weekday(date, target) \in Int /\ previous_weekday(moment.day, target) \in Int
    BY PartsAre, WeekdayTypes
  <2> QED
    BY <1>2, <2>1, <2>2, RecountKeeps DEF PreviousWeekday, DateTimePrevious
<1> QED
  BY <1>1, <1>2

\* The invariant implies the property.
LEMMA CalendarFollows ==
    ASSUME CalendarInv
    PROVE  DateAndTimeFollow
<1>1. /\ moment.day \in Int /\ moment.ms \in Int /\ moment.ms \in 0 .. DayMs - 1
      /\ time.ms \in 0 .. DayMs - 1 /\ date \in Int /\ origin.date \in Int
  BY PartsAre
<1>2. DateTimeDifference(moment, origin.moment) = elapsed
  <2>1. /\ DateTimeDifference(moment, origin.moment) \in Durations
        /\ Total(DateTimeDifference(moment, origin.moment)) = Total(elapsed)
    BY PartsAre, Sums DEF DateTimeDifference, Duration, CalendarInv, Together
  <2> QED
    BY <2>1, PartsAre, TotalTells
<1>3. TimeDifference(time, origin.time) = elapsed
  <2>1. /\ TimeDifference(time, origin.time) \in Durations
        /\ Total(TimeDifference(time, origin.time)) = Total(elapsed)
    BY PartsAre, Sums DEF TimeDifference, Duration, CalendarInv, Together
  <2> QED
    BY <2>1, PartsAre, TotalTells
<1>4. ASSUME whole
      PROVE  between_dates(origin.date, date) = elapsed
  <2>1. elapsed.ms = 0 /\ elapsed.day = date - origin.date /\ elapsed \in Durations
    BY <1>4, PartsAre DEF CalendarInv, Together
  <2>2. date - origin.date \in Int
    BY SMT, <1>1
  <2>3. /\ from_days(date - origin.date) \in Durations
        /\ from_days(date - origin.date).day = elapsed.day /\ from_days(date - origin.date).ms = elapsed.ms
    BY <2>1, <2>2, WholeDays
  <2>4. from_days(date - origin.date) = elapsed
    BY <2>1, <2>3 DEF Durations
  <2> QED
    BY <2>4 DEF between_dates, DateDifference
<1>5. compare_times(time, Moment(Epoch, moment.ms)) = 0
  <2>1. Moment(Epoch, moment.ms).ms = moment.ms
    BY <1>1, NoCarry, SMT DEF Epoch
  <2> QED
    BY <2>1 DEF compare_times, TimeEqual, CalendarInv, Together
<1>6. ASSUME whole
      PROVE  compare_date_times(LocalDateTime(date, time), moment) = 0
  <2>1. date = moment.day /\ time.ms = moment.ms
    BY <1>6 DEF CalendarInv, Together
  <2>2. [day |-> date, ms |-> time.ms] = moment
    BY <2>1, PartsAre DEF Durations
  <2> QED
    BY <2>2 DEF compare_date_times, DateTimeEqual, LocalDateTime
<1> QED
  BY <1>2, <1>3, <1>4, <1>5, <1>6 DEF DateAndTimeFollow, ElapsedIsDifference

\* A LocalDate, a LocalTime and a LocalDateTime to which the same periods, units, months and
\* weekdays are added stay together, before 1970 and over midnight, and the difference to
\* where a walk began is what was added (period.hpp, local_date.cpp, local_time.cpp,
\* local_date_time.cpp).
THEOREM CalendarsStayTogether == CalendarSpec => []DateAndTimeFollow
<1>1. CalendarInit => CalendarInv
  BY CalendarInitially
<1>2. CalendarInv /\ [CalendarNext]_calendarVars => CalendarInv'
  <2> SUFFICES ASSUME CalendarInv, [CalendarNext]_calendarVars
               PROVE  CalendarInv'
    OBVIOUS
  <2>1. CASE UNCHANGED calendarVars
    BY <2>1 DEF calendarVars, CalendarInv, CalendarTypes, Together
  <2> QED
    BY <2>1, AddPeriodKeeps, SubtractPeriodKeeps, AddUnitsKeeps, MonthsKeep, WeekdaysKeep DEF CalendarNext
<1>3. CalendarInv => DateAndTimeFollow
  BY CalendarFollows
<1> QED
  BY <1>1, <1>2, <1>3, PTL DEF CalendarSpec
=============================================================================
