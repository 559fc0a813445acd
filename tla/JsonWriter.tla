----------------------------- MODULE JsonWriter -----------------------------
(* JsonWriterImpl: the tree writer that builds JSON text with rapidjson.  A   *)
(* call that breaks the tree is an assertion of rapidjson: in a release build *)
(* nothing is thrown and the text is malformed.                               *)
EXTENDS TreeWriter, RecordTypes, NodaTime

NewJsonWriter ==
    [state |-> "empty", stack |-> <<>>, builder |-> NewBuilder, malformed |-> FALSE,
     exception |-> FALSE]

Push(w, name) == [w EXCEPT !.stack = Append(@, [name |-> name, state |-> w.state])]

Write(w, builder) ==
    IF w.exception \/ w.malformed THEN w
    ELSE IF builder.refused THEN [w EXCEPT !.malformed = TRUE] ELSE [w EXCEPT !.builder = builder]
Key(w, name) == Write(w, BuilderKey(w.builder, name))
Value(w, value) == Write(w, BuilderValue(w.builder, value))
\* rapidjson keeps one root.
Open(w, kind) ==
    Write(w, IF Len(w.builder.frames) = 1 /\ Documents(w.builder) # <<>> THEN Refuse(w.builder)
             ELSE BuilderOpen(w.builder, kind))
Close(w, kind) == Write(w, BuilderClose(w.builder, kind))

\* Unlike the BSON writer, nothing is written for the root here.
write_start_document(w, root_element_name) ==
    LET pushed == Push(w, root_element_name)
    IN  IF w.state = "empty" /\ Len(pushed.stack) = 1
        THEN [pushed EXCEPT !.state = "document_started"]
        ELSE Throw(pushed)

Restored(w) == [w EXCEPT !.stack = Front(@), !.state = Last(w.stack).state]
Pop(w, name) == IF name = Last(w.stack).name THEN Restored(w) ELSE Throw(Restored(w))

write_end_document(w, root_element_name) ==
    IF w.state = "dict_completed" /\ Len(w.stack) = 1
    THEN Pop([w EXCEPT !.state = "document_completed"], root_element_name)
    ELSE Throw(w)

write_start_element(w, element_name) ==
    Key(Move(Push(w, element_name), StartElementMoves), element_name)

\* Mutant: the state before the element is not restored.
EndElementUnpopped(w, element_name) == Move(w, EndElementMoves)
write_end_element(w, element_name) ==
    LET moved == Move(w, EndElementMoves)
    IN  IF moved.exception THEN moved ELSE Pop(moved, element_name)

write_start_dict(w, type_name) ==
    Value(Key(Open(Move(w, StartDictMoves), "document"), "_t"), <<"string", <<type_name>>>>)
write_end_dict(w, type_name) == Close(Move(w, EndDictMoves), "document")

write_start_array(w) == Open(Move(w, StartArrayMoves), "array")
\* Mutant: the end of the array is not written.
EndArrayUnwritten(w) == Move(w, EndArrayMoves)
write_end_array(w) == Close(Move(w, EndArrayMoves), "array")
write_start_array_item(w) == Move(w, StartArrayItemMoves)
write_end_array_item(w) == Move(w, EndArrayItemMoves)
write_start_value(w) == Move(w, StartValueMoves)
write_end_value(w) == Move(w, EndValueMoves)

JsonValue(value) ==
    CASE value[1] \in Primitive \cup {"null"} -> value
      [] value[1] = "date" -> <<"int", date_to_iso_int(value[2])>>
      [] value[1] = "time" -> <<"int", time_to_iso_int(value[2])>>
      [] value[1] = "minute" -> <<"int", minute_to_iso_int(value[2])>>
      [] value[1] = "datetime" -> <<"long">> \o to_iso_long(value[2])
      [] value[1] = "enum" -> <<"string", <<value[3]>>>>

\* There is no JSON form of an ObjectId or a ByteArray.
JsonWritable == Primitive \cup Calendar \cup {"null", "enum"}

write_value(w, value) ==
    LET moved == Move(w, WriteValueMoves)
    IN  IF value[1] \in JsonWritable THEN Value(moved, JsonValue(value)) ELSE Throw(moved)

to_string(w) == Head(Documents(w.builder))

Call(w, c) ==
    IF w.exception THEN w
    ELSE CASE c[1] = "start_document" -> write_start_document(w, c[2])
           [] c[1] = "end_document" -> write_end_document(w, c[2])
           [] c[1] = "start_element" -> write_start_element(w, c[2])
           [] c[1] = "end_element" -> write_end_element(w, c[2])
           [] c[1] = "start_dict" -> write_start_dict(w, c[2])
           [] c[1] = "end_dict" -> write_end_dict(w, c[2])
           [] c[1] = "start_array" -> write_start_array(w)
           [] c[1] = "end_array" -> write_end_array(w)
           [] c[1] = "start_array_item" -> write_start_array_item(w)
           [] c[1] = "end_array_item" -> write_end_array_item(w)
           [] c[1] = "start_value" -> write_start_value(w)
           [] c[1] = "end_value" -> write_end_value(w)
           [] c[1] = "write_value" -> write_value(w, c[2])
           [] c[1] = "throw" -> Throw(w)
=============================================================================
