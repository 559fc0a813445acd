----------------------------- MODULE BsonWriter -----------------------------
(* BsonWriterImpl: the tree writer that builds a BSON document.  Each method  *)
(* is a function from the writer before the call to the writer after it.      *)
EXTENDS TreeWriter, RecordTypes, NodaTime

CONSTANT convention   \* MongoClientSettings::get_discriminator_convention

NewBsonWriter ==
    [state |-> "empty", stack |-> <<>>, builder |-> NewBuilder, exception |-> FALSE]

\* The name and the state are pushed before the state is checked.
Push(w, name) == [w EXCEPT !.stack = Append(@, [name |-> name, state |-> w.state])]

\* The exception of the library passes through the writer.
Write(w, builder) ==
    IF w.exception THEN w
    ELSE IF builder.refused THEN Throw(w) ELSE [w EXCEPT !.builder = builder]
Key(w, name) == Write(w, BuilderKey(w.builder, name))
Value(w, value) == Write(w, BuilderValue(w.builder, value))
Open(w, kind) == Write(w, BuilderOpen(w.builder, kind))
Close(w, kind) == Write(w, BuilderClose(w.builder, kind))

\* _t of the root: its name, or an array of the names of its bases and its own.
Discriminator(name) ==
    IF convention = "scalar" THEN <<"string", <<name>>>>
    ELSE LET bases == Reverse(get_parents_list[name])
         IN  <<"array", [i \in 1 .. Len(bases) + 1 |->
                <<"string", <<IF i <= Len(bases) THEN bases[i] ELSE name>>>>]>>

write_start_document(w, root_element_name) ==
    LET pushed == Push(w, root_element_name)
        started == [pushed EXCEPT !.state = "document_started"]
    IN  IF w.state = "empty" /\ Len(pushed.stack) = 1
        THEN Value(Key(Open(started, "document"), "_t"), Discriminator(root_element_name))
        ELSE Throw(pushed)

\* The state completed is overwritten by the state before the element.
Restored(w) == [w EXCEPT !.stack = Front(@), !.state = Last(w.stack).state]
Pop(w, name) == IF name = Last(w.stack).name THEN Restored(w) ELSE Throw(Restored(w))

write_end_document(w, root_element_name) ==
    IF w.state = "dict_completed" /\ Len(w.stack) = 1
    THEN Pop([w EXCEPT !.state = "document_completed"], root_element_name)
    ELSE Throw(w)

write_start_element(w, element_name) ==
    Key(Move(Push(w, element_name), StartElementMoves), element_name)

write_end_element(w, element_name) ==
    LET moved == Move(w, EndElementMoves)
    IN  IF moved.exception THEN moved ELSE Pop(moved, element_name)

\* The root dictionary is opened by write_start_document.
write_start_dict(w, type_name) ==
    LET moved == Move(w, StartDictMoves)
    IN  IF w.state = "document_started" THEN moved
        ELSE Value(Key(Open(moved, "document"), "_t"), <<"string", <<type_name>>>>)
write_end_dict(w, type_name) == Close(Move(w, EndDictMoves), "document")

write_start_array(w) == Open(Move(w, StartArrayMoves), "array")
write_end_array(w) == Close(Move(w, EndArrayMoves), "array")
write_start_array_item(w) == Move(w, StartArrayItemMoves)
write_end_array_item(w) == Move(w, EndArrayItemMoves)
write_start_value(w) == Move(w, StartValueMoves)
write_end_value(w) == Move(w, EndValueMoves)

\* A value's BSON form; Null also stands for an empty Object.
BsonValue(value) ==
    CASE value[1] \in Primitive \cup {"null", "oid", "bytes"} -> value
      [] value[1] = "date" -> <<"int", date_to_iso_int(value[2])>>
      [] value[1] = "time" -> <<"int", time_to_iso_int(value[2])>>
      [] value[1] = "minute" -> <<"int", minute_to_iso_int(value[2])>>
      [] value[1] = "datetime" -> <<"milliseconds", to_std_chrono(value[2])>>
      [] value[1] = "enum" -> <<"string", <<value[3]>>>>

BsonWritable == Primitive \cup Calendar \cup {"null", "oid", "bytes", "enum"}

write_value(w, value) ==
    LET moved == Move(w, WriteValueMoves)
    IN  IF value[1] \in BsonWritable THEN Value(moved, BsonValue(value)) ELSE Throw(moved)

\* The document is the first one of the builder's root, complete or not.
view(w) == Head(Documents(w.builder))

\* A call, unless an earlier one threw.
Call(w, c) ==
    IF w.exception THEN w
    ELSE CASE c[1] = "start_document" -> write_start_document(w, c[2])
           [] c[1] = "end_document" -> write_end_document(w, c[2])
           [] c[1] = "start_element" -> write_start_element(w, c[2])
           [] c[1] = "end_element" -> write_end_element(w, c[2])
           [] c[1] = "start_dict" -> write_start_dict(w, c[2])
           [] c[1] = "end_dict" -> write_end_dict(w, c[2])
           [] c[1] = "start_array" -> write_start_array(w)
           [] c[1] = "end_array" -> write_end_array(w)
           [] c[1] = "start_array_item" -> write_start_array_item(w)
           [] c[1] = "end_array_item" -> write_end_array_item(w)
           [] c[1] = "start_value" -> write_start_value(w)
           [] c[1] = "end_value" -> write_end_value(w)
           [] c[1] = "write_value" -> write_value(w, c[2])
           [] c[1] = "throw" -> Throw(w)
=============================================================================
