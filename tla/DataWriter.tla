----------------------------- MODULE DataWriter -----------------------------
(* DataWriterImpl: the tree writer that builds an object instead of a         *)
(* document; the deserializers write what they read into it.                  *)
(*                                                                            *)
(* Objects are on a heap, because the writer fills an object after it put it  *)
(* into the field or list that holds it: <<"ref", i>> is the i-th object.     *)
EXTENDS TreeWriter, RecordKey, NodaTime

NoObject == 0
NoType == <<"none">>
NoField == Field("", NoType)

Instance(class) == [class |-> class, fields |-> default_fields(class)]
NewList(item_type) == [class |-> "List", item_type |-> item_type, items |-> <<>>]

\* The writer of an object that is the first of the heap.
NewDataWriter(heap) ==
    [heap |-> heap, stack |-> <<>>, state |-> "empty", exception |-> FALSE,
     root_element_name |-> "", element_name |-> "",
     dict |-> IF heap = <<>> THEN NoObject ELSE 1, elements |-> None, info |-> NoField,
     array |-> NoObject, item_type |-> NoType]

\* What push_state saves and pop_state restores.
push_state(d) ==
    [d EXCEPT !.stack = Append(@,
        [element_name |-> d.element_name, state |-> d.state, dict |-> d.dict, elements |-> d.elements,
         info |-> d.info, array |-> d.array, item_type |-> d.item_type])]
\* Mutant: the array that is being filled is not restored.
PopWithoutArray(d) ==
    LET p == Last(d.stack)
    IN  [d EXCEPT !.stack = Front(@), !.element_name = p.element_name, !.state = p.state,
                  !.dict = p.dict, !.elements = p.elements, !.info = p.info]
pop_state(d) ==
    LET p == Last(d.stack)
    IN  [d EXCEPT !.stack = Front(@), !.element_name = p.element_name, !.state = p.state,
                  !.dict = p.dict, !.elements = p.elements, !.info = p.info,
                  !.array = p.array, !.item_type = p.item_type]

\* Unboxing to a type: what the cast of set_value and add_object accepts.
Assignable(heap, type, value) ==
    CASE type[1] = "object" -> TRUE
      [] value = Null -> type[1] \in {"string", "nullable", "bytes", "data", "key", "list"}
      [] value[1] = "ref" /\ type[1] \in {"data", "key"} ->
            heap[value[2]].class \in Class /\ type[2] \in Lineage[heap[value[2]].class]
      [] value[1] = "ref" /\ type[1] = "list" ->
            heap[value[2]].class = "List" /\ heap[value[2]].item_type = type[2]
      [] value[1] \in {"enum", "key"} -> type[1] = value[1] /\ type[2] = value[2]
      [] type[1] = "nullable" -> type[2] = value[1]
      [] OTHER -> type[1] = value[1]

\* Add a value to the array or set the current element of the dictionary.
Store(d, value) ==
    LET add == d.array # NoObject
        target == IF add THEN d.array ELSE d.dict
        type == IF add THEN d.heap[target].item_type ELSE d.info.type
    IN  IF d.exception THEN d
        ELSE IF target = NoObject \/ (~add /\ d.info = NoField) THEN Throw(d)
        ELSE IF value = Failed \/ ~Assignable(d.heap, type, value) THEN Throw(d)
        ELSE IF add THEN [d EXCEPT !.heap[target].items = Append(@, value)]
        ELSE [d EXCEPT !.heap[target].fields[d.info.name] = value]

\* An object is allocated, stored, and then becomes current.
Allocate(d, object) == [d EXCEPT !.heap = Append(@, object)]
Newest(d) == Len(d.heap)

write_start_document(d, root_element_name) ==
    LET class == d.heap[d.dict].class
        started == [d EXCEPT !.state = "document_started"]
    IN  IF d.state # "empty" \/ d.stack # <<>> THEN Throw(d)
        ELSE IF root_element_name # class THEN Throw(started)
        ELSE [started EXCEPT !.root_element_name = class, !.element_name = class, !.elements = class,
                             !.array = NoObject, !.item_type = NoType]

write_end_document(d, root_element_name) ==
    IF d.state = "document_started" /\ d.stack = <<>> /\ root_element_name = d.root_element_name
    THEN [d EXCEPT !.state = "document_completed"]
    ELSE Throw(d)

\* The field of an unknown element is null; that throws only when it is used.
write_start_element(d, element_name) ==
    LET moved == Move(d, StartElementMoves)
        known == IF d.elements = None THEN {} ELSE FieldsNamed(d.elements, element_name)
    IN  IF moved.exception THEN moved
        ELSE IF d.elements = None THEN Throw(moved)
        ELSE [moved EXCEPT !.element_name = element_name,
                           !.info = IF known = {} THEN NoField
                                    ELSE Fields[d.elements][CHOOSE i \in known : TRUE]]

write_end_element(d, element_name) ==
    LET moved == Move(d, EndElementMoves)
    IN  IF element_name = d.element_name THEN moved ELSE Throw(moved)

\* The class is the named one, or else the type of the list item or the field.
write_start_dict(d, type_name) ==
    LET moved == Move(push_state(d), StartDictMoves)
        declared == IF d.array # NoObject THEN d.item_type ELSE d.info.type
        class == IF type_name # "" THEN type_name
                 ELSE IF declared[1] \in {"data", "key"} THEN declared[2] ELSE None
        created == Allocate(moved, Instance(class))
        stored == Store(created, <<"ref", Newest(created)>>)
    IN  IF moved.exception \/ d.state = "document_started" THEN moved
        ELSE IF class \notin Class THEN Throw(moved)
        ELSE [stored EXCEPT !.dict = Newest(stored), !.elements = class,
                            !.array = NoObject, !.item_type = NoType]

write_end_dict(d, type_name) ==
    LET moved == Move(d, EndDictMoves) IN IF moved.exception THEN moved ELSE pop_state(moved)

write_start_array(d) ==
    LET moved == Move(push_state(d), StartArrayMoves)
        item_type == d.info.type[2]
        created == Allocate(moved, NewList(item_type))
        stored == Store(created, <<"ref", Newest(created)>>)
    IN  IF moved.exception THEN moved
        ELSE IF d.info.type[1] # "list" THEN Throw(moved)
        ELSE [stored EXCEPT !.array = Newest(stored), !.item_type = item_type,
                            !.dict = NoObject, !.info = NoField, !.elements = None]

\* Unlike the other writers, an array must have an item.
write_end_array(d) ==
    IF d.state = "array_item_completed" THEN pop_state([d EXCEPT !.state = "array_completed"])
    ELSE Throw(d)

write_start_array_item(d) == Move(d, StartArrayItemMoves)
write_end_array_item(d) == Move(d, EndArrayItemMoves)
write_start_value(d) == Move(d, StartValueMoves)
write_end_value(d) == Move(d, EndValueMoves)

Atom(type) == IF type[1] = "nullable" THEN type[2] ELSE type[1]

\* Numbers change type only for elements that are not Nullable.  A double counts
\* halves; the longs of the model that go to an int element fit one.
ConvertedNumber(type, value) ==
    CASE type = <<"double">> /\ value[1] = "int" -> <<"double", 2 * value[2]>>
      [] type = <<"double">> /\ value[1] = "long" -> <<"double", 2 * value[3]>>
      [] type = <<"long">> /\ value[1] = "int" ->
            IF value[2] < 0 THEN <<"long", -1, Billion + value[2]>> ELSE <<"long", 0, value[2]>>
      [] type = <<"int">> /\ value[1] = "long" ->
            <<"int", IF value[2] = -1 THEN value[3] - Billion ELSE value[3]>>
      [] OTHER -> value

\* A date, time or minute from its ISO integer.  An int64 is unboxed as an int,
\* which throws.
ParsedIso(type, value, parsed) ==
    IF value[1] = "int" /\ parsed # NotADate THEN <<type, parsed>> ELSE Failed

ConvertedDateTime(value) ==
    LET long == IF value[1] = "long" THEN <<value[2], value[3]>>
                ELSE IF value[2] < 0 THEN <<-1, Billion + value[2]>> ELSE <<0, value[2]>>
        moment == parse_iso_long(long)
    IN  CASE value[1] = "datetime" -> value
          [] value[1] \in {"int", "long"} ->
                IF moment.day = NotADate THEN Failed ELSE <<"datetime", moment>>
          [] OTHER -> Failed

\* An ObjectId or TemporalId from its own form, its bytes or its text.
ConvertedId(type, value) ==
    CASE value[1] = type[1] -> value
      [] value[1] = "bytes" /\ type = <<"temporal_id">> ->
            IF value[2][1] = "tid" THEN <<"temporal_id", value[2][2]>> ELSE Failed
      [] value[1] = "oid" /\ type = <<"temporal_id">> -> <<"temporal_id", value[2]>>
      [] value[1] = "string" ->
            IF IdsSpelled(Head(value[2])) = {} \/ Len(value[2]) # 1 THEN Failed
            ELSE <<type[1], CHOOSE i \in IdsSpelled(Head(value[2])) : TRUE>>
      [] OTHER -> Failed

\* The value an element of this type gets.
Converted(type, value) ==
    CASE Atom(type) \in Primitive -> ConvertedNumber(type, value)
      [] Atom(type) = "date" ->
            ParsedIso("date", value, IF value[1] = "int" THEN date_parse_iso_int(value[2]) ELSE NotADate)
      [] Atom(type) = "time" ->
            IF value[1] = "int" THEN <<"time", time_parse_iso_int(value[2])>> ELSE Failed
      [] Atom(type) = "minute" ->
            ParsedIso("minute", value, IF value[1] = "int" THEN minute_parse_iso_int(value[2]) ELSE NotADate)
      [] Atom(type) = "datetime" -> ConvertedDateTime(value)
      [] type = <<"bytes">> -> IF value[1] = "bytes" THEN value ELSE Failed
      [] type[1] = "enum" ->
            IF value[1] = "string" /\ \E i \in 1 .. Len(EnumItems[type[2]]) :
                                          value[2] = <<EnumItems[type[2]][i]>>
            THEN <<"enum", type[2], Head(value[2])>> ELSE Failed
      [] type[1] \in {"oid", "temporal_id"} -> ConvertedId(type, value)
      [] type[1] = "key" -> deserialize_key(value, type[2])
      [] OTHER -> Failed

write_value(d, value) ==
    LET moved == Move(d, WriteValueMoves)
        type == IF d.array # NoObject THEN d.item_type ELSE d.info.type
        skipped == d.item_type = NoType /\ d.info = NoField /\ d.element_name = "_id"
        ignored == d.dict # NoObject /\ d.info.is_key
    IN  IF moved.exception \/ skipped THEN moved
        ELSE IF d.array = NoObject /\ (d.dict = NoObject \/ d.info = NoField) THEN Throw(moved)
        ELSE IF ignored THEN moved
        ELSE IF value = Null THEN (IF d.array # NoObject THEN Store(moved, Null) ELSE moved)
        ELSE Store(moved, Converted(type, value))

Call(d, c) ==
    IF d.exception THEN d
    ELSE CASE c[1] = "start_document" -> write_start_document(d, c[2])
           [] c[1] = "end_document" -> write_end_document(d, c[2])
           [] c[1] = "start_element" -> write_start_element(d, c[2])
           [] c[1] = "end_element" -> write_end_element(d, c[2])
           [] c[1] = "start_dict" -> write_start_dict(d, c[2])
           [] c[1] = "end_dict" -> write_end_dict(d, c[2])
           [] c[1] = "start_array" -> write_start_array(d)
           [] c[1] = "end_array" -> write_end_array(d)
           [] c[1] = "start_array_item" -> write_start_array_item(d)
           [] c[1] = "end_array_item" -> write_end_array_item(d)
           [] c[1] = "start_value" -> write_start_value(d)
           [] c[1] = "end_value" -> write_end_value(d)
           [] c[1] = "write_value" -> write_value(d, c[2])
           [] c[1] = "throw" -> Throw(d)

RECURSIVE Loaded(_, _)
\* The value a heap holds, with its references followed.
Loaded(heap, value) ==
    IF value[1] # "ref" THEN value
    ELSE LET object == heap[value[2]]
         IN  IF object.class = "List"
             THEN <<"list", [i \in DOMAIN object.items |-> Loaded(heap, object.items[i])]>>
             ELSE <<"data", object.class, [n \in DOMAIN object.fields |-> Loaded(heap, object.fields[n])]>>
=============================================================================
