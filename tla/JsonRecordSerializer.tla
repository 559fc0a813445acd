------------------------ MODULE JsonRecordSerializer ------------------------
(* JsonRecordSerializerImpl, written like BsonRecordSerializer: an object as  *)
(* the calls that write it, a JSON text as the calls that read it.  Custom    *)
(* serializers are used for the root object only.                             *)
EXTENDS TreeWriter, RecordKey, NodaTime

thrown == <<<<"throw">>>>
Written == Primitive \cup Calendar \cup {"enum"}

full_name(class) == "dc." \o class

RECURSIVE data_calls(_)
item_calls(item) ==
    <<<<"start_array_item">>>> \o
    (CASE item[1] \in Written \cup {"null"} -> value_calls(item)
       [] item[1] = "list" -> thrown
       [] item[1] \notin Written \cup {"null", "list"} -> data_calls(item)) \o
    <<<<"end_array_item">>>>
list_calls(list, element_name) ==
    start_array_element(element_name) \o
    FoldLeft(LAMBDA calls, item : calls \o item_calls(item), <<>>, list[2]) \o
    end_array_element(element_name)
field_calls(value, name) ==
    CASE value[1] \in Written \cup {"null"} -> value_element(name, value)
      [] value[1] = "list" -> list_calls(value, name)
      [] OTHER -> <<<<"start_element", name>>>> \o data_calls(value) \o <<<<"end_element", name>>>>

\* A key is embedded like any class; an ObjectId, a TemporalId or a ByteArray is a
\* class without fields.
data_calls(value) ==
    LET class == IF value[1] \in {"data", "key"} THEN value[2] ELSE value[1]
        fields == IF class \in Class THEN SelectSeq(Fields[class], LAMBDA f : ~f.is_key) ELSE <<>>
    IN  <<<<"start_dict", class>>>> \o
        FoldLeft(LAMBDA calls, f : calls \o field_calls(value[3][f.name], f.name), <<>>, fields) \o
        <<<<"end_dict", class>>>>

\* The root name is the full name; the writer only compares it at the end.
serialize(value) ==
    <<<<"start_document", full_name(value[2])>>>> \o
    (IF value[1] = "key" THEN value_calls(serialize_key(value[2], value[3])) ELSE data_calls(value)) \o
    <<<<"end_document", full_name(value[2])>>>>

------------------------------------------------------------------------------
TypeName(doc) ==
    LET found == {i \in DOMAIN doc[2] : doc[2][i][1] = "_t"}
    IN  IF found = {} THEN "" ELSE Head(doc[2][CHOOSE i \in found : TRUE][2][2])

\* A number is read as an int when it fits one, whatever it was written from.
number(value) ==
    CASE value[1] = "long" /\ value[2] = 0 -> <<"int", value[3]>>
      [] value[1] = "long" /\ value[2] = -1 -> <<"int", value[3] - Billion>>
      [] OTHER -> value

RECURSIVE deserialize_document(_)
array_element_calls(value) ==
    CASE value[1] \in {"null", "string", "double", "bool", "int", "long"} ->
            value_array_item(number(value))
      [] value[1] = "document" ->
            <<<<"start_array_item">>>> \o deserialize_document(value) \o <<<<"end_array_item">>>>
      [] OTHER -> thrown
deserialize_array(array) ==
    FoldLeft(LAMBDA calls, value : calls \o array_element_calls(value), <<>>, array[2])

element_calls(name, value) ==
    CASE (name = "_t" /\ value[1] = "string") \/ value = Null -> <<>>
      [] name # "_t" /\ value[1] \in {"string", "double", "bool", "int", "long"} ->
            value_element(name, number(value))
      [] value[1] = "document" ->
            <<<<"start_element", name>>>> \o deserialize_document(value) \o <<<<"end_element", name>>>>
      [] value[1] = "array" ->
            start_array_element(name) \o deserialize_array(value) \o end_array_element(name)

deserialize_document(doc) ==
    <<<<"start_dict", TypeName(doc)>>>> \o
    FoldLeft(LAMBDA calls, element : calls \o element_calls(element[1], element[2]), <<>>, doc[2]) \o
    <<<<"end_dict", TypeName(doc)>>>>

deserialize(doc) ==
    IF TypeName(doc) \notin Class THEN thrown
    ELSE <<<<"start_document", TypeName(doc)>>>> \o deserialize_document(doc) \o
         <<<<"end_document", TypeName(doc)>>>>
deserialize_tuple(doc) ==
    <<<<"start_document", "tuple">>>> \o deserialize_document(doc) \o <<<<"end_document", "tuple">>>>
=============================================================================
