------------------------ MODULE BsonRecordSerializer ------------------------
(* BsonRecordSerializerImpl: an object as the calls that write it to a tree   *)
(* writer, and a BSON document as the calls that write it to a DataWriter or  *)
(* a TupleWriter.  The calls do not depend on the writer; a last call "throw" *)
(* is an exception of the serializer.                                         *)
EXTENDS TreeWriter, RecordKey, NodaTime

CONSTANTS
    KeyClass,    \* the key class of each record class
    convention   \* MongoClientSettings::get_discriminator_convention

thrown == <<<<"throw">>>>

\* Types that are written as a value; ObjectId and ByteArray have a BSON form.
Written == Primitive \cup Calendar \cup {"bytes", "enum", "oid"}
\* Types with a SerializeClassAttribute.
Custom == {"temporal_id", "key"}

TidBytes(id) == <<"bytes", <<"tid", id>>>>
custom_calls(value) ==
    IF value[1] = "key" THEN value_calls(serialize_key(value[2], value[3]))
    ELSE value_calls(TidBytes(value[2]))

\* TypedRecord::get_key: the elements of the record that its key class names.
get_key(record) ==
    LET class == KeyClass[record[2]]
    IN  <<"string", key_to_string(class, [n \in DOMAIN default_fields(class) |-> record[3][n]])>>

RECURSIVE data_calls(_)
item_calls(item) ==
    <<<<"start_array_item">>>> \o
    (CASE item[1] \in Written \cup {"null"} -> value_calls(item)
       [] item[1] \in Custom -> custom_calls(item)
       [] item[1] = "list" -> thrown
       [] OTHER -> data_calls(item)) \o
    <<<<"end_array_item">>>>
list_calls(list, element_name) ==
    start_array_element(element_name) \o
    FoldLeft(LAMBDA calls, item : calls \o item_calls(item), <<>>, list[2]) \o
    end_array_element(element_name)

\* Fields that are empty are left out.
field_calls(record, field) ==
    LET value == IF field.is_key THEN get_key(record) ELSE record[3][field.name]
        Element(calls) == <<<<"start_element", field.name>>>> \o calls \o
                          <<<<"end_element", field.name>>>>
    IN  CASE value[1] \in Written \cup {"null"} -> value_element(field.name, value)
          [] value[1] \in Custom -> Element(custom_calls(value))
          [] value[1] = "list" -> list_calls(value, field.name)
          [] OTHER -> Element(data_calls(value))

data_calls(value) ==
    <<<<"start_dict", value[2]>>>> \o
    FoldLeft(LAMBDA calls, field : calls \o field_calls(value, field), <<>>, Fields[value[2]]) \o
    <<<<"end_dict", value[2]>>>>

serialize(value) ==
    <<<<"start_document", value[2]>>>> \o
    (IF value[1] \in Custom THEN custom_calls(value) ELSE data_calls(value)) \o
    <<<<"end_document", value[2]>>>>

------------------------------------------------------------------------------
\* The element of a document with a name, or Null.
Find(doc, name) ==
    LET found == {i \in DOMAIN doc[2] : doc[2][i][1] = name}
    IN  IF found = {} THEN Null ELSE doc[2][CHOOSE i \in found : TRUE][2]

\* Mutant: the class of an embedded document is not read.
TypeNameIgnored(doc) == ""
\* The class of an embedded document; the root's array of names is no class name.
TypeName(doc) == IF Find(doc, "_t")[1] = "string" THEN Head(Find(doc, "_t")[2]) ELSE ""

\* The class of the object to create, or "" for an exception.
root_class(doc) ==
    LET t == Find(doc, "_t")
    IN  CASE convention = "scalar" /\ t[1] = "string" -> Head(t[2])
          [] convention = "hierarchical" /\ t[1] = "array" ->
                IF t[2] = <<>> THEN "" ELSE Head(Last(t[2])[2])
          [] OTHER -> ""

RECURSIVE deserialize_document(_)
\* Dates are not among the types an array is read from, nor are other arrays.
array_element_calls(value) ==
    CASE value[1] \in {"null", "string", "double", "bool", "int", "long", "oid", "bytes"} ->
            value_array_item(value)
      [] value[1] = "document" ->
            <<<<"start_array_item">>>> \o deserialize_document(value) \o <<<<"end_array_item">>>>
      [] OTHER -> thrown
deserialize_array(array) ==
    FoldLeft(LAMBDA calls, value : calls \o array_element_calls(value), <<>>, array[2])

element_calls(name, value) ==
    CASE name = "_t" \/ value = Null -> <<>>
      [] name # "_t" /\ value[1] \in {"oid", "string", "double", "bool", "int", "long", "bytes"} ->
            value_element(name, value)
      [] name # "_t" /\ value[1] = "milliseconds" ->
            value_element(name, <<"datetime", from_std_chrono(value[2])>>)
      [] name # "_t" /\ value[1] = "document" ->
            <<<<"start_element", name>>>> \o deserialize_document(value) \o <<<<"end_element", name>>>>
      [] name # "_t" /\ value[1] = "array" ->
            start_array_element(name) \o deserialize_array(value) \o end_array_element(name)

deserialize_document(doc) ==
    <<<<"start_dict", TypeName(doc)>>>> \o
    FoldLeft(LAMBDA calls, element : calls \o element_calls(element[1], element[2]), <<>>, doc[2]) \o
    <<<<"end_dict", TypeName(doc)>>>>

deserialize(doc) ==
    IF root_class(doc) \notin Class THEN thrown
    ELSE <<<<"start_document", root_class(doc)>>>> \o deserialize_document(doc) \o
         <<<<"end_document", root_class(doc)>>>>
deserialize_tuple(doc) ==
    <<<<"start_document", "tuple">>>> \o deserialize_document(doc) \o <<<<"end_document", "tuple">>>>
=============================================================================
