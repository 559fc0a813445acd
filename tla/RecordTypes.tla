---------------------------- MODULE RecordTypes -----------------------------
(* The reflected classes that the serializers work on.                        *)
(*                                                                            *)
(* A field type is a tuple: an atomic type <<"int">>, its Nullable            *)
(* <<"nullable", "int">>, a list <<"list", item type>>, an embedded class     *)
(* <<"data", class>> or a key class <<"key", class>>.                         *)
EXTENDS Naturals, Sequences, FiniteSets

CONSTANTS
    None,       \* no class
    Fields,     \* the fields of each class in the order of get_fields, bases first
    BaseType,   \* the class each class derives from, or None
    EnumItems,  \* the items of each enum class
    RootClass   \* the classes with a BsonRootClassAttribute

\* A field: its name, its type, and whether it is the _key field of Record, which has
\* a serializer of its own and is ignored by the deserializer.
Field(name, type) == [name |-> name, type |-> type, is_key |-> FALSE]
KeyField == [name |-> "_key", type |-> <<"string">>, is_key |-> TRUE]

Class == DOMAIN Fields
Primitive == {"string", "double", "bool", "int", "long"}
Calendar == {"date", "time", "minute", "datetime"}

\* The class and its bases.
Lineage[class \in Class] ==
    IF BaseType[class] = None THEN {class} ELSE {class} \cup Lineage[BaseType[class]]

\* The bases of a class up to its root class, the nearest first.
get_parents_list[class \in Class] ==
    IF BaseType[class] = None THEN <<>>
    ELSE <<BaseType[class]>> \o
            (IF BaseType[class] \in RootClass THEN <<>> ELSE get_parents_list[BaseType[class]])

\* The value of a field that nothing was assigned to.  A LocalMinute is left
\* uninitialized by its default constructor; no model here reads one before it is set.
default_value(type) ==
    CASE type[1] \in {"int", "double", "date", "minute", "oid", "temporal_id"} -> <<type[1], 0>>
      [] type[1] = "long" -> <<"long", 0, 0>>
      [] type[1] = "bool" -> <<"bool", FALSE>>
      [] type[1] \in {"time", "datetime"} -> <<type[1], [day |-> 0, ms |-> 0]>>
      [] type[1] = "enum" -> <<"enum", type[2], Head(EnumItems[type[2]])>>
      [] OTHER -> <<"null">>

\* A new instance: the fields that are stored, by name.
default_fields(class) ==
    [n \in {Fields[class][i].name : i \in {j \in 1 .. Len(Fields[class]) : ~Fields[class][j].is_key}} |->
        default_value(Fields[class][CHOOSE i \in 1 .. Len(Fields[class]) : Fields[class][i].name = n].type)]

FieldsNamed(class, name) == {i \in 1 .. Len(Fields[class]) : Fields[class][i].name = name}
=============================================================================
