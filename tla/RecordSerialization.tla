------------------------- MODULE RecordSerialization ------------------------
(* The tree writers at work: a client that makes arbitrary calls              *)
(* (TreeWriterClient), and the serializers, which write an object to a        *)
(* document and read the document into a new object or a tuple.  A step is    *)
(* one call of a writer.                                                      *)
EXTENDS TreeWriterClient, TupleWriter

CONSTANTS
    KeyClass,   \* the key class of each record class
    Objects,    \* the objects that are serialized
    Selections  \* the lists of fields that tuples select from each class

BsonSerializer == INSTANCE BsonRecordSerializer
JsonSerializer == INSTANCE JsonRecordSerializer

VARIABLES
    object,     \* the object being serialized, or Null for the client's run
    format,     \* the serializer that is used, "bson" or "json"
    stage,      \* what is going on: "client", "writing", "reading", "selecting", "done"
    pending,    \* the calls that the serializer still makes
    writer,     \* the BsonWriterImpl or JsonWriterImpl
    loaded,     \* the DataWriterImpl that the document is read into
    tuple       \* the TupleWriterImpl that it is read into

serializerVars == <<object, format, stage, pending, writer, loaded, tuple>>
vars == <<clientVars, serializerVars>>

NoReader == NewDataWriter(<<>>)

Init ==
    /\ ClientInit
    /\ \/ object = Null /\ format = "" /\ stage = "client" /\ pending = <<>> /\ writer = Bson!NewBsonWriter
       \/ /\ object \in Objects
          /\ stage = "writing"
          /\ \/ format = "bson" /\ writer = Bson!NewBsonWriter /\ pending = BsonSerializer!serialize(object)
             \/ format = "json" /\ writer = Json!NewJsonWriter /\ pending = JsonSerializer!serialize(object)
    /\ loaded = NoReader
    /\ tuple = NewTupleWriter(<<>>)

ArbitraryCall == stage = "client" /\ ClientNext /\ UNCHANGED serializerVars

\* The calls of serialize(writer, value).
WriteCall ==
    /\ stage = "writing" /\ pending # <<>> /\ ~writer.exception
    /\ writer' = IF format = "bson" THEN Bson!Call(writer, Head(pending))
                                    ELSE Json!Call(writer, Head(pending))
    /\ pending' = Tail(pending)
    /\ UNCHANGED <<clientVars, object, format, stage, loaded, tuple>>

\* The document is complete.
Written == stage = "writing" /\ pending = <<>> /\ ~writer.exception
document == IF format = "bson" THEN Bson!view(writer) ELSE Json!to_string(writer)

\* deserialize creates an instance of the class that the document names.
StartRead ==
    LET calls == IF format = "bson" THEN BsonSerializer!deserialize(document)
                                    ELSE JsonSerializer!deserialize(document)
    IN  /\ Written /\ document[1] = "document"
        /\ stage' = "reading"
        /\ pending' = calls
        /\ loaded' = IF Len(calls) = 1 THEN NoReader ELSE NewDataWriter(<<Instance(calls[1][2])>>)
        /\ UNCHANGED <<clientVars, object, format, writer, tuple>>

ReadCall ==
    /\ stage = "reading" /\ pending # <<>> /\ ~loaded.exception
    /\ loaded' = Call(loaded, Head(pending))
    /\ pending' = Tail(pending)
    /\ UNCHANGED <<clientVars, object, format, stage, writer, tuple>>

\* A query with a select list reads the same document, projected to the selected
\* fields and _id, into a tuple.
Projected(props) ==
    <<"document", SelectSeq(document[2], LAMBDA element :
        element[1] = "_id" \/ \E i \in DOMAIN props : props[i].name = element[1])>>
StartSelect ==
    /\ stage = "reading" /\ format = "bson" /\ (pending = <<>> \/ loaded.exception)
    /\ \E props \in Selections[object[2]] :
          /\ stage' = "selecting"
          /\ pending' = BsonSerializer!deserialize_tuple(Projected(props))
          /\ tuple' = NewTupleWriter(props)
    /\ UNCHANGED <<clientVars, object, format, writer, loaded>>

SelectCall ==
    /\ stage = "selecting" /\ pending # <<>> /\ ~tuple.exception
    /\ tuple' = TupleCall(tuple, Head(pending))
    /\ pending' = Tail(pending)
    /\ UNCHANGED <<clientVars, object, format, stage, writer, loaded>>

Next == ArbitraryCall \/ WriteCall \/ StartRead \/ ReadCall \/ StartSelect \/ SelectCall
Spec == Init /\ [][Next]_vars

------------------------------------------------------------------------------
(* Properties of the serializers.                                             *)

\* What a value becomes when it is stored and read: a time keeps its time of day, and
\* an object is compared by class and fields, a key too.
RECURSIVE Same(_, _)
Same(a, b) ==
    CASE a[1] \in {"data", "key"} ->
            /\ b[1] \in {"data", "key"} /\ a[2] = b[2]
            /\ \A n \in DOMAIN a[3] : Same(a[3][n], b[3][n])
      [] a[1] = "list" ->
            b[1] = "list" /\ Len(a[2]) = Len(b[2]) /\ \A i \in DOMAIN a[2] : Same(a[2][i], b[2][i])
      [] a[1] = "time" -> b[1] = "time" /\ compare_times(a[2], b[2]) = 0
      [] OTHER -> a = b

\* Values that documents can not bring back.
RECURSIVE Readable(_, _)
Readable(type, value) ==
    CASE value = Null -> TRUE
      [] value[1] = "list" ->
            /\ value[2] # <<>>
            /\ \A i \in DOMAIN value[2] :
                  /\ Readable(type[2], value[2][i])
                  /\ ~(format = "bson" /\ value[2][i][1] = "datetime")
      [] value[1] = "long" ->
            ~(format = "json" /\ type[1] = "nullable" /\ value[2] \in {0, -1})
      [] value[1] \in {"oid", "bytes", "temporal_id"} -> format = "bson"
      [] value[1] = "data" ->
            \A i \in DOMAIN Fields[value[2]] :
                Fields[value[2]][i].is_key \/ Readable(Fields[value[2]][i].type, value[3][Fields[value[2]][i].name])
      [] OTHER -> TRUE

Read == stage = "reading" /\ pending = <<>> /\ ~loaded.exception

\* An object that was written and read without an exception is the same object.
NothingLostSilently == Read => Same(object, Loaded(loaded.heap, <<"ref", 1>>))

\* A record whose values documents can bring back is read back.  (A key alone can not
\* be written: the custom serializer calls write_start_value, which must be in an element.)
ReadableIsRead ==
    object[1] = "data" /\ Readable(<<"object">>, object) => ~writer.exception /\ ~loaded.exception

\* A tuple can hold a field of the object, but not a key, bytes or data with lists;
\* data is created as the class of the field, whatever class was written.  It needs an
\* item for the _id that the projection keeps.
Holds(field) ==
    LET value == object[3][field.name]
        Listless(part) == part = Null \/ \A n \in DOMAIN part[3] : part[3][n][1] # "list"
    IN  /\ field.type[1] \notin {"key", "bytes"}
        /\ value[1] = "data" => value[2] = field.type[2] /\ Listless(value)
        /\ value[1] = "list" /\ field.type[2][1] = "data" => \A i \in DOMAIN value[2] : Listless(value[2][i])
Selectable ==
    /\ "_id" \in DOMAIN object[3] => \E i \in DOMAIN tuple.props : tuple.props[i].name = "_id"
    /\ \A i \in DOMAIN tuple.props : Holds(tuple.props[i])

\* The tuple of a select list has the fields of the object, as the object that is read
\* from the same document does; one writer follows the other's conversions by hand.
TupleIsSelection ==
    stage = "selecting" =>
        /\ Selectable /\ ~loaded.exception => ~tuple.exception
        /\ pending = <<>> /\ ~tuple.exception =>
              \A i \in DOMAIN tuple.items : Holds(tuple.props[i]) =>
                  Same(object[3][tuple.props[i].name], Loaded(tuple.data_writer.heap, tuple.items[i]))
=============================================================================
