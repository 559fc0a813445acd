----------------------------- MODULE TupleWriter ----------------------------
(* TupleWriterImpl: the tree writer that fills the items of a tuple, one per  *)
(* selected field.  Lists and embedded classes are left to a DataWriter that  *)
(* lives as long as the element.                                              *)
EXTENDS DataWriter

\* props are the selected fields; the tuple has an item of the type of each.
\* index_of_current is not initialized by the constructor; it is set before any
\* use, by the first element.
NewTupleWriter(props) ==
    [props |-> props, items |-> [i \in DOMAIN props |-> default_value(props[i].type)],
     index_of_current |-> 0, active |-> FALSE, data_writer |-> NewDataWriter(<<>>),
     exception |-> FALSE]

\* The data writer's exceptions are the tuple writer's.
Delegated(t, d) == [t EXCEPT !.data_writer = d, !.exception = @ \/ d.exception]
Forward(t, c) == IF t.active THEN Delegated(t, Call(t.data_writer, c)) ELSE t

set_item(t, value) ==
    LET i == t.index_of_current
    IN  IF value # Failed /\ Assignable(t.data_writer.heap, t.props[i].type, value)
        THEN [t EXCEPT !.items[i] = value] ELSE Throw(t)

HasFields(type) == type[1] \in {"data", "key"} /\ Fields[type[2]] # <<>>

\* A data writer that stands inside an element, in front of its array.  It adds the
\* array to an outer list that nobody keeps.
ListWriter(heap, prop) ==
    LET outer == Append(heap, NewList(<<"object">>))
    IN  [NewDataWriter(<<>>) EXCEPT !.heap = outer, !.info = prop, !.element_name = prop.name,
                                    !.state = "element_started", !.array = Len(outer)]

\* A data writer of a new object, at the start of its document.
ObjectWriter(heap, class) ==
    LET extended == Append(heap, Instance(class))
    IN  write_start_document(
            [NewDataWriter(<<>>) EXCEPT !.heap = extended, !.dict = Len(extended)], class)

StartElement(t, element_name) ==
    LET named == {i \in DOMAIN t.props : t.props[i].name = element_name}
        i == CHOOSE j \in named : \A k \in named : j <= k
        heap == t.data_writer.heap
        at == [t EXCEPT !.index_of_current = i]
        writer == ObjectWriter(heap, t.props[i].type[2])
    IN  IF t.active THEN Forward(t, <<"start_element", element_name>>)
        ELSE IF named = {} THEN Throw(t)
        ELSE IF t.props[i].type[1] = "list"
        THEN [at EXCEPT !.active = TRUE, !.data_writer = ListWriter(heap, t.props[i])]
        ELSE IF HasFields(t.props[i].type)
        THEN [at EXCEPT !.active = TRUE, !.data_writer = writer, !.items[i] = <<"ref", writer.dict>>]
        ELSE at

\* The object is complete when its writer is back at the start of the document.
\* Mutant: the writer of the object is kept.
EndDictKept(t, type_name) == Forward(t, <<"end_dict", type_name>>)
EndDict(t, type_name) ==
    LET ended == Forward(t, <<"end_dict", type_name>>)
    IN  IF t.active /\ ended.data_writer.state = "document_started"
        THEN [ended EXCEPT !.active = FALSE] ELSE ended

\* Every array that ends, a nested one too, becomes the item.
EndArray(t) ==
    LET array == t.data_writer.array
        set == set_item(t, IF array = NoObject THEN Null ELSE <<"ref", array>>)
        ended == Forward(set, <<"end_array">>)
    IN  IF ~t.active THEN t
        ELSE IF ended.exception THEN ended ELSE [ended EXCEPT !.active = FALSE]

\* The conversions are those of the data writer, but for ByteArray.
WriteValue(t, value) ==
    LET type == t.props[t.index_of_current].type
    IN  IF t.active THEN Forward(t, <<"write_value", value>>)
        ELSE IF value = Null THEN t
        ELSE IF type = <<"bytes">> THEN Throw(t)
        ELSE set_item(t, Converted(type, value))

TupleCall(t, c) ==
    IF t.exception THEN t
    ELSE CASE c[1] \in {"start_document", "end_document"} -> t
           [] c[1] = "start_element" -> StartElement(t, c[2])
           [] c[1] = "end_dict" -> EndDict(t, c[2])
           [] c[1] = "end_array" -> EndArray(t)
           [] c[1] = "write_value" -> WriteValue(t, c[2])
           [] c[1] = "throw" -> Throw(t)
           [] OTHER -> Forward(t, c)
=============================================================================
