----------------------------- MODULE TreeWriter -----------------------------
(* What the tree writers share (dot/serialization/tree_writer_base.hpp): the  *)
(* states, the state transition matrix every writer checks, the composite     *)
(* calls, and a model of the library builders that BSON and JSON go to.       *)
(*                                                                            *)
(* A call of a writer is a tuple: the method's name and its argument.  A      *)
(* value is a tuple that starts with its type; <<"null">> is an empty Object. *)
EXTENDS Sequences, SequencesExt

TreeWriterState ==
    {"empty", "document_started", "document_completed", "element_started", "element_completed",
     "array_started", "array_completed", "array_item_started", "array_item_completed",
     "dict_started", "dict_completed", "dict_array_item_started", "dict_array_item_completed",
     "value_started", "value_written", "value_completed",
     "value_array_item_started", "value_array_item_written", "value_array_item_completed"}

Null == <<"null">>

\* The transition matrix: for each method, the states it may follow and the state
\* it leads to.  The matrix of every writer is this one, except that DataWriter
\* has its own for the end of a document and of an array.
StartElementMoves ==
    [s \in {"document_started", "element_completed", "dict_started", "dict_array_item_started"}
        |-> "element_started"]
EndElementMoves ==
    [s \in {"element_started", "dict_completed", "value_completed", "array_completed"}
        |-> "element_completed"]
StartDictMoves ==
    [s \in {"document_started", "element_started", "array_item_started"} |->
        IF s = "array_item_started" THEN "dict_array_item_started" ELSE "dict_started"]
EndDictMoves ==
    [s \in {"dict_started", "dict_array_item_started", "element_completed"} |->
        IF s = "dict_array_item_started" THEN "dict_array_item_completed" ELSE "dict_completed"]
StartArrayMoves == [s \in {"element_started"} |-> "array_started"]
EndArrayMoves == [s \in {"array_started", "array_item_completed"} |-> "array_completed"]
StartArrayItemMoves == [s \in {"array_started", "array_item_completed"} |-> "array_item_started"]
EndArrayItemMoves ==
    [s \in {"array_item_started", "dict_array_item_completed", "value_array_item_completed"}
        |-> "array_item_completed"]
StartValueMoves ==
    [s \in {"element_started", "array_item_started"} |->
        IF s = "element_started" THEN "value_started" ELSE "value_array_item_started"]
WriteValueMoves ==
    [s \in {"value_started", "value_array_item_started"} |->
        IF s = "value_started" THEN "value_written" ELSE "value_array_item_written"]
EndValueMoves ==
    [s \in {"value_written", "value_array_item_written"} |->
        IF s = "value_written" THEN "value_completed" ELSE "value_array_item_completed"]

\* The exception leaves the method where it is thrown; callers never catch it.
Throw(w) == [w EXCEPT !.exception = TRUE]
Move(w, moves) ==
    IF w.exception THEN w
    ELSE IF w.state \in DOMAIN moves THEN [w EXCEPT !.state = moves[w.state]]
    ELSE Throw(w)

\* The composite calls, as the calls they make.
start_array_element(name) == <<<<"start_element", name>>, <<"start_array">>>>
end_array_element(name) == <<<<"end_array">>, <<"end_element", name>>>>
value_calls(value) == <<<<"start_value">>, <<"write_value", value>>, <<"end_value">>>>
value_element(name, value) ==
    IF value = Null THEN <<>>
    ELSE <<<<"start_element", name>>>> \o value_calls(value) \o <<<<"end_element", name>>>>
value_array_item(value) ==
    <<<<"start_array_item">>>> \o value_calls(value) \o <<<<"end_array_item">>>>

------------------------------------------------------------------------------
(* The builders of bsoncxx and rapidjson: the documents and arrays being      *)
(* built, the innermost last.  Both have a root that holds whole documents.   *)
(* A call that would break the tree is refused.                               *)

NoKey == ""
Frame(kind) == [kind |-> kind, items |-> <<>>, key |-> NoKey]
NewBuilder == [frames |-> <<Frame("array")>>, refused |-> FALSE]

Innermost(b) == Last(b.frames)
\* A value fits an array, and a document that waits for the value of a key.
Accepts(b) == Innermost(b).kind = "array" \/ Innermost(b).key # NoKey
Refuse(b) == [b EXCEPT !.refused = TRUE]

\* The frames with a value added to the innermost.
Appended(frames, value) ==
    LET top == Last(frames)
        item == IF top.kind = "array" THEN value ELSE <<top.key, value>>
    IN  Append(Front(frames), [top EXCEPT !.items = Append(@, item), !.key = NoKey])

BuilderKey(b, name) ==
    IF Innermost(b).kind = "array" \/ Innermost(b).key # NoKey THEN Refuse(b)
    ELSE [b EXCEPT !.frames = Append(Front(@), [Last(@) EXCEPT !.key = name])]
BuilderValue(b, value) ==
    IF Accepts(b) THEN [b EXCEPT !.frames = Appended(@, value)] ELSE Refuse(b)
BuilderOpen(b, kind) ==
    IF Accepts(b) THEN [b EXCEPT !.frames = Append(@, Frame(kind))] ELSE Refuse(b)
BuilderClose(b, kind) ==
    IF Innermost(b).kind # kind \/ Innermost(b).key # NoKey \/ Len(b.frames) = 1 THEN Refuse(b)
    ELSE [b EXCEPT !.frames = Appended(Front(@), <<kind, Innermost(b).items>>)]

\* The documents completed so far.
Documents(b) == b.frames[1].items
=============================================================================
