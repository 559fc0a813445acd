------------------------------ MODULE RecordKey -----------------------------
(* The string form of a key (dc/types/record/key.cpp).  A string is the       *)
(* sequence of its tokens, which semicolons separate: the empty string is one *)
(* empty token, and a string with a semicolon in it has two or more.          *)
EXTENDS RecordTypes, Integers, SequencesExt, TLC

CONSTANT MaxToken   \* bound: the largest number a token spells

NoToken == ""
Failed == <<"exception">>

\* std::stoi and TemporalId's parser, and the printers they undo.
TokenOfInt(i) == ToString(i)
TokenOfId(i) == "id" \o ToString(i)
IntsSpelled(token) == {i \in 0 .. MaxToken : ToString(i) = token}
IdsSpelled(token) == {i \in 0 .. MaxToken : TokenOfId(i) = token}

\* to_string of an atomic element.
Printed(value) ==
    CASE value[1] = "string" -> value[2]
      [] value[1] = "int" -> <<TokenOfInt(value[2])>>
      [] value[1] = "temporal_id" -> <<TokenOfId(value[2])>>
      [] value[1] = "enum" -> <<value[3]>>
      [] OTHER -> <<ToString(value[2])>>

RECURSIVE key_to_string(_, _)
\* An empty sub-key is printed as a newly created key.
key_to_string(class, elements) ==
    LET Element(i) ==
            LET field == Fields[class][i]
                value == elements[field.name]
            IN  IF value[1] = "key" THEN key_to_string(value[2], value[3])
                ELSE IF value # <<"null">> THEN Printed(value)
                ELSE IF field.type[1] = "key"
                THEN key_to_string(field.type[2], default_fields(field.type[2]))
                ELSE <<NoToken>>
    IN  FoldLeftDomain(LAMBDA acc, i : acc \o Element(i), <<>>, Fields[class])

\* One element from one token; an element whose token is missing or
\* empty is left alone.
Parsed(type, token) ==
    CASE token = NoToken -> default_value(type)
      [] token # NoToken /\ type \in {<<"int">>, <<"nullable", "int">>} ->
            IF IntsSpelled(token) = {} THEN Failed
            ELSE <<"int", CHOOSE i \in IntsSpelled(token) : TRUE>>
      [] token # NoToken /\ type = <<"string">> -> <<"string", <<token>>>>
      [] token # NoToken /\ type = <<"temporal_id">> ->
            IF IdsSpelled(token) = {} THEN Failed
            ELSE <<"temporal_id", CHOOSE i \in IdsSpelled(token) : TRUE>>
      [] OTHER -> Failed

RECURSIVE populate_from(_, _)
\* The key read from the head of a stream of tokens, and the tokens that are left;
\* tokens after the last element are ignored.
populate_from(class, tokens) ==
    LET Step(acc, i) ==
            LET field == Fields[class][i]
                sub == populate_from(field.type[2], acc.rest)
                token == IF acc.rest = <<>> THEN NoToken ELSE Head(acc.rest)
                value == Parsed(field.type, token)
            IN  IF acc.failed THEN acc
                ELSE IF field.type[1] = "key"
                THEN [elements |-> acc.elements @@ (field.name :> <<"key", field.type[2], sub.elements>>),
                      rest |-> sub.rest, failed |-> sub.failed]
                ELSE [elements |-> acc.elements @@ (field.name :> value),
                      rest |-> IF acc.rest = <<>> THEN <<>> ELSE Tail(acc.rest),
                      failed |-> value = Failed]
        start == [elements |-> <<>>, rest |-> tokens, failed |-> FALSE]
    IN  FoldLeftDomain(Step, start, Fields[class])

\* Key::serialize writes the string, Key::deserialize reads it.
serialize_key(class, elements) == <<"string", key_to_string(class, elements)>>
deserialize_key(value, class) ==
    CASE value[1] = "key" -> value
      [] value[1] = "string" ->
            LET read == populate_from(class, value[2])
            IN  IF read.failed THEN Failed ELSE <<"key", class, read.elements>>
      [] OTHER -> Failed
=============================================================================
