--------------------------- MODULE FilterTokens ----------------------------
(* The filters of a query: expressions over make_prop(...) that build tokens, *)
(* and the documents a serialized token matches.  The lists of && and || are  *)
(* shared and changed in place, and a property chain is moved when extended.  *)
EXTENDS BsonWriter

CONSTANTS
    Collection,     \* the documents: functions from the paths of elements to the values of fields
    Element,        \* names of properties
    Conditions,     \* for each path of a field, the operators and values it is compared by
    PropVar,
    MaxTokens, MaxFilterCalls

VARIABLES
    props,          \* the chain of each PropVar
    tokens,         \* the tokens on the heap
    held,           \* the tokens that variables refer to, with their static types
    filterCalls

filterVars == <<props, tokens, held, filterCalls>>

(* A chain: its names, whether it is a PropsList, the names that the          *)
(* expression wrote, and whether the program may still use the variable.      *)
Chain(names, is_list) == [names |-> names, is_list |-> is_list, wrote |-> names, usable |-> TRUE]
NoChain == [names |-> <<>>, is_list |-> FALSE, wrote |-> <<>>, usable |-> FALSE]

\* The names are those of fields that lead to fields: the compiler checks the classes.
IsChain(names) == \E path \in DOMAIN Conditions : IsPrefix(names, path)

FilterInit ==
    /\ props = [p \in PropVar |-> NoChain]
    /\ tokens = <<>> /\ held = <<>> /\ filterCalls = 0

CallFilter == filterCalls < MaxFilterCalls /\ filterCalls' = filterCalls + 1

\* make_prop(&Class::field)
MakeProp ==
    \E p \in PropVar, name \in Element :
        /\ CallFilter
        /\ IsChain(<<name>>)
        /\ props' = [props EXCEPT ![p] = Chain(<<name>>, FALSE)]
        /\ UNCHANGED <<tokens, held>>

\* p->*prop: the names of a PropsList are swapped into the result, so the program may not
\* use it again; a PropWrapper keeps its name.
ExtendProp ==
    \E p, q \in PropVar, name \in Element :
        LET extended == [names |-> Append(props[p].names, name), is_list |-> TRUE,
                         wrote |-> Append(props[p].wrote, name), usable |-> TRUE]
            left == IF props[p].is_list THEN [props[p] EXCEPT !.names = <<>>, !.usable = FALSE]
                    ELSE props[p]
        IN  /\ CallFilter
            /\ p # q /\ props[p].usable /\ IsChain(extended.wrote)
            /\ props' = [props EXCEPT ![p] = left, ![q] = extended]
            /\ UNCHANGED <<tokens, held>>

------------------------------------------------------------------------------
(* What an expression means, by the values of the fields ...                  *)

Comparison == {"$eq", "$ne", "$lt", "$lte", "$gt", "$gte"}
ValueLess(v, w) ==
    CASE v[1] = "date" -> DateGreater(w[2], v[2])
      [] v[1] = "minute" -> compare_minutes(v[2], w[2]) = -1
      [] v[1] = "datetime" -> DateTimeGreater(w[2], v[2])
      [] v[1] \in {"int", "temporal_id"} -> v[2] < w[2]
      [] OTHER -> FALSE
Satisfies(op, v, w, less) ==
    CASE op = "$eq" -> v = w
      [] op = "$ne" -> v # w
      [] op = "$lt" -> less
      [] op = "$lte" -> less \/ v = w
      [] op = "$gt" -> ~less /\ v # w
      [] op = "$gte" -> ~less
\* An element that is missing satisfies $ne alone.
Means(op, path, w) ==
    {d \in Collection : IF path \in DOMAIN d THEN Satisfies(op, d[path], w, ValueLess(d[path], w))
                       ELSE op = "$ne"}
MeansIn(path, ws) == {d \in Collection : path \in DOMAIN d /\ \E i \in DOMAIN ws : d[path] = ws[i]}

(* ... and by the stored documents and the serialized tokens.                 *)

\* The type with a serializer of its own is converted first; the rest is written type by type.
append_token(value) ==
    CASE value[1] = "temporal_id" -> <<"oid", value[2]>>
      [] value[1] = "date" -> <<"int", date_to_iso_int(value[2])>>
      [] value[1] = "time" -> <<"int", time_to_iso_int(value[2])>>
      [] value[1] = "minute" -> <<"int", minute_to_iso_int(value[2])>>
      [] value[1] = "datetime" -> <<"milliseconds", to_std_chrono(value[2])>>
      [] value[1] = "enum" -> <<"string", <<value[3]>>>>
      [] OTHER -> value
Stored(value) == IF value[1] = "temporal_id" THEN <<"oid", value[2]>> ELSE BsonValue(value)

\* The order of the server, within a type.
BsonLess(v, w) ==
    CASE v[1] # w[1] -> FALSE
      [] v[1] \in {"int", "oid"} -> v[2] < w[2]
      [] v[1] = "milliseconds" -> Later(w[2], v[2])
      [] OTHER -> FALSE
Matches(token, d) ==
    LET stored == IF token.path \in DOMAIN d THEN Stored(d[token.path]) ELSE Null
    IN  IF stored = Null THEN token.op = "$ne"
        ELSE IF token.op = "$in" THEN \E i \in DOMAIN token.rhs : stored = append_token(token.rhs[i])
        ELSE LET rhs == append_token(token.rhs) IN Satisfies(token.op, stored, rhs, BsonLess(stored, rhs))

\* serialize_tokens: the documents that the server matches.
RECURSIVE serialize_tokens(_)
serialize_tokens(id) ==
    LET token == tokens[id]
        listed == [i \in DOMAIN token.values_list |-> serialize_tokens(token.values_list[i])]
    IN  CASE token.tag = "operator" -> {d \in Collection : Matches(token, d)}
          [] token.tag = "and" -> {d \in Collection : \A i \in DOMAIN listed : d \in listed[i]}
          [] token.tag = "or" -> {d \in Collection : \E i \in DOMAIN listed : d \in listed[i]}

------------------------------------------------------------------------------
(* The operators.                                                             *)

Operator(path, op, rhs) == [tag |-> "operator", path |-> path, op |-> op, rhs |-> rhs, values_list |-> <<>>]
TokenList(tag, ids) == [tag |-> tag, path |-> <<>>, op |-> "", rhs |-> Null, values_list |-> ids]
Variable(id, type, means) == [id |-> id, type |-> type, means |-> means, usable |-> TRUE]
NewToken(token, means) ==
    /\ Len(tokens) < MaxTokens
    /\ tokens' = Append(tokens, token)
    /\ held' = Append(held, Variable(Len(tokens) + 1, token.tag, means))
    /\ UNCHANGED props

\* prop == v and the other comparisons of PropWrapper and PropsList.
Compare ==
    \E p \in PropVar :
        /\ CallFilter
        /\ props[p].usable /\ props[p].wrote \in DOMAIN Conditions
        /\ \E c \in Conditions[props[p].wrote] :
              /\ c[1] \in Comparison
              /\ NewToken(Operator(props[p].names, c[1], c[2]), Means(c[1], props[p].wrote, c[2]))
\* prop.in({...})
In ==
    \E p \in PropVar :
        /\ CallFilter
        /\ props[p].usable /\ props[p].wrote \in DOMAIN Conditions
        /\ \E c \in Conditions[props[p].wrote] :
              /\ c[1] = "$in"
              /\ NewToken(Operator(props[p].names, "$in", c[2]), MeansIn(props[p].wrote, c[2]))

\* Mutant: a list on the right is not extended.
RightUnextended(tag, l, r) ==
    CASE l.type = tag -> <<l.id, Append(tokens[l.id].values_list, r.id)>>
      [] OTHER -> <<r.id, tokens[r.id].values_list>>
\* The list whose static type is the operator's own is extended in place.
Extended(tag, l, r) ==
    CASE l.type = tag -> <<l.id, Append(tokens[l.id].values_list, r.id)>>
      [] OTHER -> <<r.id, Append(tokens[r.id].values_list, l.id)>>

\* A variable of a list that became part of another, or that was extended, refers to
\* something else now; the program may not use it again.
GivenUp(ids) ==
    [i \in DOMAIN held |-> [held[i] EXCEPT !.usable = @ /\ ~(held[i].id \in ids /\ tokens[held[i].id].tag # "operator")]]

\* l && r and l || r.  Two lists of the operator's own static type are ambiguous.
Combine ==
    \E tag \in {"and", "or"}, i, j \in DOMAIN held :
        LET l == held[i]
            r == held[j]
            means == IF tag = "and" THEN l.means \cap r.means ELSE l.means \cup r.means
        IN  /\ CallFilter
            /\ l.usable /\ r.usable /\ l.id # r.id /\ ~(l.type = tag /\ r.type = tag)
            /\ IF tag \in {l.type, r.type}
               THEN LET list == Extended(tag, l, r)
                    IN  /\ tokens' = [tokens EXCEPT ![list[1]].values_list = list[2]]
                        /\ held' = Append(GivenUp({l.id, r.id}), Variable(list[1], tag, means))
               ELSE /\ Len(tokens) < MaxTokens
                    /\ tokens' = Append(tokens, TokenList(tag, <<l.id, r.id>>))
                    /\ held' = Append(GivenUp({l.id, r.id}), Variable(Len(tokens) + 1, tag, means))
            /\ UNCHANGED props
\* FilterTokenBase b = l
ToBase ==
    \E i \in DOMAIN held :
        /\ CallFilter
        /\ held[i].usable /\ held[i].type \in {"and", "or"}
        /\ held' = Append(held, [held[i] EXCEPT !.type = "base"])
        /\ UNCHANGED <<props, tokens>>

FilterNext == MakeProp \/ ExtendProp \/ Compare \/ In \/ Combine \/ ToBase

------------------------------------------------------------------------------
\* A filter that the program still holds matches the documents that its expression, read as
\* a condition on the fields, is true of: the path is the chain that was written, the value
\* is compared in the form fields are stored in, and no list changed since.
FilterMeans == \A i \in DOMAIN held : held[i].usable => serialize_tokens(held[i].id) = held[i].means
=============================================================================
