---------------------------- MODULE BoxedValues -----------------------------
(* Values in a Nullable, boxed in an Object, in a Variant and its text, in a  *)
(* List of one type, and as the keys of a HashSet and a Dictionary, moved     *)
(* from one to another.                                                       *)
EXTENDS Naturals, Sequences, FiniteSets, SequencesExt

CONSTANTS
    Value,      \* the values of a type, as numbers; 0 is its default
    Empty,      \* the value of int, long and double that stands for none
    Nothing,    \* an empty optional, and the null Object
    Address,    \* where an object may be: positive numbers
    ListKind,   \* the T of the List
    MaxItems, MaxMoves


VARIABLES nullable, object, variant, list, hashSet, dictionary,
          wanted,   \* what the first four hold if every move keeps the value
          members,  \* what the HashSet and the Dictionary hold as a set and
          entries,  \* a function
          moves

places == <<nullable, object, variant, list>>
containers == <<hashSet, dictionary, members, entries>>
boxedVars == <<nullable, object, variant, list, hashSet, dictionary, wanted, members, entries, moves>>

\* Nullable<int>, Nullable<int64_t> and Nullable<double> keep a sentinel, Nullable<bool> a
\* number of its own, and the others an optional.
IntNullable == [empty |-> Empty]
LongNullable == [empty |-> Empty]
DoubleNullable == [empty |-> Empty]
BoolNullable == [empty |-> Nothing]
Optional == [empty |-> Nothing]
NullableClass ==
    [int |-> IntNullable, int64_t |-> LongNullable, double |-> DoubleNullable, bool |-> BoolNullable,
     LocalMinute |-> Optional, LocalDate |-> Optional]
Types == DOMAIN NullableClass
Sentinels == {kind \in Types : NullableClass[kind].empty = Empty}
\* LocalDate, LocalTime and LocalDateTime have equals and no hash_code.
HashedByAddress == {"LocalDate"}
\* The values used of a type. The double 1 is less than the tolerance; the String 0 is empty.
Native(kind) ==
    IF kind \in {"int", "double"} THEN Value
    ELSE IF kind = "int64_t" THEN {0, Empty} ELSE {0, 1}

------------------------------------------------------------------------------
(* Nullable.                                                                  *)

NullOf(kind) == [kind |-> kind, raw |-> NullableClass[kind].empty]
NullableOf(kind, v) == [kind |-> kind, raw |-> v]
HasValue(n) == n # NullOf(n.kind)

(* Object.                                                                    *)

Boxed(kind, v, address) == [kind |-> kind, value |-> v, address |-> address]
\* Only where hash_code is the address does the address of an object matter.
Box(kind, v) == {Boxed(kind, v, a) : a \in IF kind \in HashedByAddress THEN Address ELSE {0}}
\* Mutant: an empty Nullable is boxed as the default value.
BoxDefault(n) == Box(n.kind, IF HasValue(n) THEN n.raw ELSE 0)
\* Object(const Nullable<T>&)
BoxNullable(n) == IF HasValue(n) THEN Box(n.kind, n.raw) ELSE {Nothing}

\* The conversion to T dereferences the object after a dynamic cast.
Unboxes(o, kind) == o # Nothing /\ o.kind = kind
\* explicit Nullable(Object); an object of another type is an error.
Unboxed(o, kind) ==
    IF o = Nothing THEN {NullOf(kind)}
    ELSE IF Unboxes(o, kind) THEN {NullableOf(kind, o.value)} ELSE {}

(* equals and hash_code: a boxed value equals one of its type and value.      *)

\* Mutant: the type of the other object is not asked for.
EqualsAcrossTypes(a, b) == a.value = b.value
Equals(a, b) == a.kind = b.kind /\ a.value = b.value
\* An int, a bool and an enum of one number have one hash code.
HashCode(o) == IF o.kind \in HashedByAddress THEN <<"address", o.address>> ELSE <<"value", o.value>>
\* What an unordered container of the library finds for a key; a null key is an error.
Find(key, keys) == {e \in keys : HashCode(e) = HashCode(key) /\ Equals(key, e)}

(* Variant: nothing, or an object of one of its types.                        *)

ValueTypes == {"String", "double", "bool", "int", "int64_t", "LocalDate", "LocalMinute"}
\* The text of a double has six decimals; the object keeps its address.
ToText(v) == IF v = Nothing THEN Nothing ELSE IF v.kind = "double" /\ v.value = 1 THEN [v EXCEPT !.value = 0] ELSE v
\* Variant::parse: an empty text is no value, whatever the type.
Parsed(text, kind) == IF text = Nothing \/ (text.kind = "String" /\ text.value = 0) THEN {Nothing} ELSE Box(kind, text.value)
\* Doubles by tolerance, the rest by type and value; the other one is asked for its type
\* though it may be null, which throws.
VariantEquals(a, b) ==
    IF a = Nothing THEN b = Nothing
    ELSE a.kind = b.kind /\ (a.value = b.value \/ (a.kind = "double" /\ {a.value, b.value} = {0, 1}))

------------------------------------------------------------------------------
Objects == UNION {Box(kind, v) : kind \in Types \cup {"String"}, v \in Value}

\* Nothing is none of the values, boxed or not.
ASSUME ValueAssumption ==
    /\ {0, 1, Empty} \subseteq Value
    /\ ListKind \in Types \cup {"String"}
    /\ Nothing \notin Value /\ Nothing \notin Objects
    /\ Nothing \notin [kind : Types \cup {"String"}, value : Value]

\* What an entry is to those who look for it: a value, or one object.
Item(o) == IF o.kind \in HashedByAddress THEN o ELSE [kind |-> o.kind, value |-> o.value]
Val(o) == IF o = Nothing THEN Nothing ELSE [kind |-> o.kind, value |-> o.value]
Content(n) == IF HasValue(n) THEN [kind |-> n.kind, value |-> n.raw] ELSE Nothing

ValuesBoxed ==
    /\ nullable = NullOf("int") /\ object = Nothing /\ variant = Nothing /\ list = <<>>
    /\ hashSet \in {{}, Box("int", 0) \cup Box("bool", 0)} /\ dictionary = <<>>
    /\ wanted = [nullable |-> Nothing, object |-> Nothing, variant |-> Nothing, list |-> <<>>]
    /\ members = {Item(o) : o \in hashSet} /\ entries = <<>>

Moves == moves < MaxMoves /\ moves' = moves + 1
\* A new object is not where another one is.
Placed(objects) ==
    {o \in objects : o = Nothing \/ o.address = 0 \/
                      \A e \in hashSet \cup DOMAIN dictionary : e.address # o.address}

\* A Nullable of the sentinel is empty.
LessSentinel(item) ==
    IF item # Nothing /\ item.kind \in Sentinels /\ item.value = Empty THEN Nothing ELSE item

\* n = v, where the sentinel stands for no value; and Nullable().
AssignNullable ==
    \E kind \in Types : \E v \in Native(kind) \cup {Nothing} :
        LET n == IF v = Nothing THEN NullOf(kind) ELSE NullableOf(kind, v) IN
        /\ Moves
        /\ nullable' = n
        /\ wanted' = [wanted EXCEPT !.nullable =
                         IF v = Nothing THEN Nothing ELSE LessSentinel([kind |-> kind, value |-> v])]
        /\ UNCHANGED <<object, variant, list, containers>>
BoxFromNullable ==
    /\ Moves
    /\ object' \in Placed(BoxNullable(nullable))
    /\ wanted' = [wanted EXCEPT !.object = wanted.nullable]
    /\ UNCHANGED <<nullable, variant, list, containers>>
UnboxToNullable ==
    /\ Moves
    /\ \E kind \in Types :
          /\ nullable' \in Unboxed(object, kind)
          /\ wanted' = [wanted EXCEPT !.nullable = LessSentinel(wanted.object)]
    /\ UNCHANGED <<object, variant, list, containers>>
\* o = v, or a reference to an object that a container holds.
AssignObject ==
    \E kind \in Types \cup {"String"} : \E v \in Native(kind) :
        /\ Moves
        /\ object' \in Placed(Box(kind, v)) \cup (Box(kind, v) \cap (hashSet \cup DOMAIN dictionary))
        /\ wanted' = [wanted EXCEPT !.object = [kind |-> kind, value |-> v]]
        /\ UNCHANGED <<nullable, variant, list, containers>>

\* Variant(Object) and value().
MakeVariant ==
    /\ Moves
    /\ variant' = IF object # Nothing /\ object.kind \in ValueTypes THEN object ELSE Nothing
    /\ wanted' = [wanted EXCEPT !.variant = wanted.object]
    /\ UNCHANGED <<nullable, object, list, containers>>
TakeVariant ==
    /\ Moves
    /\ object' = variant
    /\ wanted' = [wanted EXCEPT !.object = wanted.variant]
    /\ UNCHANGED <<nullable, variant, list, containers>>
\* Through to_string and parse, for the type it has.
ReparseVariant ==
    \E kind \in {k \in ValueTypes : variant = Nothing \/ variant.kind = k} :
        /\ Moves
        /\ variant' \in Placed(Parsed(ToText(variant), kind))
        /\ wanted' = [wanted EXCEPT !.variant =
                         IF @ # Nothing /\ @.kind = "String" /\ @.value = 0 THEN Nothing
                         ELSE IF @ # Nothing /\ @.kind = "double" /\ @.value = 1 THEN [@ EXCEPT !.value = 0] ELSE @]
        /\ UNCHANGED <<nullable, object, list, containers>>

(* ListImpl by its virtual methods, which unbox and box.                      *)
AddObject ==
    /\ Moves
    /\ Len(list) < MaxItems /\ Unboxes(object, ListKind)
    /\ list' = Append(list, object.value)
    /\ wanted' = [wanted EXCEPT !.list = Append(@, wanted.object)]
    /\ UNCHANGED <<nullable, object, variant, containers>>
SetItem ==
    \E i \in DOMAIN list :
        /\ Moves
        /\ Unboxes(object, ListKind)
        /\ list' = [list EXCEPT ![i] = object.value]
        /\ wanted' = [wanted EXCEPT !.list = [@ EXCEPT ![i] = wanted.object]]
        /\ UNCHANGED <<nullable, object, variant, containers>>
GetItem ==
    \E i \in DOMAIN list :
        /\ Moves
        /\ object' \in Placed(Box(ListKind, list[i]))
        /\ wanted' = [wanted EXCEPT !.object = wanted.list[i]]
        /\ UNCHANGED <<nullable, variant, list, containers>>
\* The first item that is equal.
RemoveFromList ==
    \E v \in Native(ListKind) :
        /\ Moves
        /\ list' = RemoveFirst(list, v)
        /\ wanted' = [wanted EXCEPT !.list = RemoveFirst(@, [kind |-> ListKind, value |-> v])]
        /\ UNCHANGED <<nullable, object, variant, containers>>

(* HashSetImpl.                                                               *)
Inserted(keys, o) == IF Find(o, keys) = {} THEN keys \cup {o} ELSE keys
AddToSet ==
    /\ Moves
    /\ object # Nothing /\ Cardinality(hashSet) < MaxItems
    /\ hashSet' = Inserted(hashSet, object)
    /\ members' = members \cup {Item(object)}
    /\ UNCHANGED <<places, wanted, dictionary, entries>>
RemoveFromSet ==
    /\ Moves
    /\ object # Nothing
    /\ hashSet' = hashSet \ Find(object, hashSet)
    /\ members' = members \ {Item(object)}
    /\ UNCHANGED <<places, wanted, dictionary, entries>>
\* Sequences of objects, at addresses that the sets do not use.
Others == UNION {[1..n -> UNION {Box(kind, v) : kind \in Types \ HashedByAddress, v \in {0, 1}}] : n \in 0..2}
ItemsOf(other) == {Item(other[i]) : i \in DOMAIN other}
ExceptWith ==
    \E other \in Others :
        /\ Moves
        /\ hashSet' = hashSet \ UNION {Find(other[i], hashSet) : i \in DOMAIN other}
        /\ members' = members \ ItemsOf(other)
        /\ UNCHANGED <<places, wanted, dictionary, entries>>
\* The set is cleared and filled with the items of the list that it had, where one that
\* equals an earlier one is not added again.
IntersectWith ==
    \E other \in Others :
        LET left == {i \in DOMAIN other : Find(other[i], hashSet) # {}}
            added == {i \in left : Find(other[i], {other[j] : j \in {k \in left : k < i}}) = {}}
        IN
        /\ Moves
        /\ hashSet' = {other[i] : i \in added}
        /\ members' = members \cap ItemsOf(other)
        /\ UNCHANGED <<places, wanted, dictionary, entries>>

(* DictionaryImpl.                                                            *)
With(f, k, v) == [x \in DOMAIN f \cup {k} |-> IF x = k THEN v ELSE f[x]]
Without(f, ks) == [x \in DOMAIN f \ ks |-> f[x]]
\* add throws for a key that is there.
Added(o, v) == IF Find(o, DOMAIN dictionary) = {} THEN With(dictionary, o, v) ELSE dictionary
AddEntry ==
    \E v \in {0, 1} :
        /\ Moves
        /\ object # Nothing /\ Cardinality(DOMAIN dictionary) < MaxItems
        /\ dictionary' = Added(object, v)
        /\ entries' = IF Item(object) \in DOMAIN entries THEN entries ELSE With(entries, Item(object), v)
        /\ UNCHANGED <<places, wanted, hashSet, members>>
\* operator[] inserts a default for a key that is not there; the value is then assigned.
SetEntry ==
    \E v \in {0, 1} :
        /\ Moves
        /\ object # Nothing /\ Cardinality(DOMAIN dictionary) < MaxItems
        /\ LET found == Find(object, DOMAIN dictionary)
               key == IF found = {} THEN object ELSE CHOOSE e \in found : TRUE
           IN  dictionary' = With(dictionary, key, v)
        /\ entries' = With(entries, Item(object), v)
        /\ UNCHANGED <<places, wanted, hashSet, members>>
RemoveEntry ==
    /\ Moves
    /\ object # Nothing
    /\ dictionary' = Without(dictionary, Find(object, DOMAIN dictionary))
    /\ entries' = Without(entries, {Item(object)})
    /\ UNCHANGED <<places, wanted, hashSet, members>>

BoxedNext ==
    \/ AssignNullable \/ BoxFromNullable \/ UnboxToNullable \/ AssignObject
    \/ MakeVariant \/ TakeVariant \/ ReparseVariant
    \/ AddObject \/ SetItem \/ GetItem \/ RemoveFromList
    \/ AddToSet \/ RemoveFromSet \/ ExceptWith \/ IntersectWith
    \/ AddEntry \/ SetEntry \/ RemoveEntry

BoxedSpec == ValuesBoxed /\ moves = 0 /\ [][BoxedNext]_boxedVars

------------------------------------------------------------------------------
\* However a value moves between a Nullable, an Object, a Variant and a List, it keeps its
\* type and value, and no value becomes a default: only the sentinel of a type is lost, at
\* the assignment to a Nullable (the constructors of int, long and double document it),
\* and in a text the decimals of a double after the sixth and the type of an empty String.
ValuesKept ==
    /\ Content(nullable) = wanted.nullable
    /\ Val(object) = wanted.object
    /\ Val(variant) = wanted.variant
    /\ [i \in DOMAIN list |-> [kind |-> ListKind, value |-> list[i]]] = wanted.list

\* Equal Variants are of one type and have one value and one hash code, except doubles,
\* which are equal by a tolerance and hashed by their bits, and dates, hashed by address.
VariantsByValue ==
    variant # Nothing /\ object # Nothing /\ object.kind \in ValueTypes =>
        /\ VariantEquals(variant, object) <=> VariantEquals(object, variant)
        /\ VariantEquals(variant, object) /\ variant.kind \notin HashedByAddress \cup {"double"} =>
              Val(variant) = Val(object) /\ HashCode(variant) = HashCode(object)

\* A HashSet is a set and a Dictionary a function of values, whichever objects they are
\* boxed in and whatever types share a hash code; only keys of a type with equals and no
\* hash_code are told apart by their objects (object_impl.hpp:56 asks for both).
ContainersByValue ==
    /\ {Item(e) : e \in hashSet} = members
    /\ Cardinality(hashSet) = Cardinality(members)
    /\ [k \in {Item(e) : e \in DOMAIN dictionary} |->
           dictionary[CHOOSE e \in DOMAIN dictionary : Item(e) = k]] = entries
    /\ Cardinality(DOMAIN dictionary) = Cardinality(DOMAIN entries)
    /\ VariantsByValue
=============================================================================
