---------------------------- MODULE TypeRegistry ----------------------------
(* Reflection: TypeBuilderImpl and the maps of TypeImpl.  The Type of a class *)
(* is built when it is first asked for.  Its builder asks for the types of    *)
(* the members and of the base, which may ask for others, and for the one     *)
(* that is being built: it is in the map before it is complete.               *)
EXTENDS Naturals, Sequences, FiniteSets, SequencesExt, Functions

CONSTANTS
    Simple,      \* types without members, such as int, that are always there
    CppClass,
    CppName, FullName,  \* of each class
    ShortName,  \* of each class, without its namespace: two may share one
    Schemas,    \* for each class, the calls its builder is given, in their order
    NoType

VARIABLES
    schema,
    type_map,           \* get_type_map: names to types
    derived_types_map,  \* get_derived_types_map: full names to lists of types
    base_, members_,    \* of each Type
    building            \* the builders at work, the innermost last

registryVars == <<schema, type_map, derived_types_map, base_, members_, building>>

(* A call of a builder: its kind, the name of the member, the types it asks for. *)
Inherited == {"field", "method"}
Kinds == Inherited \cup {"constructor", "interface", "generic_argument"}
NoMembers == [k \in Kinds |-> <<>>]

NamesOf(c) == {FullName[c], ShortName[c], CppName[c]}
Register(map, c) == [n \in DOMAIN map \cup NamesOf(c) |-> IF n \in NamesOf(c) THEN c ELSE map[n]]
NewTypeBuilder(c) == [class |-> c, calls |-> schema[c], base |-> NoType, members |-> NoMembers]

RegistryInit ==
    /\ schema \in Schemas
    /\ type_map = <<>> /\ derived_types_map = <<>>
    /\ base_ = [c \in CppClass |-> NoType]
    /\ members_ = [c \in CppClass |-> NoMembers]
    /\ building = <<>>

\* make_type_builder: the names are in the map at once.
make_type_builder(c) ==
    /\ building' = Append(building, NewTypeBuilder(c))
    /\ type_map' = Register(type_map, c)
    /\ UNCHANGED <<schema, derived_types_map, base_, members_>>

\* dot::typeof<T>() finds a class by its name in C++, complete or not.
Found(c) == c \in Simple \/ CppName[c] \in DOMAIN type_map

\* The program asks for a type.
TypeOf ==
    \E c \in CppClass :
        /\ building = <<>>
        /\ ~Found(c)
        /\ make_type_builder(c)

Builder == Last(building)
TheCall == Head(Builder.calls)
Called(builder) ==
    /\ building' = Append(Front(building), [builder EXCEPT !.calls = Tail(@)])
    /\ UNCHANGED <<schema, type_map, derived_types_map, base_, members_>>
InCall == building # <<>> /\ Builder.calls # <<>>
Missing == SelectSeq(TheCall.types, LAMBDA c : ~Found(c))

\* A call asks for its types; the builder of one that is not found comes first.
Ask == InCall /\ Missing # <<>> /\ make_type_builder(Head(Missing))

\* with_field, with_method, with_constructor, with_interface, with_generic_argument.
WithMember ==
    /\ InCall /\ Missing = <<>> /\ TheCall.kind \in Kinds
    /\ Called([Builder EXCEPT !.members[TheCall.kind] = Append(@, [name |-> TheCall.name, of |-> Builder.class])])
with_base ==
    /\ InCall /\ Missing = <<>> /\ TheCall.kind = "base"
    /\ Called([Builder EXCEPT !.base = Head(TheCall.types)])

------------------------------------------------------------------------------
\* Mutant: a member of the base is not replaced by one of its name.
InheritedKept(own, inherited) == inherited \o own
\* The members of the base first, each replaced by an own member of its name.
Merged(own, inherited) ==
    FoldLeft(LAMBDA list, member :
                 LET same == {i \in DOMAIN list : list[i].name = member.name}
                 IN  IF same = {} THEN Append(list, member)
                     ELSE [list EXCEPT ![CHOOSE i \in same : \A j \in same : i <= j] = member],
             inherited, own)
fill(builder) ==
    [k \in Kinds |->
        IF k \notin Inherited \/ builder.base = NoType \/ members_[builder.base][k] = <<>> THEN builder.members[k]
        ELSE Merged(builder.members[k], members_[builder.base][k])]

\* The bases that a Type leads to now: get_base_type, and so on.
get_base_types(c) ==
    LET step[i \in 1 .. Cardinality(CppClass)] ==
            IF i = 1 THEN base_[c] ELSE IF step[i - 1] = NoType THEN NoType ELSE base_[step[i - 1]]
    IN  Range(step) \ {NoType}

build ==
    /\ building # <<>> /\ Builder.calls = <<>>
    /\ LET c == Builder.class
           bases == IF Builder.base = NoType THEN {} ELSE {Builder.base} \cup get_base_types(Builder.base)
           names == {FullName[b] : b \in bases}
           listed(n) == IF n \in DOMAIN derived_types_map THEN derived_types_map[n] ELSE <<>>
       IN  /\ members_' = [members_ EXCEPT ![c] = fill(Builder)]
           /\ base_' = [base_ EXCEPT ![c] = Builder.base]
           /\ derived_types_map' = [n \in DOMAIN derived_types_map \cup names |->
                                       IF n \in names THEN Append(listed(n), c) ELSE listed(n)]
    /\ building' = Front(building)
    /\ UNCHANGED <<schema, type_map>>

RegistryNext == TypeOf \/ Ask \/ WithMember \/ with_base \/ build

------------------------------------------------------------------------------
is_subclass_of(c, d) == d \in get_base_types(c)
\* get_field and get_method: the first of the name.
get_member(c, k, name) == SelectSeq(members_[c][k], LAMBDA member : member.name = name)
get_derived_types(c) == IF FullName[c] \in DOMAIN derived_types_map THEN derived_types_map[FullName[c]] ELSE <<>>

(* What the classes declare.                                                  *)
CallsOf(c) == Range(schema[c])
DeclaredBase(c) ==
    LET based == {call \in CallsOf(c) : call.kind = "base"}
    IN  IF based = {} THEN NoType ELSE Head((CHOOSE call \in based : TRUE).types)
BasesUpTo[i \in 0 .. Cardinality(CppClass), c \in CppClass \cup {NoType}] ==
    IF c = NoType THEN {} ELSE IF i = 0 THEN {c} ELSE {c} \cup BasesUpTo[i - 1, DeclaredBase(c)]
DeclaredBases(c) == BasesUpTo[Cardinality(CppClass), c] \ {c}
Declared(c, k) == {call.name : call \in {call \in CallsOf(c) : call.kind = k}}
\* The class that gives a type its member of a name: the nearest that declares it.
Declarer(c, k, name) ==
    CHOOSE d \in {c} \cup DeclaredBases(c) :
        /\ name \in Declared(d, k)
        /\ \A e \in ({c} \cup DeclaredBases(c)) \ {d} : name \in Declared(e, k) => e \in DeclaredBases(d)

\* What a builder may come to ask for while it is at work.
Needs(c) == UNION {Range(call.types) : call \in CallsOf(c)} \cap CppClass
NeedsUpTo[i \in 0 .. Cardinality(CppClass), c \in CppClass] ==
    IF i = 0 THEN Needs(c) ELSE Needs(c) \cup UNION {NeedsUpTo[i - 1, d] : d \in Needs(c)}
\* No class comes to need one that is derived from it: that one would take over the members
\* of a base that has none yet, and would be missing from the lists of the base's own bases.
BasesFirst == \A c \in CppClass : \A d \in NeedsUpTo[Cardinality(CppClass), c] : c \notin DeclaredBases(d)

\* Once every builder is done, a type has the fields and methods of its bases and its own,
\* each name once and as the nearest class declares it; its constructors are its own; and the
\* derived types of a type, by which a query chooses the records it reads, are all the
\* subclasses that are built, each once.
RegistryComplete ==
    BasesFirst /\ building = <<>> =>
        LET built == {c \in CppClass : Found(c)}
        IN  \A c \in built :
                /\ \A k \in Inherited :
                      /\ {m.name : m \in Range(members_[c][k])}
                             = UNION {Declared(d, k) : d \in {c} \cup DeclaredBases(c)}
                      /\ \A m \in Range(members_[c][k]) :
                            get_member(c, k, m.name) = <<[name |-> m.name, of |-> Declarer(c, k, m.name)]>>
                /\ \A k \in Kinds \ Inherited : {m.name : m \in Range(members_[c][k])} = Declared(c, k)
                /\ Range(get_derived_types(c)) = {d \in built : c \in DeclaredBases(d)}
                /\ \A d \in Range(get_derived_types(c)) : is_subclass_of(d, c)
                /\ IsInjective(get_derived_types(c))
                /\ type_map[FullName[c]] = c
=============================================================================
