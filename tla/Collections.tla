----------------------------- MODULE Collections ----------------------------
(* The collections of a TemporalMongoDataSource: what DataTypeInfo tells of a *)
(* class, the indexes that the attributes of its classes declare, and         *)
(* get_or_create_collection, which creates them one by one on the server and  *)
(* then caches the collection for the class.                                  *)
EXTENDS MongoDataSource

CONSTANTS
    DataClass,          \* with "Data", "Key" and "Record"
    TemplateClass,  \* those that the templates TypedKey, TypedRecord and RootRecord make
    BaseOf,         \* the base of each class, or Unset
    Arguments,      \* the generic arguments of each class
    Attributes,     \* the index attributes of each class
    OwnFields,      \* the fields each class declares
    Requested,      \* the classes that collections are asked for
    MaxRequests     \* bound: the first requests for a class, of all data sources

VARIABLES
    collection_dict_,   \* for each data source, the classes with a collection
    task,               \* the call of get_or_create_collection at work
    lost,               \* the classes of a data source whose database was dropped since
    requests

collectionVars == <<opened, databases, collection_dict_, task, lost, requests>>

\* What C++ and the templates see to: no class is among its own bases, and a class that
\* is derived from a template is what the template is given (the "curiously recurring
\* template pattern", typed_key.hpp:34).  Only RootRecord is based on a template itself.
TypedBaseOf(d) == IF BaseOf[BaseOf[d]] \in TemplateClass THEN BaseOf[BaseOf[d]] ELSE BaseOf[d]
ASSUME ClassesAssumption ==
    /\ {"Data", "Key", "Record"} \cup TemplateClass \cup Requested \subseteq DataClass /\ Unset \notin DataClass
    /\ BaseOf \in [DataClass -> DataClass \cup {Unset}]
    /\ BaseOf["Data"] = Unset /\ BaseOf["Key"] = "Data" /\ BaseOf["Record"] = "Data"
    /\ \A S \in SUBSET DataClass : S # {} => \E c \in S : BaseOf[c] \notin S
    /\ \A d \in DataClass \ TemplateClass : BaseOf[d] \in TemplateClass =>
          /\ BaseOf[TypedBaseOf(d)] \in {"Key", "Record"}
          /\ BaseOf[TypedBaseOf(d)] = "Record" => Arguments[TypedBaseOf(d)][2] = d
\* IndexElementsAttribute has a definition and a name.
ASSUME AttributesAssumption ==
    \A c \in DataClass : \A a \in Range(Attributes[c]) :
        DOMAIN a = {"definition", "name"} /\ DOMAIN a.definition = {"pluses", "blanks", "tokens"}

inheritance_chain[c \in DataClass] == <<c>> \o (IF BaseOf[c] = Unset THEN <<>> ELSE inheritance_chain[BaseOf[c]])
Derived(c) == Range(inheritance_chain[c])

(* DataTypeInfo, of which get_or_create keeps one for each class: the first   *)
(* base on the way up that it knows decides.                                  *)
DataKinds == [Data |-> "element", Key |-> "key", Record |-> "record"]
Info(kind, root) == [kind |-> kind, root_data_type |-> root]
DataTypeInfo(c) ==
    LET known == {i \in DOMAIN inheritance_chain[c] : BaseOf[inheritance_chain[c][i]] \in DOMAIN DataKinds}
        i == CHOOSE n \in known : \A m \in known : n <= m
        current == inheritance_chain[c][i]
    IN  IF known = {} THEN Unset
        ELSE CASE BaseOf[current] = "Data" -> Info("element", Unset)
               [] BaseOf[current] = "Key" -> IF i > 2 THEN Unset ELSE Info("key", Arguments[current][2])
               [] BaseOf[current] = "Record" -> Info("record", Arguments[current][2])
\* Classes that are no data, keys of a third generation and elements are errors.
HasCollection(c) == DataTypeInfo(c) # Unset /\ DataTypeInfo(c).kind \in {"record", "key"}
get_collection_name(c) == DataTypeInfo(c).root_data_type

------------------------------------------------------------------------------
(* IndexElementsAttribute.  A definition is its tokens, the number of its     *)
(* plus signs, the first of which leads, and whether it has blanks.           *)

\* With those of the bases; they are in no order here, like the dictionary made of them.
get_custom_attributes(c) == UNION {Range(Attributes[d]) : d \in Derived(c)}

\* The name is taken before the leading plus is removed.
NameOf(a) == IF a.name = Unset THEN <<"definition", a.definition>> ELSE <<"custom", a.name>>
DefinitionOf(a) == [a.definition EXCEPT !.pluses = IF @ = 0 THEN 0 ELSE @ - 1]
\* The attributes of the classes up to Record or Key, each with those it inherits.
attributes(c) ==
    UNION {get_custom_attributes(inheritance_chain[c][i]) :
               i \in 1 .. SelectInSeq(inheritance_chain[c], LAMBDA d : d \in {"Record", "Key"}) - 1}
\* One definition with two names is an error, and so is an empty one.
DictFails(c) ==
    \E a, b \in attributes(c) :
        \/ a.definition.tokens = <<>>
        \/ DefinitionOf(a) = DefinitionOf(b) /\ NameOf(a) # NameOf(b)
get_attributes_dict(c) == {[definition |-> DefinitionOf(a), name |-> NameOf(a)] : a \in attributes(c)}

FieldsOf(c) == UNION {OwnFields[d] : d \in Derived(c)}
\* A plus that is left, and an element that is no field, are errors.
Parses(definition, c) ==
    /\ definition.pluses = 0
    /\ \A i \in DOMAIN definition.tokens : definition.tokens[i].element \in FieldsOf(c)
parse_definition(definition) ==
    [i \in DOMAIN definition.tokens |->
        <<definition.tokens[i].element, IF definition.tokens[i].minus THEN -1 ELSE 1>>]

LoadIndex == [name |-> <<"custom", "Key-DataSet-Id">>, keys |-> <<<<"_key", 1>>, <<"_dataset", -1>>, <<"_id", -1>>>>]

------------------------------------------------------------------------------
CollectionsInit ==
    /\ SourcesInit
    /\ collection_dict_ = [s \in Source |-> {}]
    /\ task = [s \in Source |-> Unset]
    /\ lost = {}
    /\ requests = 0

\* The server takes an index again, but neither its name nor its keys for another one.
Conflicts(index, indexes) == \E i \in indexes : (i.name = index.name) # (i.keys = index.keys)
\* External: the server creates the database and the collection with their first index.
WithIndex(d, collection, index) ==
    LET collections == IF d \in DOMAIN databases THEN databases[d] ELSE <<>>
        changed == [n \in DOMAIN collections \cup {collection} |->
                       IF n = collection THEN IndexesOf(d, n) \cup {index} ELSE collections[n]]
    IN  [n \in DOMAIN databases \cup {d} |-> IF n = d THEN changed ELSE databases[n]]
create_index(s, index, then) ==
    LET collection == get_collection_name(task[s].type)
    IN  /\ ~Conflicts(index, IndexesOf(Database(s), collection))
        /\ databases' = WithIndex(Database(s), collection, index)
        /\ task' = [task EXCEPT ![s] = then]
        /\ UNCHANGED <<opened, collection_dict_, lost, requests>>

\* A class that is asked for the first time.
get_or_create_collection(s) ==
    \E c \in Requested :
        /\ requests < MaxRequests /\ requests' = requests + 1
        /\ opened[s] # Unset /\ task[s] = Unset
        /\ c \notin collection_dict_[s]
        /\ HasCollection(c)
        /\ task' = [task EXCEPT ![s] = [type |-> c, loaded |-> FALSE, custom |-> get_attributes_dict(c)]]
        /\ lost' = lost \ {<<s, c>>}
        /\ UNCHANGED <<opened, databases, collection_dict_>>
CreateLoadIndex(s) ==
    /\ task[s] # Unset /\ ~task[s].loaded
    /\ create_index(s, LoadIndex, [task[s] EXCEPT !.loaded = TRUE])
\* The dictionary is in no order.
CreateCustomIndex(s) ==
    /\ task[s] # Unset /\ task[s].loaded
    /\ ~DictFails(task[s].type)
    /\ \E info \in task[s].custom :
          /\ Parses(info.definition, task[s].type)
          /\ create_index(s, [name |-> info.name, keys |-> parse_definition(info.definition)],
                          [task[s] EXCEPT !.custom = @ \ {info}])
\* Mutant: the collection is cached before the indexes of its classes are created.
CreatedLoadIndex(t) == t.loaded
CreatedAll(t) == t.loaded /\ t.custom = {}
CacheCollection(s) ==
    /\ task[s] # Unset
    /\ CreatedAll(task[s])
    /\ collection_dict_' = [collection_dict_ EXCEPT ![s] = @ \cup {task[s].type}]
    /\ task' = [task EXCEPT ![s] = Unset]
    /\ UNCHANGED <<opened, databases, lost, requests>>
\* An error of the definitions or of the server, at any index: nothing is cached, and the
\* indexes that were created stay.
Throws(s) ==
    /\ task[s] # Unset
    /\ task' = [task EXCEPT ![s] = Unset]
    /\ UNCHANGED <<opened, databases, collection_dict_, lost, requests>>

OpenSource(s) == init(s) /\ UNCHANGED <<collection_dict_, task, lost, requests>>
\* The caches of all data sources survive.
InUse(t) == collection_dict_[t] \cup IF task[t] = Unset THEN {} ELSE {task[t].type}
DeleteDb(s) ==
    /\ task[s] = Unset
    /\ delete_db(s)
    /\ lost' = lost \cup UNION {{t} \X InUse(t) : t \in {t \in Source : opened[t] # Unset /\ Database(t) = Database(s)}}
    /\ UNCHANGED <<collection_dict_, task, requests>>

CollectionsNext ==
    \E s \in Source :
        \/ OpenSource(s) \/ DeleteDb(s)
        \/ get_or_create_collection(s) \/ CreateLoadIndex(s) \/ CreateCustomIndex(s)
        \/ CacheCollection(s) \/ Throws(s)
CollectionsSpec == CollectionsInit /\ [][CollectionsNext]_collectionVars

------------------------------------------------------------------------------
\* The root of a class, by its bases alone: the first that is no base of all records.
RecordsOf(c) == {d \in Derived(c) \ TemplateClass : BaseOf[d] \in TemplateClass /\ "Record" \in Derived(d)}
\* What a class asks of the server by an attribute.
DeclaredKeys(a) ==
    [i \in DOMAIN a.definition.tokens |->
        <<a.definition.tokens[i].element, IF a.definition.tokens[i].minus THEN -1 ELSE 1>>]

\* A collection that is cached for a class is the one of its root, and has the index for
\* loading by key and every index that the class and its bases declare, under the name
\* they give it, though creating one may have failed before and other data sources and
\* other classes of the collection create theirs; a cached collection of a database that
\* was dropped since is without them.
CollectionsIndexed ==
    \A s \in Source : \A c \in collection_dict_[s] :
        <<s, c>> \notin lost =>
            \A root \in RecordsOf(c) :
                LET indexes == IndexesOf(Database(s), root) IN
                /\ LoadIndex \in indexes
                /\ \A d \in Derived(c) : \A a \in Range(Attributes[d]) :
                      \E i \in indexes :
                          i.keys = DeclaredKeys(a) /\ (a.name # Unset => i.name = <<"custom", a.name>>)
=============================================================================
