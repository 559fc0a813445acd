--------------------------- MODULE MongoDataSource --------------------------
(* MongoDataSource: the environment of a data source names its database on    *)
(* the server, and decides whether delete_db may drop it.  A text that names  *)
(* a group or an environment is the sequence of its parts between semicolons. *)
EXTENDS Naturals, Sequences, FiniteSets, SequencesExt

CONSTANTS
    Source,             \* data sources
    Settings,           \* the fields a data source may be given
    PartLength,         \* of each part of a text
    Prohibited,         \* the parts with a prohibited symbol
    max_db_name_length_,
    Unset

VARIABLES
    opened,     \* the settings a data source was initialised with
    databases   \* the server: collections and their indexes, by database name

\* custom is not among the values that can be stored or read, but a program can use it.
EnvType == {"empty", "prod", "uat", "dev", "user", "test", "custom"}
ASSUME SettingsAssumption ==
    \A e \in Settings :
        e.env_type \in EnvType /\ e.env_group \in Seq(DOMAIN PartLength) /\ e.env_name \in Seq(DOMAIN PartLength)

Delimited == [prod |-> "PROD", uat |-> "UAT", dev |-> "DEV", test |-> "TEST"]
Droppable == {"dev", "user", "test"}

\* Mutant: the group is left out.
NameUngrouped(e) == <<Delimited[e.env_type]>> \o e.env_name
db_name_(e) == <<Delimited[e.env_type]>> \o e.env_group \o e.env_name
LengthOf(name) == FoldLeft(LAMBDA n, part : n + 1 + PartLength[part], 0, name) - 1

\* A group is asked for before custom refuses it, and user is an unknown type: what is
\* left are the environments whose database has the delimited name.
Accepted(e) ==
    /\ e.env_group # <<>> /\ e.env_name # <<>>
    /\ e.env_type \in DOMAIN Delimited
    /\ \A i \in DOMAIN db_name_(e) : db_name_(e)[i] \notin Prohibited
    /\ LengthOf(db_name_(e)) <= max_db_name_length_
    /\ e.mongo_server

SourcesInit ==
    /\ opened = [s \in Source |-> Unset]
    /\ databases = <<>>

Database(s) == db_name_(opened[s])
\* A collection that nothing was written to has no indexes.
IndexesOf(name, collection) ==
    IF name \in DOMAIN databases /\ collection \in DOMAIN databases[name]
    THEN databases[name][collection] ELSE {}

init(s) ==
    \E e \in Settings :
        /\ opened[s] = Unset
        /\ Accepted(e)
        /\ opened' = [opened EXCEPT ![s] = e]
        /\ UNCHANGED databases

\* read_only throws, and so does an environment type that protects its database.
MayDelete(e) == ~e.read_only /\ e.env_type \in Droppable
drop_database(name) == databases' = [d \in DOMAIN databases \ {name} |-> databases[d]]
delete_db(s) ==
    /\ opened[s] # Unset
    /\ MayDelete(opened[s])
    /\ drop_database(Database(s))
    /\ UNCHANGED opened

------------------------------------------------------------------------------
Environment(e) == [type |-> e.env_type, group |-> e.env_group, name |-> e.env_name]
\* A semicolon is not a prohibited symbol: TEST;a;b;c is the database of two environments.
PlainGroup(e) == Len(e.env_group) = 1

\* A database is dropped for a data source that may write to it, of a development or test
\* environment, and no data source of another environment loses its records with it, as
\* long as their groups have no semicolon (mongo_data_source.cpp:128 promises the first).
DropsItsOwn ==
    [][\A d \in DOMAIN databases : d \notin DOMAIN databases' =>
           \E s \in Source :
               /\ opened[s] # Unset /\ Database(s) = d
               /\ ~opened[s].read_only /\ opened[s].env_type \in {"dev", "test"}
               /\ \A t \in Source : opened[t] # Unset /\ Database(t) = d /\ PlainGroup(opened[s]) /\ PlainGroup(opened[t]) =>
                      Environment(opened[t]) = Environment(opened[s])]_<<opened, databases>>
=============================================================================
