---------------------------- MODULE QueriesProofs ---------------------------
(***************************************************************************)
(* The databases of the data sources and the indexes of their collections,  *)
(* proved for any environments, class hierarchy, index attributes and        *)
(* bounds: what is dropped is the database of its own environment, and a     *)
(* collection that is cached has its indexes.                                *)
(*                                                                         *)
(* And the pipeline of a query, for any collection, fields, filters and any *)
(* number of calls: the results a cursor may give are those that were asked *)
(* for, though a sort is only written into the pipeline by the call that     *)
(* comes after it.                                                           *)
(***************************************************************************)
EXTENDS Collections, QueryPipeline, SequenceTheorems, WellFoundedInduction, TLAPS

-----------------------------------------------------------------------------
(* The databases.                                                            *)

\* A data source that is open has settings that init accepts.
SourcesInv ==
    /\ DOMAIN opened = Source
    /\ \A s \in Source : opened[s] # Unset => opened[s] \in Settings /\ Accepted(opened[s])

\* init is the only step that opens a data source, and it checks the settings.
LEMMA SourcesStep ==
    ASSUME SourcesInv, [CollectionsNext]_collectionVars
    PROVE  SourcesInv'
<1>1. ASSUME NEW s \in Source, init(s) PROVE SourcesInv'
  <2>1. PICK e \in Settings : Accepted(e) /\ opened' = [opened EXCEPT ![s] = e]
    BY <1>1 DEF init
  <2>2. DOMAIN opened' = Source /\ \A t \in Source : opened'[t] = opened[t] \/ opened'[t] = e
    BY <2>1 DEF SourcesInv
  <2>3. ASSUME NEW t \in Source, opened'[t] # Unset PROVE opened'[t] \in Settings /\ Accepted(opened'[t])
    <3>1. CASE opened'[t] = opened[t]
      BY <2>3, <3>1 DEF SourcesInv
    <3>2. CASE opened'[t] = e
      BY <2>1, <3>2
    <3>3. QED
      BY <2>2, <3>1, <3>2
  <2>4. QED
    BY <2>2, <2>3 DEF SourcesInv, Accepted, db_name_
<1>2. CASE UNCHANGED opened
  BY <1>2 DEF SourcesInv, Accepted, db_name_
<1>3. QED
  BY <1>1, <1>2 DEF CollectionsNext, collectionVars, OpenSource, DeleteDb, delete_db,
     get_or_create_collection, CreateLoadIndex, CreateCustomIndex, create_index, CacheCollection, Throws

\* Texts that begin with two parts have one rest.
LEMMA RestOfText ==
    ASSUME NEW T, NEW n \in Seq(T), NEW m \in Seq(T), NEW x, NEW y, NEW g, NEW h,
           <<x, g>> \o n = <<y, h>> \o m
    PROVE  n = m
<1> DEFINE v == <<x, g>> \o n
           w == <<y, h>> \o m
<1>1. Len(v) = 2 + Len(n) /\ Len(w) = 2 + Len(m) /\ Len(n) \in Nat /\ Len(m) \in Nat
  OBVIOUS
<1>2. Len(n) = Len(m)
  BY <1>1
<1>3. ASSUME NEW i \in 1 .. Len(n) PROVE n[i] = m[i]
  <2>1. i + 2 \in 3 .. 2 + Len(n) /\ i + 2 - 2 = i
    BY <1>1
  <2>2. v[i + 2] = n[i]
    BY <1>1, <2>1
  <2>3. w[i + 2] = m[i]
    BY <1>1, <1>2, <2>1
  <2>4. QED
    BY <2>2, <2>3
<1>4. QED
  BY <1>2, <1>3, SeqEqual

\* The name tells type, group and name, if the group is one part.
LEMMA NameTellsEnvironment ==
    ASSUME NEW e \in Settings, NEW f \in Settings, Accepted(e), Accepted(f),
           PlainGroup(e), PlainGroup(f), db_name_(e) = db_name_(f)
    PROVE  Environment(e) = Environment(f)
<1> DEFINE Part == DOMAIN PartLength
           x == Delimited[e.env_type]
           y == Delimited[f.env_type]
<1>1. /\ e.env_group \in Seq(Part) /\ e.env_name \in Seq(Part) /\ Len(e.env_group) = 1
      /\ f.env_group \in Seq(Part) /\ f.env_name \in Seq(Part) /\ Len(f.env_group) = 1
  BY SettingsAssumption DEF PlainGroup
<1>2. PICK g : e.env_group = <<g>>
  BY <1>1
<1>3. PICK h : f.env_group = <<h>>
  BY <1>1
<1>4. e.env_type \in DOMAIN Delimited /\ f.env_type \in DOMAIN Delimited
  BY DEF Accepted
<1>5. <<x, g>> \o e.env_name = <<y, h>> \o f.env_name
  BY <1>1, <1>2, <1>3 DEF db_name_
<1>6. x = y /\ g = h
  BY <1>1, <1>5
<1>7. e.env_name = f.env_name
  BY <1>1, <1>5, RestOfText
<1>8. e.env_type = f.env_type
  BY <1>4, <1>6 DEF Delimited
<1>9. QED
  BY <1>2, <1>3, <1>6, <1>7, <1>8 DEF Environment

\* Creating an index drops no database.
LEMMA IndexKeepsDatabases ==
    ASSUME NEW s \in Source, CreateLoadIndex(s) \/ CreateCustomIndex(s)
    PROVE  DOMAIN databases \subseteq DOMAIN databases'
<1>1. PICK d, collection, index : databases' = WithIndex(d, collection, index)
  <2>1. CASE CreateLoadIndex(s)
    BY <2>1 DEF CreateLoadIndex, create_index
  <2>2. CASE CreateCustomIndex(s)
    BY <2>2 DEF CreateCustomIndex, create_index
  <2>3. QED
    BY <2>1, <2>2
<1>2. QED
  BY <1>1 DEF WithIndex

\* The action of DropsItsOwn.
DropsOwn ==
    \A d \in DOMAIN databases : d \notin DOMAIN databases' =>
        \E s \in Source :
            /\ opened[s] # Unset /\ Database(s) = d
            /\ ~opened[s].read_only /\ opened[s].env_type \in {"dev", "test"}
            /\ \A t \in Source :
                  opened[t] # Unset /\ Database(t) = d /\ PlainGroup(opened[s]) /\ PlainGroup(opened[t]) =>
                      Environment(opened[t]) = Environment(opened[s])

\* Only delete_db drops a database, that of its data source; what is accepted and may be
\* dropped is a development or test environment, since a user's is never accepted.
LEMMA DropStep ==
    ASSUME SourcesInv, [CollectionsNext]_collectionVars
    PROVE  DropsOwn
<1> SUFFICES ASSUME NEW d \in DOMAIN databases, d \notin DOMAIN databases'
             PROVE  \E s \in Source :
                       /\ opened[s] # Unset /\ Database(s) = d
                       /\ ~opened[s].read_only /\ opened[s].env_type \in {"dev", "test"}
                       /\ \A t \in Source :
                             opened[t] # Unset /\ Database(t) = d /\ PlainGroup(opened[s]) /\ PlainGroup(opened[t]) =>
                                 Environment(opened[t]) = Environment(opened[s])
  BY DEF DropsOwn
<1>1. PICK s \in Source : DeleteDb(s)
  BY IndexKeepsDatabases DEF CollectionsNext, collectionVars, OpenSource, init,
     get_or_create_collection, CacheCollection, Throws
<1>2. opened[s] # Unset /\ MayDelete(opened[s]) /\ drop_database(Database(s))
  BY <1>1 DEF DeleteDb, delete_db
<1>3. Database(s) = d
  BY <1>2 DEF drop_database
<1>4. opened[s] \in Settings /\ Accepted(opened[s])
  BY <1>2 DEF SourcesInv
<1>5. ~opened[s].read_only /\ opened[s].env_type \in {"dev", "test"}
  BY <1>2, <1>4 DEF MayDelete, Accepted, Droppable, Delimited
<1>6. ASSUME NEW t \in Source, opened[t] # Unset, Database(t) = d,
             PlainGroup(opened[s]), PlainGroup(opened[t])
      PROVE  Environment(opened[t]) = Environment(opened[s])
  <2>1. opened[t] \in Settings /\ Accepted(opened[t])
    BY <1>6 DEF SourcesInv
  <2>2. PICK e \in Settings : e = opened[s]
    BY <1>4
  <2>3. PICK f \in Settings : f = opened[t]
    BY <2>1
  <2>4. db_name_(f) = db_name_(e)
    BY <1>3, <1>6, <2>2, <2>3 DEF Database
  <2>5. QED
    BY <1>4, <1>6, <2>1, <2>2, <2>3, <2>4, NameTellsEnvironment
<1>7. QED
  BY <1>2, <1>3, <1>5, <1>6

\* delete_db only ever drops a database of its own environment, which is not a protected
\* one, and of no other environment as long as no group has a semicolon in it.
THEOREM DropsAreOwn == CollectionsSpec => DropsItsOwn
<1>1. CollectionsInit => SourcesInv
  BY DEF CollectionsInit, SourcesInit, SourcesInv
<1>2. SourcesInv /\ [CollectionsNext]_collectionVars => SourcesInv'
  BY SourcesStep
<1>3. SourcesInv /\ [CollectionsNext]_collectionVars => [DropsOwn]_<<opened, databases>>
  BY DropStep
<1>4. QED
  BY <1>1, <1>2, <1>3, PTL DEF CollectionsSpec, DropsItsOwn, DropsOwn
-----------------------------------------------------------------------------
(* The classes.  A property of all classes is shown by a class that has it    *)
(* not, while its base has it: ClassesAssumption says that there is one.       *)

\* One step up.
Up(f, c) == <<c>> \o (IF BaseOf[c] = Unset THEN <<>> ELSE f[BaseOf[c]])

\* A solution of the definition of inheritance_chain for some classes and their bases.
PartialChain(f) ==
    /\ DOMAIN f \subseteq DataClass
    /\ \A c \in DOMAIN f : BaseOf[c] \in DOMAIN f \cup {Unset} /\ f[c] = Up(f, c)

\* Two of them agree.
LEMMA ChainUnique ==
    ASSUME NEW f, NEW g, PartialChain(f), PartialChain(g),
           NEW c \in DataClass, c \in DOMAIN f, c \in DOMAIN g
    PROVE  f[c] = g[c]
<1> DEFINE S == {d \in DataClass : d \in DOMAIN f /\ d \in DOMAIN g /\ f[d] # g[d]}
<1> SUFFICES ASSUME S # {}
             PROVE  FALSE
  OBVIOUS
<1>1. PICK d \in S : BaseOf[d] \notin S
  BY ClassesAssumption
<1>2. f[d] = Up(f, d) /\ g[d] = Up(g, d)
  BY DEF PartialChain
<1>3. BaseOf[d] # Unset => BaseOf[d] \in DataClass /\ BaseOf[d] \in DOMAIN f /\ BaseOf[d] \in DOMAIN g
  BY DEF PartialChain
<1>4. BaseOf[d] # Unset => f[BaseOf[d]] = g[BaseOf[d]]
  BY <1>1, <1>3
<1>5. f[d] = g[d]
  BY <1>2, <1>4 DEF Up
<1>6. QED
  BY <1>5

\* There is one for each class, that of its base with one class more.
LEMMA ChainExists ==
    ASSUME NEW c \in DataClass
    PROVE  \E f : PartialChain(f) /\ c \in DOMAIN f
<1> DEFINE S == {d \in DataClass : ~\E f : PartialChain(f) /\ d \in DOMAIN f}
<1> SUFFICES ASSUME S # {}
             PROVE  FALSE
  OBVIOUS
<1>1. PICK d \in S : BaseOf[d] \notin S
  BY ClassesAssumption
<1>2. CASE BaseOf[d] = Unset
  <2> DEFINE g == [x \in {d} |-> <<d>> \o <<>>]
  <2>1. PartialChain(g) /\ d \in DOMAIN g
    BY <1>2 DEF PartialChain, Up
  <2>2. QED
    BY <2>1
<1>3. CASE BaseOf[d] # Unset
  <2>1. BaseOf[d] \in DataClass
    BY <1>3, ClassesAssumption
  <2>2. PICK f : PartialChain(f) /\ BaseOf[d] \in DOMAIN f
    BY <1>1, <2>1
  <2> DEFINE g == [x \in DOMAIN f \cup {d} |-> IF x = d THEN Up(f, d) ELSE f[x]]
  <2>3. d \notin DOMAIN f
    BY <2>2
  <2>4. ASSUME NEW x \in DOMAIN f
        PROVE  BaseOf[x] \in DOMAIN g \cup {Unset} /\ g[x] = Up(g, x)
    <3>1. BaseOf[x] \in DOMAIN f \cup {Unset} /\ f[x] = Up(f, x)
      BY <2>2 DEF PartialChain
    <3>2. x # d /\ (BaseOf[x] # Unset => BaseOf[x] \in DOMAIN f /\ BaseOf[x] # d)
      BY <2>3, <3>1
    <3>3. BaseOf[x] # Unset => g[BaseOf[x]] = f[BaseOf[x]]
      BY <3>2
    <3>4. Up(g, x) = Up(f, x)
      BY <3>3 DEF Up
    <3>5. QED
      BY <3>1, <3>2, <3>4
  <2>5. BaseOf[d] \in DOMAIN g /\ g[d] = Up(g, d)
    <3>1. BaseOf[d] # d /\ g[BaseOf[d]] = f[BaseOf[d]]
      BY <2>2, <2>3
    <3>2. Up(g, d) = Up(f, d)
      BY <3>1 DEF Up
    <3>3. QED
      BY <2>2, <3>2
  <2>6. PartialChain(g) /\ d \in DOMAIN g
    BY <2>2, <2>4, <2>5 DEF PartialChain
  <2>7. QED
    BY <2>6
<1>4. QED
  BY <1>2, <1>3

\* The recursive definition of inheritance_chain has a solution, and so it is one.
LEMMA ChainDefined ==
    inheritance_chain = [c \in DataClass |-> Up(inheritance_chain, c)]
<1> DEFINE solution(c) == CHOOSE f : PartialChain(f) /\ c \in DOMAIN f
           F == [c \in DataClass |-> solution(c)[c]]
<1>1. ASSUME NEW c \in DataClass PROVE F[c] = Up(F, c)
  <2>1. PartialChain(solution(c)) /\ c \in DOMAIN solution(c)
    BY ChainExists
  <2>2. F[c] = Up(solution(c), c)
    BY <2>1 DEF PartialChain
  <2>3. ASSUME BaseOf[c] # Unset PROVE solution(c)[BaseOf[c]] = F[BaseOf[c]]
    <3>1. BaseOf[c] \in DataClass /\ BaseOf[c] \in DOMAIN solution(c)
      BY <2>1, <2>3 DEF PartialChain
    <3>2. PartialChain(solution(BaseOf[c])) /\ BaseOf[c] \in DOMAIN solution(BaseOf[c])
      BY <3>1, ChainExists
    <3>3. QED
      BY <2>1, <3>1, <3>2, ChainUnique
  <2> HIDE DEF F, solution
  <2>4. QED
    BY <2>2, <2>3 DEF Up
<1>2. F = [c \in DataClass |-> Up(F, c)]
  BY <1>1
<1> HIDE DEF F
<1>3. QED
  BY <1>2 DEF inheritance_chain, Up
\* What the chain of a class is: the class, the base of each, to the last that has none.
IsChainOf(q, c) ==
    /\ q \in Seq(DataClass) /\ Len(q) > 0
    /\ q[1] = c
    /\ \A i \in 1 .. Len(q) - 1 : BaseOf[q[i]] = q[i + 1]
    /\ BaseOf[q[Len(q)]] = Unset

\* inheritance_chain is that.
LEMMA ChainShape ==
    ASSUME NEW c \in DataClass
    PROVE  IsChainOf(inheritance_chain[c], c)
<1> DEFINE S == {d \in DataClass : ~IsChainOf(inheritance_chain[d], d)}
<1> SUFFICES ASSUME S # {}
             PROVE  FALSE
  OBVIOUS
<1>1. PICK d \in S : BaseOf[d] \notin S
  BY ClassesAssumption
<1>2. inheritance_chain[d] = Up(inheritance_chain, d)
  BY ChainDefined
<1>3. CASE BaseOf[d] = Unset
  <2>1. inheritance_chain[d] = <<d>>
    BY <1>2, <1>3 DEF Up
  <2>2. IsChainOf(inheritance_chain[d], d)
    BY <1>3, <2>1 DEF IsChainOf
  <2>3. QED
    BY <2>2
<1>4. CASE BaseOf[d] # Unset
  <2>1. BaseOf[d] \in DataClass
    BY <1>4, ClassesAssumption
  <2>2. IsChainOf(inheritance_chain[BaseOf[d]], BaseOf[d])
    BY <1>1, <2>1
  <2>3. PICK q : q = inheritance_chain[BaseOf[d]]
    OBVIOUS
  <2>4. q \in Seq(DataClass) /\ Len(q) \in Nat /\ Len(q) > 0
    BY <2>2, <2>3 DEF IsChainOf
  <2>5. PICK p : p = <<d>> \o q
    OBVIOUS
  <2>6. p \in Seq(DataClass) /\ Len(p) = Len(q) + 1 /\ p[1] = d
    BY <2>4, <2>5
  <2>7. \A i \in 1 .. Len(q) : p[i + 1] = q[i]
    BY <2>4, <2>5
  <2>8. ASSUME NEW i \in 1 .. Len(p) - 1 PROVE BaseOf[p[i]] = p[i + 1]
    <3>1. CASE i = 1
      BY <2>2, <2>3, <2>4, <2>6, <2>7, <3>1 DEF IsChainOf
    <3>2. CASE i # 1
      <4>1. i - 1 \in 1 .. Len(q) - 1 /\ i - 1 + 1 = i
        BY <2>4, <2>6, <3>2
      <4>2. p[i] = q[i - 1] /\ p[i + 1] = q[i]
        BY <2>4, <2>6, <2>7, <4>1
      <4>3. BaseOf[q[i - 1]] = q[i]
        BY <2>2, <2>3, <4>1 DEF IsChainOf
      <4>4. QED
        BY <4>2, <4>3
    <3>3. QED
      BY <3>1, <3>2
  <2>9. BaseOf[p[Len(p)]] = Unset
    <3>1. Len(q) \in 1 .. Len(q) /\ Len(p) = Len(q) + 1
      BY <2>4, <2>6
    <3>2. p[Len(p)] = q[Len(q)]
      BY <2>7, <3>1
    <3>3. QED
      BY <2>2, <2>3, <3>2 DEF IsChainOf
  <2>10. IsChainOf(p, d)
    BY <2>4, <2>6, <2>8, <2>9 DEF IsChainOf
  <2>11. inheritance_chain[d] = p
    BY <1>2, <1>4, <2>3, <2>5 DEF Up
  <2>12. QED
    BY <2>10, <2>11
<1>5. QED
  BY <1>3, <1>4

\* "Data" ends a chain, and "Key" and "Record" are the last but one.
LEMMA ChainEnds ==
    ASSUME NEW c, NEW q, IsChainOf(q, c), NEW i \in 1 .. Len(q)
    PROVE  /\ q[i] = "Data" => i = Len(q)
           /\ q[i] \in {"Key", "Record"} => i = Len(q) - 1
<1>1. Len(q) \in Nat /\ \A m \in 1 .. Len(q) : q[m] \in DataClass
  BY DEF IsChainOf
<1>2. \A m \in 1 .. Len(q) : q[m] = "Data" => m = Len(q)
  BY <1>1, ClassesAssumption DEF IsChainOf
<1>3. ASSUME q[i] \in {"Key", "Record"} PROVE i = Len(q) - 1
  <2>1. BaseOf[q[i]] = "Data"
    BY <1>3, ClassesAssumption
  <2>2. "Data" # Unset
    BY ClassesAssumption
  <2>3. i # Len(q)
    BY <2>1, <2>2 DEF IsChainOf
  <2>4. i + 1 \in 1 .. Len(q) /\ q[i + 1] = "Data"
    BY <1>1, <2>1, <2>3 DEF IsChainOf
  <2>5. QED
    BY <1>1, <1>2, <2>4
<1>4. QED
  BY <1>2, <1>3
\* Above a class that is made from a template there is TypedKey or TypedRecord, and then
\* Key or Record.
LEMMA TypedBaseAbove ==
    ASSUME NEW c, NEW q, IsChainOf(q, c), NEW j \in 1 .. Len(q),
           q[j] \notin TemplateClass, BaseOf[q[j]] \in TemplateClass
    PROVE  \E k \in 2 .. Len(q) - 1 :
               /\ q[k] = TypedBaseOf(q[j]) /\ q[k + 1] = BaseOf[q[k]]
               /\ q[k + 1] \in {"Key", "Record"} /\ k + 1 = Len(q) - 1
<1> DEFINE t == TypedBaseOf(q[j])
<1>1. Len(q) \in Nat /\ \A m \in 1 .. Len(q) : q[m] \in DataClass
  BY DEF IsChainOf
<1>2. BaseOf[t] \in {"Key", "Record"} /\ TemplateClass \subseteq DataClass /\ Unset \notin DataClass
  BY <1>1, ClassesAssumption
<1>3. ASSUME NEW m \in 1 .. Len(q), BaseOf[q[m]] \in DataClass
      PROVE  m + 1 \in 2 .. Len(q) /\ q[m + 1] = BaseOf[q[m]]
  <2>1. m # Len(q)
    BY <1>2, <1>3 DEF IsChainOf
  <2>2. QED
    BY <1>1, <2>1 DEF IsChainOf
<1>4. j + 1 \in 2 .. Len(q) /\ q[j + 1] = BaseOf[q[j]]
  BY <1>2, <1>3
<1>5. \E k \in 2 .. Len(q) : q[k] = t
  <2>1. CASE BaseOf[BaseOf[q[j]]] \in TemplateClass
    <3>1. j + 1 \in 1 .. Len(q) /\ BaseOf[q[j + 1]] \in DataClass
      BY <1>2, <1>4, <2>1
    <3>2. j + 2 \in 2 .. Len(q) /\ q[j + 2] = BaseOf[q[j + 1]]
      BY <1>1, <1>3, <3>1
    <3>3. QED
      BY <1>4, <2>1, <3>2 DEF TypedBaseOf
  <2>2. CASE BaseOf[BaseOf[q[j]]] \notin TemplateClass
    BY <1>4, <2>2 DEF TypedBaseOf
  <2>3. QED
    BY <2>1, <2>2
<1> HIDE DEF t
<1>6. PICK k \in 2 .. Len(q) : q[k] = t
  BY <1>5
<1>7. k \in 1 .. Len(q) /\ BaseOf[q[k]] \in DataClass
  BY <1>2, <1>6, ClassesAssumption
<1>8. k + 1 \in 1 .. Len(q) /\ q[k + 1] = BaseOf[t]
  BY <1>1, <1>3, <1>6, <1>7
<1>9. k + 1 = Len(q) - 1
  BY <1>2, <1>8, ChainEnds
<1>10. QED
  BY <1>1, <1>2, <1>6, <1>8, <1>9 DEF t

\* The root of a record class by its bases is the one by which its collection is named.
LEMMA RootNames ==
    ASSUME NEW c \in DataClass, NEW root \in RecordsOf(c)
    PROVE  /\ get_collection_name(c) = root
           /\ Len(inheritance_chain[c]) > 3
           /\ \E i \in 1 .. Len(inheritance_chain[c]) : inheritance_chain[c][i] = "Record"
<1> DEFINE q == inheritance_chain[c]
           p == inheritance_chain[root]
           t == TypedBaseOf(root)
<1>1. IsChainOf(q, c) /\ Len(q) \in Nat /\ \A m \in 1 .. Len(q) : q[m] \in DataClass
  BY ChainShape DEF IsChainOf
<1>2. /\ root \in Range(q) /\ root \notin TemplateClass /\ BaseOf[root] \in TemplateClass
      /\ "Record" \in Range(p)
  BY DEF RecordsOf, Derived
<1>3. PICK j \in 1 .. Len(q) : q[j] = root
  BY <1>1, <1>2 DEF Range, IsChainOf
<1>4. IsChainOf(p, root) /\ Len(p) \in Nat /\ Len(p) > 0 /\ p[1] = root
  BY <1>1, <1>3, ChainShape DEF IsChainOf
<1>5. PICK m \in 1 .. Len(p) : p[m] = "Record"
  BY <1>2, <1>4 DEF Range, IsChainOf
<1>6. BaseOf[t] = "Record"
  <2>1. 1 \in 1 .. Len(p)
    BY <1>4
  <2>2. PICK k \in 2 .. Len(p) - 1 : /\ p[k] = t /\ p[k + 1] = BaseOf[t] /\ k + 1 = Len(p) - 1
    BY <1>2, <1>4, <2>1, TypedBaseAbove
  <2>3. m = Len(p) - 1
    BY <1>4, <1>5, ChainEnds
  <2>4. QED
    BY <1>5, <2>2, <2>3
<1>7. PICK k \in 2 .. Len(q) - 1 :
          /\ q[k] = t /\ q[k + 1] = "Record" /\ k + 1 = Len(q) - 1
  BY <1>1, <1>2, <1>3, <1>6, TypedBaseAbove
<1>8. Arguments[t][2] = root
  BY <1>1, <1>2, <1>3, <1>6, ClassesAssumption
<1> DEFINE known == {i \in DOMAIN q : BaseOf[q[i]] \in DOMAIN DataKinds}
<1>9. DOMAIN q = 1 .. Len(q) /\ DOMAIN DataKinds = {"Data", "Key", "Record"}
  BY <1>1 DEF IsChainOf, DataKinds
<1>10. k \in known
  BY <1>1, <1>6, <1>7, <1>9
<1>11. ASSUME NEW i \in known PROVE k <= i
  <2>1. i \in 1 .. Len(q) /\ BaseOf[q[i]] \in {"Data", "Key", "Record"}
    BY <1>9
  <2>2. i # Len(q)
    BY <1>1, <2>1, ClassesAssumption DEF IsChainOf
  <2>3. i \in 1 .. Len(q) - 1 /\ i + 1 \in 1 .. Len(q)
    BY <1>1, <2>1, <2>2
  <2>4. q[i + 1] \in {"Data", "Key", "Record"}
    BY <1>1, <2>1, <2>3 DEF IsChainOf
  <2>5. i + 1 >= Len(q) - 1
    BY <1>1, <2>3, <2>4, ChainEnds
  <2>6. QED
    BY <1>1, <1>7, <2>1, <2>5
<1>12. \A i \in known : i \in 1 .. Len(q)
  BY <1>9
<1> HIDE DEF known
<1>13. (CHOOSE n \in known : \A i \in known : n <= i) = k
  <2>1. k \in known /\ \A i \in known : k <= i
    BY <1>10, <1>11
  <2>2. ASSUME NEW n \in known, \A i \in known : n <= i PROVE n = k
    <3>1. n <= k /\ k <= n
      BY <2>1, <2>2
    <3>2. n \in Int /\ k \in Int
      BY <1>10, <1>12
    <3>3. QED
      BY <3>1, <3>2
  <2>3. QED
    BY <2>1, <2>2
<1>14. DataTypeInfo(c) = Info("record", Arguments[t][2])
  BY <1>6, <1>7, <1>10, <1>13 DEF DataTypeInfo, known
<1>15. get_collection_name(c) = root
  BY <1>8, <1>14 DEF get_collection_name, Info
<1>16. k + 1 \in 1 .. Len(q) /\ Len(q) > 3
  BY <1>1, <1>7
<1>17. QED
  BY <1>7, <1>15, <1>16

\* The attributes of a record class are those of the class and of all its bases.
LEMMA AttributesAreAll ==
    ASSUME NEW c \in DataClass, RecordsOf(c) # {}, NEW d \in Derived(c)
    PROVE  Range(Attributes[d]) \subseteq attributes(c)
<1> DEFINE q == inheritance_chain[c]
           I == {i \in 1 .. Len(q) : q[i] \in {"Record", "Key"}}
<1>1. IsChainOf(q, c) /\ Len(q) \in Nat /\ Len(q) > 3 /\ q[1] = c
  BY ChainShape, RootNames DEF IsChainOf
<1>2. I = {Len(q) - 1}
  <2>1. I # {}
    BY RootNames
  <2>2. \A i \in I : i = Len(q) - 1
    BY <1>1, ChainEnds
  <2>3. QED
    BY <2>1, <2>2
<1>3. SelectInSeq(q, LAMBDA x : x \in {"Record", "Key"}) = Len(q) - 1
  BY <1>1, <1>2 DEF SelectInSeq, Min
<1>4. 1 \in 1 .. SelectInSeq(q, LAMBDA x : x \in {"Record", "Key"}) - 1
  BY <1>1, <1>3
<1>5. get_custom_attributes(c) \subseteq attributes(c)
  BY <1>1, <1>4 DEF attributes
<1>6. QED
  BY <1>5 DEF get_custom_attributes
-----------------------------------------------------------------------------
(* The indexes.  What is cached has all of them, and what is being created   *)
(* has those that were created so far, except where the database was         *)
(* dropped since: other tasks only add to the indexes of a collection.       *)

IndexOf(info) == [name |-> info.name, keys |-> parse_definition(info.definition)]
AllIndexes(c) == {LoadIndex} \cup {IndexOf(info) : info \in get_attributes_dict(c)}
DoneIndexes(t) ==
    {i \in {LoadIndex} : t.loaded} \cup {IndexOf(info) : info \in get_attributes_dict(t.type) \ t.custom}
HasIndexes(s, c, wanted) ==
    <<s, c>> \notin lost => wanted \subseteq IndexesOf(Database(s), get_collection_name(c))

CachedInv ==
    \A s \in Source : \A c \in collection_dict_[s] : c \in Requested /\ HasIndexes(s, c, AllIndexes(c))
TaskInv ==
    \A s \in Source : task[s] # Unset =>
        /\ DOMAIN task[s] = {"type", "loaded", "custom"}
        /\ task[s].type \in Requested
        /\ HasIndexes(s, task[s].type, DoneIndexes(task[s]))
IndexInv ==
    /\ DOMAIN opened = Source /\ DOMAIN collection_dict_ = Source /\ DOMAIN task = Source
    /\ \A s \in Source : opened[s] = Unset => collection_dict_[s] = {} /\ task[s] = Unset
    /\ CachedInv
    /\ TaskInv

\* Creating an index adds it to its collection, and takes none from any.
LEMMA IndexesGrow ==
    ASSUME NEW d, NEW collection, NEW index, databases' = WithIndex(d, collection, index)
    PROVE  /\ IndexesOf(d, collection)' = IndexesOf(d, collection) \cup {index}
           /\ \A n, m : IndexesOf(n, m) \subseteq IndexesOf(n, m)'
<1> DEFINE collections == IF d \in DOMAIN databases THEN databases[d] ELSE <<>>
           changed == [n \in DOMAIN collections \cup {collection} |->
                          IF n = collection THEN IndexesOf(d, n) \cup {index} ELSE collections[n]]
<1>1. databases' = [n \in DOMAIN databases \cup {d} |-> IF n = d THEN changed ELSE databases[n]]
  BY DEF WithIndex
<1>2. DOMAIN changed = DOMAIN collections \cup {collection}
  OBVIOUS
<1>3. \A n \in DOMAIN changed :
          changed[n] = IF n = collection THEN IndexesOf(d, n) \cup {index} ELSE collections[n]
  OBVIOUS
<1>4. d \in DOMAIN databases => collections = databases[d]
  OBVIOUS
<1> HIDE DEF collections, changed
<1>5. IndexesOf(d, collection)' = IndexesOf(d, collection) \cup {index}
  BY <1>1, <1>2, <1>3 DEF IndexesOf
<1>6. ASSUME NEW n, NEW m PROVE IndexesOf(n, m) \subseteq IndexesOf(n, m)'
  <2>1. CASE n \notin DOMAIN databases \/ m \notin DOMAIN databases[n]
    BY <2>1 DEF IndexesOf
  <2>2. CASE n \in DOMAIN databases /\ m \in DOMAIN databases[n] /\ n # d
    BY <1>1, <2>2 DEF IndexesOf
  <2>3. CASE n \in DOMAIN databases /\ m \in DOMAIN databases[n] /\ n = d /\ m # collection
    <3>1. m \in DOMAIN changed /\ changed[m] = databases[n][m]
      BY <1>2, <1>3, <1>4, <2>3
    <3>2. QED
      BY <1>1, <2>3, <3>1 DEF IndexesOf
  <2>4. CASE n = d /\ m = collection
    BY <1>5, <2>4
  <2>5. QED
    BY <2>1, <2>2, <2>3, <2>4
<1>7. QED
  BY <1>5, <1>6

\* What is there stays there, as long as no class is found again and no index is lost.
LEMMA IndexesKept ==
    ASSUME NEW s \in Source, NEW c, NEW wanted, HasIndexes(s, c, wanted),
           opened'[s] = opened[s], lost \subseteq lost',
           \A n, m : IndexesOf(n, m) \subseteq IndexesOf(n, m)'
    PROVE  HasIndexes(s, c, wanted)'
<1>1. Database(s)' = Database(s)
  BY DEF Database, db_name_
<1>2. PICK n : n = Database(s)
  OBVIOUS
<1>3. PICK m : m = get_collection_name(c)
  OBVIOUS
<1>4. QED
  BY <1>1, <1>2, <1>3 DEF HasIndexes

\* One index more, of the class that a task is for.
LEMMA CreateIndexStep ==
    ASSUME IndexInv, NEW s \in Source, NEW index, NEW then, task[s] # Unset,
           create_index(s, index, then),
           DOMAIN then = {"type", "loaded", "custom"}, then.type = task[s].type,
           DoneIndexes(then) \subseteq DoneIndexes(task[s]) \cup {index}
    PROVE  IndexInv'
<1>1. PICK d : d = Database(s)
  OBVIOUS
<1>2. PICK collection : collection = get_collection_name(task[s].type)
  OBVIOUS
<1>3. /\ databases' = WithIndex(d, collection, index)
      /\ task' = [task EXCEPT ![s] = then]
      /\ opened' = opened /\ collection_dict_' = collection_dict_ /\ lost' = lost
  BY <1>1, <1>2 DEF create_index
<1>4. /\ IndexesOf(d, collection)' = IndexesOf(d, collection) \cup {index}
      /\ \A n, m : IndexesOf(n, m) \subseteq IndexesOf(n, m)'
  BY <1>3, IndexesGrow
<1>5. ASSUME NEW t \in Source, NEW c, NEW wanted, HasIndexes(t, c, wanted)
      PROVE  HasIndexes(t, c, wanted)'
  BY <1>3, <1>4, <1>5, IndexesKept
<1>6. CachedInv'
  <2>1. ASSUME NEW t \in Source, NEW c \in collection_dict_'[t]
        PROVE  c \in Requested /\ HasIndexes(t, c, AllIndexes(c))'
    BY <1>3, <1>5 DEF IndexInv, CachedInv
  <2>2. QED
    BY <2>1 DEF CachedInv
<1>7. HasIndexes(s, then.type, DoneIndexes(then))'
  <2>1. HasIndexes(s, then.type, DoneIndexes(task[s]))
    BY DEF IndexInv, TaskInv
  <2>2. PICK c : c = then.type
    OBVIOUS
  <2>3. PICK wanted : wanted = DoneIndexes(task[s])
    OBVIOUS
  <2>4. HasIndexes(s, c, wanted)'
    BY <1>5, <2>1, <2>2, <2>3
  <2>5. Database(s)' = d /\ collection = get_collection_name(c)
    BY <1>1, <1>2, <1>3, <2>2 DEF Database, db_name_
  <2>6. index \in IndexesOf(d, collection)'
    BY <1>4
  <2>7. QED
    BY <2>2, <2>3, <2>4, <2>5, <2>6 DEF HasIndexes
<1>8. TaskInv'
  <2>1. ASSUME NEW t \in Source, task'[t] # Unset
        PROVE  /\ DOMAIN task'[t] = {"type", "loaded", "custom"}
               /\ task'[t].type \in Requested
               /\ HasIndexes(t, task[t].type, DoneIndexes(task[t]))'
    <3>1. CASE t = s
      <4>1. task'[t] = then
        BY <1>3, <3>1 DEF IndexInv
      <4>2. QED
        BY <1>7, <3>1, <4>1 DEF IndexInv, TaskInv
    <3>2. CASE t # s
      <4>1. task'[t] = task[t]
        BY <1>3, <3>2 DEF IndexInv
      <4>2. PICK c : c = task[t].type
        OBVIOUS
      <4>3. PICK wanted : wanted = DoneIndexes(task[t])
        OBVIOUS
      <4>4. HasIndexes(t, c, wanted)'
        BY <1>5, <2>1, <4>1, <4>2, <4>3 DEF IndexInv, TaskInv
      <4>5. QED
        BY <2>1, <4>1, <4>2, <4>3, <4>4 DEF IndexInv, TaskInv
    <3>3. QED
      BY <3>1, <3>2
  <2>2. QED
    BY <2>1 DEF TaskInv
<1>9. ASSUME NEW t \in Source, opened'[t] = Unset
      PROVE  collection_dict_'[t] = {} /\ task'[t] = Unset
  BY <1>3, <1>9 DEF IndexInv
<1>10. QED
  BY <1>3, <1>6, <1>8, <1>9 DEF IndexInv

\* Steps that create and lose no index, by what they do to the tasks and the collections.
LEMMA QuietStep ==
    ASSUME IndexInv, UNCHANGED <<databases, lost>>,
           \A t \in Source : opened[t] # Unset => opened'[t] = opened[t],
           DOMAIN opened' = Source, DOMAIN collection_dict_' = Source, DOMAIN task' = Source,
           \A t \in Source : opened'[t] = Unset => collection_dict_'[t] = {} /\ task'[t] = Unset,
           \A t \in Source : task'[t] = Unset \/ task'[t] = task[t],
           \A t \in Source : \A c \in collection_dict_'[t] :
               c \in collection_dict_[t] \/ (task[t] # Unset /\ CreatedAll(task[t]) /\ c = task[t].type)
    PROVE  IndexInv'
<1>1. \A n, m : IndexesOf(n, m)' = IndexesOf(n, m)
  BY DEF IndexesOf
<1>2. ASSUME NEW t \in Source, NEW c, NEW wanted, HasIndexes(t, c, wanted), opened[t] # Unset
      PROVE  HasIndexes(t, c, wanted)'
  BY <1>1, <1>2, IndexesKept
<1>3. \A t \in Source : opened[t] = Unset => collection_dict_[t] = {} /\ task[t] = Unset
  BY DEF IndexInv
<1>4. CachedInv'
  <2>1. ASSUME NEW t \in Source, NEW c \in collection_dict_'[t]
        PROVE  c \in Requested /\ HasIndexes(t, c, AllIndexes(c))'
    <3>1. c \in Requested /\ HasIndexes(t, c, AllIndexes(c))
      <4>1. CASE c \in collection_dict_[t]
        BY <4>1 DEF IndexInv, CachedInv
      <4>2. CASE task[t] # Unset /\ CreatedAll(task[t]) /\ c = task[t].type
        <5>1. c \in Requested /\ HasIndexes(t, c, DoneIndexes(task[t]))
          BY <4>2 DEF IndexInv, TaskInv
        <5>2. AllIndexes(c) = DoneIndexes(task[t])
          BY <4>2 DEF AllIndexes, DoneIndexes, CreatedAll
        <5>3. QED
          BY <5>1, <5>2
      <4>3. QED
        BY <4>1, <4>2
    <3>2. opened[t] # Unset
      BY <1>3
    <3>3. PICK wanted : wanted = AllIndexes(c)
      OBVIOUS
    <3>4. HasIndexes(t, c, wanted)'
      BY <1>2, <3>1, <3>2, <3>3
    <3>5. QED
      BY <3>1, <3>3, <3>4
  <2>2. QED
    BY <2>1 DEF CachedInv
<1>5. TaskInv'
  <2>1. ASSUME NEW t \in Source, task'[t] # Unset
        PROVE  /\ DOMAIN task'[t] = {"type", "loaded", "custom"}
               /\ task'[t].type \in Requested
               /\ HasIndexes(t, task[t].type, DoneIndexes(task[t]))'
    <3>1. task'[t] = task[t] /\ opened[t] # Unset
      BY <1>3, <2>1
    <3>2. PICK c : c = task[t].type
      OBVIOUS
    <3>3. PICK wanted : wanted = DoneIndexes(task[t])
      OBVIOUS
    <3>4. HasIndexes(t, c, wanted)
      BY <2>1, <3>1, <3>2, <3>3 DEF IndexInv, TaskInv
    <3>5. HasIndexes(t, c, wanted)'
      BY <1>2, <3>1, <3>4
    <3>6. QED
      BY <2>1, <3>1, <3>2, <3>3, <3>5 DEF IndexInv, TaskInv
  <2>2. QED
    BY <2>1 DEF TaskInv
<1>6. QED
  BY <1>4, <1>5 DEF IndexInv

\* A first request finds the class without a task and without a collection.
LEMMA RequestStep ==
    ASSUME IndexInv, NEW s \in Source, get_or_create_collection(s)
    PROVE  IndexInv'
<1>1. PICK c \in Requested :
          /\ opened[s] # Unset /\ task[s] = Unset /\ c \notin collection_dict_[s]
          /\ task' = [task EXCEPT ![s] = [type |-> c, loaded |-> FALSE, custom |-> get_attributes_dict(c)]]
          /\ lost' = lost \ {<<s, c>>}
          /\ UNCHANGED <<opened, databases, collection_dict_>>
  BY DEF get_or_create_collection
<1>2. ASSUME NEW t \in Source, NEW b, NEW wanted, HasIndexes(t, b, wanted), <<t, b>> # <<s, c>>
      PROVE  HasIndexes(t, b, wanted)'
  BY <1>1, <1>2 DEF HasIndexes, IndexesOf, Database, db_name_
<1>3. CachedInv'
  <2>1. ASSUME NEW t \in Source, NEW b \in collection_dict_'[t]
        PROVE  b \in Requested /\ HasIndexes(t, b, AllIndexes(b))'
    <3>1. b \in Requested /\ HasIndexes(t, b, AllIndexes(b)) /\ <<t, b>> # <<s, c>>
      BY <1>1 DEF IndexInv, CachedInv
    <3>2. PICK wanted : wanted = AllIndexes(b)
      OBVIOUS
    <3>3. HasIndexes(t, b, wanted)'
      BY <1>2, <3>1, <3>2
    <3>4. QED
      BY <3>1, <3>2, <3>3
  <2>2. QED
    BY <2>1 DEF CachedInv
<1>4. TaskInv'
  <2>1. ASSUME NEW t \in Source, task'[t] # Unset
        PROVE  /\ DOMAIN task'[t] = {"type", "loaded", "custom"}
               /\ task'[t].type \in Requested
               /\ HasIndexes(t, task[t].type, DoneIndexes(task[t]))'
    <3>1. CASE t = s
      <4>1. task'[t] = [type |-> c, loaded |-> FALSE, custom |-> get_attributes_dict(c)]
        BY <1>1, <3>1 DEF IndexInv
      <4>2. DoneIndexes(task'[t]) = {}
        BY <4>1 DEF DoneIndexes
      <4>3. DoneIndexes(task[t])' = {}
        BY <4>2 DEF DoneIndexes
      <4>4. HasIndexes(t, task[t].type, DoneIndexes(task[t]))'
        BY <4>3 DEF HasIndexes
      <4>5. QED
        BY <4>1, <4>4
    <3>2. CASE t # s
      <4>1. task'[t] = task[t]
        BY <1>1, <3>2 DEF IndexInv
      <4>2. PICK b : b = task[t].type
        OBVIOUS
      <4>3. PICK wanted : wanted = DoneIndexes(task[t])
        OBVIOUS
      <4>4. HasIndexes(t, b, wanted)'
        BY <1>2, <2>1, <3>2, <4>1, <4>2, <4>3 DEF IndexInv, TaskInv
      <4>5. QED
        BY <2>1, <4>1, <4>2, <4>3, <4>4 DEF IndexInv, TaskInv
    <3>3. QED
      BY <3>1, <3>2
  <2>2. QED
    BY <2>1 DEF TaskInv
<1>5. \A t \in Source : opened'[t] = Unset => collection_dict_'[t] = {} /\ task'[t] = Unset
  BY <1>1 DEF IndexInv
<1>6. QED
  BY <1>1, <1>3, <1>4, <1>5 DEF IndexInv

\* What a dropped database held is lost for every class that was in use with it; the
\* databases of other environments are as they were.
LEMMA DeleteStep ==
    ASSUME IndexInv, NEW s \in Source, DeleteDb(s)
    PROVE  IndexInv'
<1> DEFINE hit == {t \in Source : opened[t] # Unset /\ Database(t) = Database(s)}
<1>1. /\ lost' = lost \cup UNION {{t} \X InUse(t) : t \in hit}
      /\ opened' = opened /\ collection_dict_' = collection_dict_ /\ task' = task
  BY DEF DeleteDb, delete_db
<1>2. \A t \in hit : \A c \in InUse(t) : <<t, c>> \in lost'
  BY <1>1
<1>3. lost \subseteq lost'
  BY <1>1
<1>4. ASSUME NEW n, n # Database(s), NEW m PROVE IndexesOf(n, m)' = IndexesOf(n, m)
  BY <1>4 DEF DeleteDb, delete_db, drop_database, IndexesOf
<1>5. ASSUME NEW t \in Source, NEW c \in InUse(t), NEW wanted, HasIndexes(t, c, wanted), opened[t] # Unset
      PROVE  HasIndexes(t, c, wanted)'
  <2>1. CASE Database(t) = Database(s)
    BY <1>2, <1>5, <2>1 DEF HasIndexes
  <2>2. CASE Database(t) # Database(s)
    <3>1. PICK n : n = Database(t)
      OBVIOUS
    <3>2. Database(t)' = n
      BY <1>1, <3>1 DEF Database, db_name_
    <3>3. PICK m : m = get_collection_name(c)
      OBVIOUS
    <3>4. IndexesOf(n, m)' = IndexesOf(n, m)
      BY <1>4, <2>2, <3>1
    <3>5. QED
      BY <1>3, <1>5, <3>1, <3>2, <3>3, <3>4 DEF HasIndexes
  <2>3. QED
    BY <2>1, <2>2
<1> HIDE DEF hit
<1>6. \A t \in Source : opened[t] = Unset => collection_dict_[t] = {} /\ task[t] = Unset
  BY DEF IndexInv
<1>7. CachedInv'
  <2>1. ASSUME NEW t \in Source, NEW c \in collection_dict_'[t]
        PROVE  c \in Requested /\ HasIndexes(t, c, AllIndexes(c))'
    <3>1. c \in InUse(t) /\ opened[t] # Unset /\ c \in Requested /\ HasIndexes(t, c, AllIndexes(c))
      BY <1>1, <1>6 DEF IndexInv, CachedInv, InUse
    <3>2. PICK wanted : wanted = AllIndexes(c)
      OBVIOUS
    <3>3. HasIndexes(t, c, wanted)'
      BY <1>5, <3>1, <3>2
    <3>4. QED
      BY <3>1, <3>2, <3>3
  <2>2. QED
    BY <2>1 DEF CachedInv
<1>8. TaskInv'
  <2>1. ASSUME NEW t \in Source, task'[t] # Unset
        PROVE  /\ DOMAIN task'[t] = {"type", "loaded", "custom"}
               /\ task'[t].type \in Requested
               /\ HasIndexes(t, task[t].type, DoneIndexes(task[t]))'
    <3>1. task'[t] = task[t] /\ opened[t] # Unset
      BY <1>1, <1>6, <2>1
    <3>2. PICK c : c = task[t].type
      OBVIOUS
    <3>3. PICK wanted : wanted = DoneIndexes(task[t])
      OBVIOUS
    <3>4. HasIndexes(t, c, wanted) /\ c \in InUse(t)
      BY <2>1, <3>1, <3>2, <3>3 DEF IndexInv, TaskInv, InUse
    <3>5. HasIndexes(t, c, wanted)'
      BY <1>5, <3>1, <3>4
    <3>6. QED
      BY <2>1, <3>1, <3>2, <3>3, <3>5 DEF IndexInv, TaskInv
  <2>2. QED
    BY <2>1 DEF TaskInv
<1>9. QED
  BY <1>1, <1>7, <1>8 DEF IndexInv

\* Every step keeps it.
LEMMA IndexStep ==
    ASSUME IndexInv, [CollectionsNext]_collectionVars
    PROVE  IndexInv'
<1>1. ASSUME NEW s \in Source, OpenSource(s) PROVE IndexInv'
  <2>1. PICK e : opened[s] = Unset /\ opened' = [opened EXCEPT ![s] = e]
    BY <1>1 DEF OpenSource, init
  <2>2. UNCHANGED <<databases, collection_dict_, task, lost>>
    BY <1>1 DEF OpenSource, init
  <2>3. \A t \in Source : opened[t] # Unset => opened'[t] = opened[t]
    BY <2>1 DEF IndexInv
  <2>4. \A t \in Source : opened'[t] = Unset => collection_dict_'[t] = {} /\ task'[t] = Unset
    BY <2>1, <2>2 DEF IndexInv
  <2>5. DOMAIN opened' = Source /\ DOMAIN collection_dict_' = Source /\ DOMAIN task' = Source
    BY <2>1, <2>2 DEF IndexInv
  <2>6. QED
    BY <2>2, <2>3, <2>4, <2>5, QuietStep
<1>2. ASSUME NEW s \in Source, CreateLoadIndex(s) PROVE IndexInv'
  <2>1. PICK then : then = [task[s] EXCEPT !.loaded = TRUE]
    OBVIOUS
  <2>2. task[s] # Unset /\ ~task[s].loaded /\ create_index(s, LoadIndex, then)
    BY <1>2, <2>1 DEF CreateLoadIndex
  <2>3. DOMAIN task[s] = {"type", "loaded", "custom"}
    BY <2>2 DEF IndexInv, TaskInv
  <2>4. DOMAIN then = {"type", "loaded", "custom"} /\ then.type = task[s].type /\ then.custom = task[s].custom
    BY <2>1, <2>3
  <2>5. DoneIndexes(then) \subseteq DoneIndexes(task[s]) \cup {LoadIndex}
    BY <2>4 DEF DoneIndexes
  <2>6. PICK index : index = LoadIndex
    OBVIOUS
  <2>7. QED
    BY <2>2, <2>4, <2>5, <2>6, CreateIndexStep
<1>3. ASSUME NEW s \in Source, CreateCustomIndex(s) PROVE IndexInv'
  <2>1. PICK info \in task[s].custom :
            create_index(s, [name |-> info.name, keys |-> parse_definition(info.definition)],
                         [task[s] EXCEPT !.custom = @ \ {info}])
    BY <1>3 DEF CreateCustomIndex
  <2>2. PICK then : then = [task[s] EXCEPT !.custom = @ \ {info}]
    OBVIOUS
  <2>3. PICK index : index = IndexOf(info)
    OBVIOUS
  <2>4. task[s] # Unset /\ create_index(s, index, then)
    BY <1>3, <2>1, <2>2, <2>3 DEF CreateCustomIndex, IndexOf
  <2>5. DOMAIN task[s] = {"type", "loaded", "custom"}
    BY <2>4 DEF IndexInv, TaskInv
  <2>6. /\ DOMAIN then = {"type", "loaded", "custom"} /\ then.type = task[s].type
        /\ then.loaded = task[s].loaded /\ then.custom = task[s].custom \ {info}
    BY <2>2, <2>5
  <2>7. DoneIndexes(then) \subseteq DoneIndexes(task[s]) \cup {index}
    BY <2>3, <2>6 DEF DoneIndexes
  <2>8. QED
    BY <2>4, <2>6, <2>7, CreateIndexStep
<1>4. ASSUME NEW s \in Source, CacheCollection(s) PROVE IndexInv'
  <2>1. /\ task[s] # Unset /\ CreatedAll(task[s])
        /\ collection_dict_' = [collection_dict_ EXCEPT ![s] = @ \cup {task[s].type}]
        /\ task' = [task EXCEPT ![s] = Unset]
    BY <1>4 DEF CacheCollection
  <2>2. UNCHANGED <<opened, databases, lost>>
    BY <1>4 DEF CacheCollection
  <2>3. \A t \in Source : \A c \in collection_dict_'[t] :
            c \in collection_dict_[t] \/ (task[t] # Unset /\ CreatedAll(task[t]) /\ c = task[t].type)
    BY <2>1 DEF IndexInv
  <2>4. \A t \in Source : task'[t] = Unset \/ task'[t] = task[t]
    BY <2>1 DEF IndexInv
  <2>5. \A t \in Source : opened'[t] = Unset => collection_dict_'[t] = {} /\ task'[t] = Unset
    BY <2>1, <2>2 DEF IndexInv
  <2>6. DOMAIN opened' = Source /\ DOMAIN collection_dict_' = Source /\ DOMAIN task' = Source
    BY <2>1, <2>2 DEF IndexInv
  <2>7. QED
    BY <2>2, <2>3, <2>4, <2>5, <2>6, QuietStep
<1>5. ASSUME NEW s \in Source, Throws(s) PROVE IndexInv'
  <2>1. task' = [task EXCEPT ![s] = Unset]
    BY <1>5 DEF Throws
  <2>2. UNCHANGED <<opened, databases, collection_dict_, lost>>
    BY <1>5 DEF Throws
  <2>3. \A t \in Source : task'[t] = Unset \/ task'[t] = task[t]
    BY <2>1 DEF IndexInv
  <2>4. \A t \in Source : opened'[t] = Unset => collection_dict_'[t] = {} /\ task'[t] = Unset
    BY <2>1, <2>2 DEF IndexInv
  <2>5. DOMAIN opened' = Source /\ DOMAIN collection_dict_' = Source /\ DOMAIN task' = Source
    BY <2>1, <2>2 DEF IndexInv
  <2>6. QED
    BY <2>2, <2>3, <2>4, <2>5, QuietStep
<1>6. CASE UNCHANGED collectionVars
  BY <1>6, QuietStep DEF collectionVars, IndexInv
<1>7. QED
  BY <1>1, <1>2, <1>3, <1>4, <1>5, <1>6, RequestStep, DeleteStep DEF CollectionsNext

\* The names and keys of the indexes are those that the class and its bases declare.
LEMMA IndexesAreDeclared ==
    ASSUME IndexInv
    PROVE  CollectionsIndexed
<1> SUFFICES ASSUME NEW s \in Source, NEW c \in collection_dict_[s], <<s, c>> \notin lost, NEW root \in RecordsOf(c)
             PROVE  LET indexes == IndexesOf(Database(s), root) IN
                    /\ LoadIndex \in indexes
                    /\ \A d \in Derived(c) : \A a \in Range(Attributes[d]) :
                          \E i \in indexes :
                              i.keys = DeclaredKeys(a) /\ (a.name # Unset => i.name = <<"custom", a.name>>)
  BY DEF CollectionsIndexed
<1>1. c \in DataClass /\ HasIndexes(s, c, AllIndexes(c))
  BY ClassesAssumption DEF IndexInv, CachedInv
<1>2. get_collection_name(c) = root
  BY <1>1, RootNames
<1>3. AllIndexes(c) \subseteq IndexesOf(Database(s), root)
  BY <1>1, <1>2 DEF HasIndexes
<1>4. ASSUME NEW d \in Derived(c), NEW a \in Range(Attributes[d])
      PROVE  \E i \in AllIndexes(c) :
                 i.keys = DeclaredKeys(a) /\ (a.name # Unset => i.name = <<"custom", a.name>>)
  <2>1. d \in DataClass
    BY <1>1, ChainShape DEF Derived, IsChainOf, Range
  <2>2. a \in attributes(c)
    BY <1>1, AttributesAreAll
  <2>3. PICK info : info = [definition |-> DefinitionOf(a), name |-> NameOf(a)]
    OBVIOUS
  <2>4. info \in get_attributes_dict(c)
    BY <2>2, <2>3 DEF get_attributes_dict
  <2>5. PICK i : i = IndexOf(info)
    OBVIOUS
  <2>6. i \in AllIndexes(c)
    BY <2>4, <2>5 DEF AllIndexes
  <2>7. DOMAIN a.definition = {"pluses", "blanks", "tokens"}
    BY <2>1, AttributesAssumption
  <2>8. DefinitionOf(a).tokens = a.definition.tokens
    BY <2>7 DEF DefinitionOf
  <2>9. i.keys = DeclaredKeys(a)
    BY <2>3, <2>5, <2>8 DEF IndexOf, parse_definition, DeclaredKeys
  <2>10. a.name # Unset => i.name = <<"custom", a.name>>
    BY <2>3, <2>5 DEF IndexOf, NameOf
  <2>11. QED
    BY <2>6, <2>9, <2>10
<1>5. LoadIndex \in AllIndexes(c)
  BY DEF AllIndexes
<1>6. QED
  BY <1>3, <1>4, <1>5

\* A collection that is cached for a class of records has the index for loading by key
\* and all that the class and its bases declare, for any classes, attributes and
\* environments: where creating one fails or another data source is at the same
\* collection, the class is not cached, unless the database is dropped afterwards.
THEOREM CollectionsHaveIndexes == CollectionsSpec => []CollectionsIndexed
<1>1. CollectionsInit => IndexInv
  BY DEF CollectionsInit, SourcesInit, IndexInv, CachedInv, TaskInv
<1>2. IndexInv /\ [CollectionsNext]_collectionVars => IndexInv'
  BY IndexStep
<1>3. IndexInv => CollectionsIndexed
  BY IndexesAreDeclared
<1>4. QED
  BY <1>1, <1>2, <1>3, PTL DEF CollectionsSpec

-----------------------------------------------------------------------------
(* The stages of a query.                                                    *)

Key == SortField \X {Ascending, Descending}
Stage ==
    {<<"match", filter>> : filter \in Filters} \cup {<<"sort", keys>> : keys \in Seq(Key)}
        \cup {<<"limit", n>> : n \in 1 .. Len(Contents) - 1} \cup {<<"group", field>> : field \in SortField}

\* A set of numbers that is not empty has a least one.
LEMMA LeastNatural ==
    ASSUME NEW S \in SUBSET Nat, S # {}
    PROVE  \E n \in S : \A m \in S : n <= m
<1>1. PICK n \in S : \A m \in S : ~(<<m, n>> \in OpToRel(<, Nat))
  BY NatLessThanWellFounded, WFMin, Zenon
<1>2. \A m \in S : ~(m < n)
  BY <1>1 DEF OpToRel
<1>3. QED
  BY <1>2

\* The results after each of the first n stages.
IsRun(stages, n, f) ==
    f = [m \in 0 .. n |-> IF m = 0 THEN {Contents} ELSE ApplyToAll(stages[m], f[m - 1])]

\* There are such results.
LEMMA RunExists ==
    ASSUME NEW stages, NEW n \in Nat
    PROVE  \E f : IsRun(stages, n, f)
<1> DEFINE S == {m \in Nat : ~\E f : IsRun(stages, m, f)}
<1> SUFFICES ASSUME S # {}
             PROVE  FALSE
  OBVIOUS
<1>1. PICK k \in S : \A m \in S : k <= m
  BY LeastNatural
<1>2. CASE k = 0
  <2>1. PICK f : f = [m \in 0 .. 0 |-> {Contents}]
    OBVIOUS
  <2>2. f = [m \in 0 .. 0 |-> IF m = 0 THEN {Contents} ELSE ApplyToAll(stages[m], f[m - 1])]
    BY <2>1
  <2>3. QED
    BY <1>2, <2>2 DEF IsRun
<1>3. CASE k # 0
  <2>1. k - 1 \in Nat /\ k - 1 \notin S /\ k \in Nat
    BY <1>1, <1>3
  <2>2. PICK f : IsRun(stages, k - 1, f)
    BY <2>1
  <2>3. DOMAIN f = 0 .. k - 1
    BY <2>2 DEF IsRun
  <2>4. \A m \in 0 .. k - 1 : f[m] = IF m = 0 THEN {Contents} ELSE ApplyToAll(stages[m], f[m - 1])
    BY <2>2 DEF IsRun
  <2>5. PICK g : g = [m \in 0 .. k |-> IF m = k THEN ApplyToAll(stages[k], f[k - 1]) ELSE f[m]]
    OBVIOUS
  <2>6. \A m \in 0 .. k - 1 : g[m] = f[m]
    BY <2>1, <2>5
  <2>7. ASSUME NEW m \in 0 .. k
        PROVE  g[m] = IF m = 0 THEN {Contents} ELSE ApplyToAll(stages[m], g[m - 1])
    <3>1. CASE m = k
      <4>1. k - 1 \in 0 .. k - 1 /\ k \in 0 .. k
        BY <2>1
      <4>2. g[k] = ApplyToAll(stages[k], f[k - 1]) /\ g[k - 1] = f[k - 1]
        BY <2>5, <2>6, <4>1
      <4>3. QED
        BY <1>3, <3>1, <4>2
    <3>2. CASE m = 0
      BY <1>3, <2>1, <2>4, <2>6, <3>2
    <3>3. CASE m # k /\ m # 0
      <4>1. m \in 0 .. k - 1 /\ m - 1 \in 0 .. k - 1
        BY <2>1, <3>3
      <4>2. g[m] = f[m] /\ g[m - 1] = f[m - 1]
        BY <2>6, <4>1
      <4>3. QED
        BY <2>4, <3>3, <4>1, <4>2
    <3>4. QED
      BY <3>1, <3>2, <3>3
  <2>8. IsRun(stages, k, g)
    BY <2>5, <2>7 DEF IsRun
  <2>9. QED
    BY <2>8
<1>4. QED
  BY <1>2, <1>3

\* Two runs agree where their stages do.
LEMMA RunsAgree ==
    ASSUME NEW p, NEW q, NEW n \in Nat, NEW k \in Nat, NEW f, NEW g,
           IsRun(p, n, f), IsRun(q, k, g), n <= k, \A m \in 1 .. n : p[m] = q[m]
    PROVE  f[n] = g[n]
<1> DEFINE S == {m \in 0 .. n : f[m] # g[m]}
<1>1. /\ \A m \in 0 .. n : f[m] = IF m = 0 THEN {Contents} ELSE ApplyToAll(p[m], f[m - 1])
      /\ \A m \in 0 .. n : g[m] = IF m = 0 THEN {Contents} ELSE ApplyToAll(q[m], g[m - 1])
  <2>1. \A m \in 0 .. n : f[m] = IF m = 0 THEN {Contents} ELSE ApplyToAll(p[m], f[m - 1])
    BY DEF IsRun
  <2>2. \A m \in 0 .. k : g[m] = IF m = 0 THEN {Contents} ELSE ApplyToAll(q[m], g[m - 1])
    BY DEF IsRun
  <2>3. \A m \in 0 .. n : m \in 0 .. k
    OBVIOUS
  <2>4. QED
    BY <2>1, <2>2, <2>3
<1>2. SUFFICES ASSUME S # {}
               PROVE  FALSE
  OBVIOUS
<1>3. PICK m \in S : \A i \in S : m <= i
  <2>1. S \in SUBSET Nat
    OBVIOUS
  <2> HIDE DEF S
  <2>2. QED
    BY <1>2, <2>1, LeastNatural
<1>4. m # 0
  BY <1>1, <1>3
<1>5. m \in 1 .. n /\ m - 1 \in 0 .. n /\ m - 1 \notin S
  BY <1>3, <1>4
<1>6. f[m - 1] = g[m - 1] /\ p[m] = q[m]
  BY <1>5
<1>7. f[m] = g[m]
  BY <1>1, <1>4, <1>5, <1>6
<1>8. QED
  BY <1>3, <1>7

\* The recursive definition in Aggregate has a solution, and so it is one.
LEMMA AggregateRun ==
    ASSUME NEW p, Len(p) \in Nat
    PROVE  \E f : IsRun(p, Len(p), f) /\ Aggregate(p) = f[Len(p)]
<1> DEFINE run == CHOOSE f : f = [m \in 0 .. Len(p) |-> IF m = 0 THEN {Contents} ELSE ApplyToAll(p[m], f[m - 1])]
<1>1. \E f : f = [m \in 0 .. Len(p) |-> IF m = 0 THEN {Contents} ELSE ApplyToAll(p[m], f[m - 1])]
  <2>1. PICK f : IsRun(p, Len(p), f)
    BY RunExists
  <2>2. QED
    BY <2>1 DEF IsRun
<1>2. run = [m \in 0 .. Len(p) |-> IF m = 0 THEN {Contents} ELSE ApplyToAll(p[m], run[m - 1])]
  BY <1>1
<1>3. Aggregate(p) = run[Len(p)]
  BY DEF Aggregate
<1> HIDE DEF run
<1>4. QED
  BY <1>2, <1>3 DEF IsRun

\* A stage more is applied to the results so far.
LEMMA AggregateNext ==
    ASSUME NEW p \in Seq(Stage), NEW a \in Stage
    PROVE  Aggregate(p \o <<a>>) = ApplyToAll(a, Aggregate(p))
<1>1. PICK q : q = p \o <<a>>
  OBVIOUS
<1>2. PICK n \in Nat : n = Len(p)
  OBVIOUS
<1>3. Len(q) = n + 1 /\ q[n + 1] = a /\ \A m \in 1 .. n : p[m] = q[m]
  BY <1>1, <1>2
<1>4. PICK f : IsRun(p, n, f) /\ Aggregate(p) = f[n]
  BY <1>2, AggregateRun
<1>5. PICK g : IsRun(q, n + 1, g) /\ Aggregate(q) = g[n + 1]
  BY <1>2, <1>3, AggregateRun
<1>6. f[n] = g[n]
  <2>1. n + 1 \in Nat /\ n <= n + 1
    BY <1>2
  <2>2. QED
    BY <1>3, <1>4, <1>5, <2>1, RunsAgree
<1>7. n + 1 \in 0 .. n + 1 /\ n + 1 # 0 /\ n + 1 - 1 = n
  BY <1>2
<1>8. g[n + 1] = ApplyToAll(q[n + 1], g[n])
  <2>1. \A m \in 0 .. n + 1 : g[m] = IF m = 0 THEN {Contents} ELSE ApplyToAll(q[m], g[m - 1])
    BY <1>5 DEF IsRun
  <2>2. QED
    BY <1>7, <2>1
<1>9. QED
  BY <1>1, <1>3, <1>4, <1>5, <1>6, <1>8

\* Before any stage there are the documents of the collection.
LEMMA AggregateNone == Aggregate(<<>>) = {Contents}
<1>1. Len(<<>>) = 0
  OBVIOUS
<1>2. PICK f : IsRun(<<>>, 0, f) /\ Aggregate(<<>>) = f[0]
  BY <1>1, AggregateRun
<1>3. QED
  BY <1>2 DEF IsRun

-----------------------------------------------------------------------------
(* The calls.                                                                *)

\* The pipeline as the next call finds it.
SortStage(keys) == IF keys = <<>> THEN <<>> ELSE <<<<"sort", keys>>>>
Flushed == pipeline_ \o SortStage(sort_)

QueryInv ==
    /\ pipeline_ \in Seq(Stage) /\ sort_ \in Seq(Key)
    /\ DOMAIN expected = {"results", "keys"}
    /\ expected.keys = sort_
    /\ expected.results = Aggregate(Flushed)
    /\ CursorAsAsked

\* What is sorted by the keys is sorted by the first of them.
LEMMA SortedByFewer ==
    ASSUME NEW keys \in Seq(Key), NEW key, NEW s, Sorted(Append(keys, key), s)
    PROVE  Sorted(keys, s)
<1> DEFINE more == Append(keys, key)
<1>1. DOMAIN keys = 1 .. Len(keys) /\ DOMAIN more = 1 .. Len(keys) + 1 /\ Len(keys) \in Nat
  OBVIOUS
<1>2. \A i \in 1 .. Len(keys) : more[i] = keys[i]
  OBVIOUS
<1> HIDE DEF more
<1>3. ASSUME NEW a, NEW b, InOrder(more, a, b) PROVE InOrder(keys, a, b)
  <2>1. ASSUME NEW i \in DOMAIN keys, Before(keys[i], b, a)
        PROVE  \E j \in 1 .. i - 1 : Before(keys[j], a, b)
    <3>1. i \in DOMAIN more /\ more[i] = keys[i]
      BY <1>1, <1>2
    <3>2. PICK j \in 1 .. i - 1 : Before(more[j], a, b)
      BY <1>3, <2>1, <3>1 DEF InOrder
    <3>3. more[j] = keys[j]
      BY <1>1, <1>2, <3>2
    <3>4. QED
      BY <3>2, <3>3
  <2>2. QED
    BY <2>1 DEF InOrder
<1>4. \A i \in DOMAIN s : \A j \in 1 .. i - 1 : InOrder(more, s[j], s[i])
  BY DEF Sorted, more
<1>5. QED
  BY <1>3, <1>4 DEF Sorted

\* The results after a sort.
LEMMA AggregateSort ==
    ASSUME NEW p \in Seq(Stage), NEW keys \in Seq(Key), keys # <<>>
    PROVE  Aggregate(p \o SortStage(keys)) = UNION {SortedOrders(keys, s) : s \in Aggregate(p)}
<1>1. PICK stage \in Stage : stage = <<"sort", keys>>
  BY DEF Stage
<1>2. Aggregate(p \o SortStage(keys)) = ApplyToAll(stage, Aggregate(p))
  BY <1>1, AggregateNext DEF SortStage
<1>3. stage[1] = "sort" /\ stage[2] = keys
  BY <1>1
<1>4. \A s : Apply(stage, s) = SortedOrders(keys, s)
  BY <1>3 DEF Apply
<1>5. QED
  BY <1>2, <1>4 DEF ApplyToAll

\* A flushed pipeline is one of stages.
LEMMA FlushedType ==
    ASSUME QueryInv
    PROVE  Flushed \in Seq(Stage)
<1>1. PICK keys \in Seq(Key) : keys = sort_
  BY DEF QueryInv
<1>2. <<"sort", keys>> \in Stage
  BY DEF Stage
<1>3. SortStage(keys) \in Seq(Stage)
  BY <1>2 DEF SortStage
<1>4. QED
  BY <1>1, <1>3 DEF QueryInv, Flushed

\* A call that flushes the sort: its stage is applied to what was asked for before.
LEMMA FlushStep ==
    ASSUME QueryInv, NEW stage \in Stage, Flush(<<stage>>),
           expected' = [results |-> ApplyToAll(stage, expected.results), keys |-> <<>>], UNCHANGED cursor
    PROVE  QueryInv'
<1>1. Flushed \in Seq(Stage)
  BY FlushedType
<1>2. pipeline_' = Flushed \o <<stage>> /\ sort_' = <<>>
  BY DEF Flush, Flushed, SortStage
<1>3. PICK p \in Seq(Stage) : p = Flushed
  BY <1>1
<1>4. pipeline_' \in Seq(Stage) /\ pipeline_' = p \o <<stage>>
  BY <1>2, <1>3
<1>5. Flushed' = pipeline_'
  BY <1>2, <1>4 DEF Flushed, SortStage
<1>6. Aggregate(p \o <<stage>>) = ApplyToAll(stage, Aggregate(p))
  BY <1>3, AggregateNext
<1>7. expected.results = Aggregate(p)
  BY <1>3 DEF QueryInv
<1>8. Aggregate(Flushed)' = ApplyToAll(stage, expected.results)
  BY <1>4, <1>5, <1>6, <1>7
<1>9. sort_' \in Seq(Key)
  BY <1>2
<1>10. CursorAsAsked'
  BY DEF QueryInv, CursorAsAsked
<1>11. QED
  BY <1>2, <1>4, <1>8, <1>9, <1>10 DEF QueryInv

\* A cursor reads what was asked for, and flushes the sort too.
LEMMA CursorStep ==
    ASSUME QueryInv, Flush(<<>>), cursor' = [results |-> Aggregate(pipeline_'), asked |-> expected.results],
           expected' = [expected EXCEPT !.keys = <<>>]
    PROVE  QueryInv'
<1>1. PICK p \in Seq(Stage) : p = Flushed
  BY FlushedType
<1>2. p \o <<>> = p
  BY <1>1
<1>3. pipeline_' = p /\ sort_' = <<>>
  BY <1>1, <1>2 DEF Flush, Flushed, SortStage
<1>4. Flushed' = p
  BY <1>2, <1>3 DEF Flushed, SortStage
<1>5. expected'.results = expected.results /\ expected'.keys = <<>> /\ DOMAIN expected' = {"results", "keys"}
  BY DEF QueryInv
<1>6. expected.results = Aggregate(p)
  BY <1>1 DEF QueryInv
<1>7. expected'.results = Aggregate(Flushed)'
  BY <1>4, <1>5, <1>6
<1>8. CursorAsAsked'
  BY <1>3, <1>6 DEF CursorAsAsked
<1>9. QED
  BY <1>1, <1>3, <1>5, <1>7, <1>8 DEF QueryInv

\* A key refines the results that were asked for, as a longer list of keys sorts.
LEMMA ThenByStep ==
    ASSUME QueryInv, then_by
    PROVE  QueryInv'
<1>1. PICK field \in SortField, direction \in {Ascending, Descending} :
          /\ sort_' = Append(sort_, <<field, direction>>)
          /\ expected' = [results |-> IF expected.keys = <<>>
                                      THEN UNION {SortedOrders(<<<<field, direction>>>>, s) : s \in expected.results}
                                      ELSE {s \in expected.results : Sorted(Append(expected.keys, <<field, direction>>), s)},
                          keys |-> Append(expected.keys, <<field, direction>>)]
          /\ UNCHANGED <<pipeline_, cursor, spent>>
  BY DEF then_by
<1>2. PICK key \in Key : key = <<field, direction>>
  BY DEF Key
<1>3. PICK keys \in Seq(Key) : keys = sort_ /\ expected.keys = keys
  BY DEF QueryInv
<1>4. PICK p \in Seq(Stage) : p = pipeline_
  BY DEF QueryInv
<1>5. PICK more : more = Append(keys, key)
  OBVIOUS
<1>6. more \in Seq(Key) /\ Len(more) = Len(keys) + 1 /\ Len(keys) \in Nat
  BY <1>5
<1>7. more # <<>>
  BY <1>6, Len(<<>>) = 0
<1>8. sort_' = more /\ pipeline_' = p /\ cursor' = cursor
  BY <1>1, <1>2, <1>3, <1>4, <1>5
<1>9. expected.results = Aggregate(p \o SortStage(keys))
  BY <1>3, <1>4 DEF QueryInv, Flushed
<1>10. Aggregate(p \o SortStage(more)) = UNION {SortedOrders(more, s) : s \in Aggregate(p)}
  BY <1>6, <1>7, AggregateSort
<1>11. expected'.results = UNION {SortedOrders(more, s) : s \in Aggregate(p)}
  <2>1. CASE keys = <<>>
    <3>1. p \o <<>> = p
      OBVIOUS
    <3>2. expected.results = Aggregate(p)
      BY <1>9, <2>1, <3>1 DEF SortStage
    <3>3. more = <<key>>
      BY <1>5, <2>1
    <3>4. expected'.results = UNION {SortedOrders(<<key>>, s) : s \in expected.results}
      BY <1>1, <1>2, <1>3, <2>1
    <3>5. QED
      BY <3>2, <3>3, <3>4
  <2>2. CASE keys # <<>>
    <3>1. expected.results = UNION {SortedOrders(keys, s) : s \in Aggregate(p)}
      BY <1>9, <2>2, AggregateSort
    <3>2. expected'.results = {s \in expected.results : Sorted(more, s)}
      BY <1>1, <1>2, <1>3, <1>5, <2>2
    <3>3. \A s : Sorted(more, s) => Sorted(keys, s)
      BY <1>5, SortedByFewer
    <3>4. \A s : {t \in SortedOrders(keys, s) : Sorted(more, t)} = SortedOrders(more, s)
      BY <3>3 DEF SortedOrders
    <3>5. QED
      BY <3>1, <3>2, <3>4
  <2>3. QED
    BY <2>1, <2>2
<1>12. Flushed' = p \o SortStage(more)
  BY <1>8 DEF Flushed, SortStage
<1>13. expected'.results = Aggregate(Flushed)'
  BY <1>10, <1>11, <1>12
<1>14. expected'.keys = sort_' /\ DOMAIN expected' = {"results", "keys"}
  BY <1>1, <1>2, <1>3, <1>5, <1>8
<1>15. CursorAsAsked'
  BY <1>8 DEF QueryInv, CursorAsAsked
<1>16. QED
  BY <1>4, <1>6, <1>8, <1>13, <1>14, <1>15 DEF QueryInv

\* A first key sorts the results that were asked for.
LEMMA SortByStep ==
    ASSUME QueryInv, sort_by
    PROVE  QueryInv'
<1>1. PICK field \in SortField, direction \in {Ascending, Descending} :
          /\ sort_ = <<>> /\ sort_' = <<<<field, direction>>>>
          /\ expected' = [results |-> UNION {SortedOrders(sort_', s) : s \in expected.results}, keys |-> sort_']
          /\ UNCHANGED <<pipeline_, cursor, spent>>
  BY DEF sort_by
<1>2. PICK keys \in Seq(Key) : keys = <<<<field, direction>>>>
  <2>1. PICK key \in Key : key = <<field, direction>>
    BY DEF Key
  <2>2. <<key>> \in Seq(Key)
    OBVIOUS
  <2>3. QED
    BY <2>1, <2>2
<1>3. keys # <<>> /\ sort_' = keys
  BY <1>1, <1>2
<1>4. PICK p \in Seq(Stage) : p = pipeline_ /\ pipeline_' = p
  BY <1>1 DEF QueryInv
<1>5. p \o <<>> = p
  OBVIOUS
<1>6. expected.results = Aggregate(p)
  BY <1>1, <1>4, <1>5 DEF QueryInv, Flushed, SortStage
<1>7. Aggregate(p \o SortStage(keys)) = UNION {SortedOrders(keys, s) : s \in Aggregate(p)}
  BY <1>3, AggregateSort
<1>8. expected'.results = UNION {SortedOrders(keys, s) : s \in Aggregate(p)}
  BY <1>1, <1>3, <1>6
<1>9. Flushed' = p \o SortStage(keys)
  BY <1>3, <1>4 DEF Flushed, SortStage
<1>10. expected'.results = Aggregate(Flushed)'
  BY <1>7, <1>8, <1>9
<1>11. CursorAsAsked'
  BY <1>1 DEF QueryInv, CursorAsAsked
<1>12. expected'.keys = sort_' /\ DOMAIN expected' = {"results", "keys"}
  BY <1>1
<1>13. QED
  BY <1>3, <1>4, <1>10, <1>11, <1>12 DEF QueryInv

\* Every call keeps it: where, group_by and limit are stages, and ask for what the stages do.
LEMMA QueryStep ==
    ASSUME QueryInv, [QueryNext]_queryVars
    PROVE  QueryInv'
<1>1. ASSUME where PROVE QueryInv'
  <2>1. PICK filter \in Filters :
            /\ Flush(<<<<"match", filter>>>>)
            /\ expected' = [results |-> {SelectSeq(s, LAMBDA d : d \in filter) : s \in expected.results}, keys |-> <<>>]
            /\ cursor' = cursor
    BY <1>1 DEF where, Expect
  <2>2. PICK stage \in Stage : stage = <<"match", filter>>
    BY DEF Stage
  <2>3. \A s : Apply(stage, s) = {SelectSeq(s, LAMBDA d : d \in filter)}
    BY <2>2 DEF Apply
  <2>4. ApplyToAll(stage, expected.results) = {SelectSeq(s, LAMBDA d : d \in filter) : s \in expected.results}
    BY <2>3 DEF ApplyToAll
  <2>5. QED
    BY <2>1, <2>2, <2>4, FlushStep
<1>2. ASSUME group_by PROVE QueryInv'
  <2>1. PICK field \in SortField :
            /\ Flush(<<<<"group", field>>>>)
            /\ expected' = [results |-> UNION {Orders(FirstOfEach(field, s)) : s \in expected.results}, keys |-> <<>>]
            /\ cursor' = cursor
    BY <1>2 DEF group_by, Expect
  <2>2. PICK stage \in Stage : stage = <<"group", field>>
    BY DEF Stage
  <2>3. \A s : Apply(stage, s) = Orders(FirstOfEach(field, s))
    BY <2>2 DEF Apply
  <2>4. ApplyToAll(stage, expected.results) = UNION {Orders(FirstOfEach(field, s)) : s \in expected.results}
    BY <2>3 DEF ApplyToAll
  <2>5. QED
    BY <2>1, <2>2, <2>4, FlushStep
<1>3. ASSUME limit PROVE QueryInv'
  <2>1. PICK n \in 1 .. Len(Contents) - 1 :
            /\ Flush(<<<<"limit", n>>>>)
            /\ expected' = [results |-> {Prefix(n, s) : s \in expected.results}, keys |-> <<>>]
            /\ cursor' = cursor
    BY <1>3 DEF limit, Expect
  <2>2. PICK stage \in Stage : stage = <<"limit", n>>
    BY DEF Stage
  <2>3. \A s : Apply(stage, s) = {Prefix(n, s)}
    BY <2>2 DEF Apply
  <2>4. ApplyToAll(stage, expected.results) = {Prefix(n, s) : s \in expected.results}
    BY <2>3 DEF ApplyToAll
  <2>5. QED
    BY <2>1, <2>2, <2>4, FlushStep
<1>4. ASSUME get_cursor \/ select PROVE QueryInv'
  <2>1. /\ Flush(<<>>)
        /\ cursor' = [results |-> Aggregate(pipeline_'), asked |-> expected.results]
        /\ expected' = [expected EXCEPT !.keys = <<>>]
    BY <1>4 DEF get_cursor, select
  <2>2. QED
    BY <2>1, CursorStep
<1>5. CASE UNCHANGED queryVars
  BY <1>5 DEF queryVars, QueryInv, CursorAsAsked, Flushed, SortStage
<1>6. QED
  BY <1>1, <1>2, <1>3, <1>4, <1>5, SortByStep, ThenByStep DEF QueryNext

\* A cursor gives the results that the calls before it asked for, whatever their number,
\* order, filters and keys: the sort that is held back is written before the next stage,
\* and a key that comes after others refines them.
THEOREM CursorsAsAsked == QuerySpec => []CursorAsAsked
<1>1. QueryInit => QueryInv
  <2> SUFFICES ASSUME QueryInit PROVE QueryInv
    OBVIOUS
  <2>1. Flushed = <<>>
    BY DEF QueryInit, Flushed, SortStage
  <2>2. expected.results = Aggregate(Flushed)
    BY <2>1, AggregateNone DEF QueryInit
  <2>3. QED
    BY <2>2 DEF QueryInit, QueryInv, CursorAsAsked
<1>2. QueryInv /\ [QueryNext]_queryVars => QueryInv'
  BY QueryStep
<1>3. QueryInv => CursorAsAsked
  BY DEF QueryInv
<1>4. QED
  BY <1>1, <1>2, <1>3, PTL DEF QuerySpec
=============================================================================
