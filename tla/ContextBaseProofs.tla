-------------------------- MODULE ContextBaseProofs -------------------------
(***************************************************************************)
(* What a program does through contexts, proved for any contexts, data      *)
(* sources, homes, record objects, keys, names and number of calls: a       *)
(* dataset shows what was last asked of it and its imports, an object has    *)
(* the id and dataset of a version that is stored, and a cached name is one  *)
(* of a dataset that is stored.                                              *)
(*                                                                         *)
(* The argument is about the versions under one key in one dataset: the     *)
(* last of them has the value that was asked for, since ids only grow.       *)
(* Which datasets a lookup list has plays no part in it.                     *)
(***************************************************************************)
EXTENDS ContextBase, FiniteSetTheorems, WellFoundedInduction, TLAPS

DataKeys == {DataKeyFor(k) : k \in RecordKeys}
Keys == DataKeys \cup {DataSetKeyFor(n) : n \in DataSetName}
Values == RecordValues \cup {Deleted}
VersionType == [id : Nat, key : Keys, data_set : Nat, value : Values, imports : SUBSET Nat]
RecordType == [key : DataKeys, value : Values, id : Nat, data_set : Nat, context : Context \cup {"none"}]

ContextTypes ==
    /\ data_source \in [Context -> DataStore] /\ data_set \in [Context -> Nat]
    /\ stored \in [DataStore -> Seq(VersionType)]
    /\ record \in [RecordObject -> RecordType]
    /\ last_id \in Nat
    /\ DOMAIN asked = DataStore /\ DOMAIN names = DataStore

\* Ids are unique, and the latest is the last that was generated.
VersionsOf(V, last) ==
    /\ \A v \in V : v.id <= last /\ \A q \in V : q.id = v.id => q = v
    /\ \E b \in Nat : \A v \in V : v.data_set <= b
\* What was asked for a key in a dataset is in the latest version of the two.
Place(v) == <<v.data_set, v.key[2]>>
AskedOf(V, f) ==
    /\ \A v \in V : v.key \in DataKeys => Place(v) \in DOMAIN f
    /\ \A x \in DOMAIN f :
          \E v \in V :
              /\ v.key \in DataKeys /\ Place(v) = x /\ f[x] = v.value
              /\ \A q \in V : q.key = v.key /\ q.data_set = v.data_set => q.id <= v.id
StoredAsAsked ==
    \A s \in DataStore : VersionsOf(Range(stored[s]), last_id) /\ AskedOf(Range(stored[s]), asked[s])
ContextInv == ContextTypes /\ StoredAsAsked /\ ObjectsStored /\ NamesStored

-----------------------------------------------------------------------------
(* One version more.                                                         *)

\* A set of numbers that is not empty has a least one.
LEMMA LeastNatural ==
    ASSUME NEW S \in SUBSET Nat, S # {}
    PROVE  \E n \in S : \A m \in S : n <= m
<1>1. PICK n \in S : \A m \in S : ~(<<m, n>> \in OpToRel(<, Nat))
  BY NatLessThanWellFounded, WFMin, Zenon
<1>2. \A m \in S : ~(m < n)
  BY <1>1 DEF OpToRel
<1>3. QED
  BY <1>2

\* A set of numbers with a bound has a greatest one.
LEMMA GreatestNatural ==
    ASSUME NEW S \in SUBSET Nat, S # {}, NEW b \in Nat, \A n \in S : n <= b
    PROVE  \E n \in S : \A m \in S : m <= n
<1> DEFINE T == {b - n : n \in S}
<1>1. T \in SUBSET Nat /\ T # {}
  <2>1. \A n \in S : b - n \in Nat
    OBVIOUS
  <2>2. T \in SUBSET Nat
    BY <2>1
  <2>3. QED
    BY <2>2
<1> HIDE DEF T
<1>2. PICK t \in T : \A u \in T : t <= u
  BY <1>1, LeastNatural
<1>3. PICK n \in S : t = b - n
  BY DEF T
<1>4. \A m \in S : b - n <= b - m
  BY <1>2, <1>3 DEF T
<1>5. QED
  BY <1>4

\* A version with an id that is new keeps the ids unique.
LEMMA VersionAdded ==
    ASSUME NEW V \in SUBSET VersionType, NEW last \in Nat, VersionsOf(V, last),
           NEW v \in VersionType, last < v.id, NEW later \in Nat, v.id <= later
    PROVE  VersionsOf(V \cup {v}, later)
<1>1. /\ v.id \in Nat /\ v.data_set \in Nat
      /\ \A q \in V : q.id \in Nat /\ q.data_set \in Nat /\ q.id <= last
  BY DEF VersionType, VersionsOf
<1>2. \A q \in V \cup {v} : q.id <= later /\ \A r \in V \cup {v} : r.id = q.id => r = q
  BY <1>1 DEF VersionsOf
<1>3. PICK b \in Nat : \A q \in V : q.data_set <= b
  BY DEF VersionsOf
<1>4. PICK d \in Nat : b <= d /\ v.data_set <= d
  BY <1>1
<1>5. \A q \in V \cup {v} : q.data_set <= d
  BY <1>1, <1>3, <1>4
<1>6. QED
  BY <1>2, <1>5 DEF VersionsOf

\* A record version that is written as it was asked for.
LEMMA AskedAdded ==
    ASSUME NEW V \in SUBSET VersionType, NEW last \in Nat, VersionsOf(V, last), NEW f, AskedOf(V, f),
           NEW v \in VersionType, last < v.id, v.key \in DataKeys,
           NEW g, DOMAIN g = DOMAIN f \cup {Place(v)}, g[Place(v)] = v.value,
           \A x \in DOMAIN f : x # Place(v) => g[x] = f[x]
    PROVE  AskedOf(V \cup {v}, g)
<1>1. /\ v.id \in Nat
      /\ \A q \in V : q.id \in Nat /\ q.id <= last
  BY DEF VersionType, VersionsOf
<1>2. \A q \in V \cup {v} : q.key \in DataKeys => Place(q) \in DOMAIN g
  BY DEF AskedOf
<1>3. ASSUME NEW x \in DOMAIN g
      PROVE  \E q \in V \cup {v} :
                 /\ q.key \in DataKeys /\ Place(q) = x /\ g[x] = q.value
                 /\ \A r \in V \cup {v} : r.key = q.key /\ r.data_set = q.data_set => r.id <= q.id
  <2>1. CASE x = Place(v)
    <3>1. \A r \in V \cup {v} : r.id <= v.id
      BY <1>1
    <3>2. QED
      BY <2>1, <3>1
  <2>2. CASE x # Place(v)
    <3>1. x \in DOMAIN f /\ g[x] = f[x]
      BY <2>2
    <3>2. PICK q \in V :
              /\ q.key \in DataKeys /\ Place(q) = x /\ f[x] = q.value
              /\ \A r \in V : r.key = q.key /\ r.data_set = q.data_set => r.id <= q.id
      BY <3>1 DEF AskedOf
    <3>3. ~(v.key = q.key /\ v.data_set = q.data_set)
      BY <2>2, <3>2 DEF Place
    <3>4. QED
      BY <3>1, <3>2, <3>3
  <2>3. QED
    BY <2>1, <2>2
<1>4. QED
  BY <1>2, <1>3 DEF AskedOf

\* The version of a dataset is none of those that were asked for.
LEMMA DataSetAdded ==
    ASSUME NEW V, NEW f, AskedOf(V, f), NEW v, v.key \notin DataKeys
    PROVE  AskedOf(V \cup {v}, f)
<1>1. \A q \in V \cup {v} : q.key \in DataKeys => Place(q) \in DOMAIN f
  BY DEF AskedOf
<1>2. ASSUME NEW x \in DOMAIN f
      PROVE  \E q \in V \cup {v} :
                 /\ q.key \in DataKeys /\ Place(q) = x /\ f[x] = q.value
                 /\ \A r \in V \cup {v} : r.key = q.key /\ r.data_set = q.data_set => r.id <= q.id
  <2>1. PICK q \in V :
            /\ q.key \in DataKeys /\ Place(q) = x /\ f[x] = q.value
            /\ \A r \in V : r.key = q.key /\ r.data_set = q.data_set => r.id <= q.id
    BY DEF AskedOf
  <2>2. QED
    BY <2>1
<1>3. QED
  BY <1>1, <1>2 DEF AskedOf

\* The versions of a sequence with one more.
LEMMA RangeOfAppend ==
    ASSUME NEW S, NEW q \in Seq(S), NEW v \in S
    PROVE  /\ Append(q, v) \in Seq(S)
           /\ Range(Append(q, v)) = Range(q) \cup {v}
           /\ q \o <<v>> = Append(q, v)
<1>1. PICK p : p = Append(q, v)
  OBVIOUS
<1>2. /\ p \in Seq(S) /\ Len(q) \in Nat
      /\ DOMAIN q = 1 .. Len(q) /\ DOMAIN p = 1 .. Len(q) + 1
      /\ p[Len(q) + 1] = v /\ \A i \in 1 .. Len(q) : p[i] = q[i]
  BY <1>1
<1>3. \A i \in 1 .. Len(q) + 1 : i \in 1 .. Len(q) \/ i = Len(q) + 1
  BY <1>2
<1>4. \A i \in 1 .. Len(q) : i \in 1 .. Len(q) + 1
  BY <1>2
<1>5. Len(q) + 1 \in 1 .. Len(q) + 1
  BY <1>2
<1>6. Range(p) = Range(q) \cup {v}
  BY <1>2, <1>3, <1>4, <1>5 DEF Range
<1>7. QED
  BY <1>1, <1>2, <1>6

-----------------------------------------------------------------------------
(* What is found.                                                            *)

\* Whatever datasets a list has, what is found for a key is what was asked of the latest of
\* them that was asked anything.
LEMMA FoundAsAsked ==
    ASSUME NEW s \in DataStore, NEW V \in SUBSET VersionType, V = Range(stored[s]),
           NEW last \in Nat, VersionsOf(V, last), AskedOf(V, asked[s]),
           NEW d, NEW k \in RecordKeys
    PROVE  {v.value : v \in LoadByKey(s, DataKeyFor(k), d)} = AskedFor(s, k, d)
<1> DEFINE f == asked[s]
           L == LookupLists(s)[d]
           found == {v \in V : v.key = DataKeyFor(k) /\ v.data_set \in L}
           places == {e \in L : <<e, k>> \in DOMAIN f}
           latest == CHOOSE e \in places : \A g \in places : g <= e
           shown == LoadByKey(s, DataKeyFor(k), d)
<1>1. shown = {v \in found : v.value # Deleted /\
                  \A q \in found : v.data_set > q.data_set \/ (v.data_set = q.data_set /\ v.id >= q.id)}
  BY DEF LoadByKey
<1>2. AskedFor(s, k, d) = IF places = {} THEN {} ELSE {f[<<latest, k>>]} \ {Deleted}
  BY DEF AskedFor
<1>3. \A v \in V : v.id \in Nat /\ v.data_set \in Nat /\ \A q \in V : q.id = v.id => q = v
  BY DEF VersionType, VersionsOf
<1>4. \A v \in found : v \in V /\ v.key = DataKeyFor(k) /\ v.data_set \in L
  OBVIOUS
<1>5. \A v \in V : v.key = DataKeyFor(k) /\ v.data_set \in L => v \in found
  OBVIOUS
<1>6. ASSUME NEW e \in places
      PROVE  \E v \in found :
                 /\ v.data_set = e /\ f[<<e, k>>] = v.value
                 /\ \A q \in found : q.data_set = e => q.id <= v.id
  <2>1. PICK v \in V :
            /\ v.key \in DataKeys /\ Place(v) = <<e, k>> /\ f[<<e, k>>] = v.value
            /\ \A q \in V : q.key = v.key /\ q.data_set = v.data_set => q.id <= v.id
    BY <1>6 DEF AskedOf
  <2>2. PICK j \in RecordKeys : v.key = DataKeyFor(j)
    BY <2>1 DEF DataKeys
  <2>3. v.data_set = e /\ j = k
    BY <2>1, <2>2 DEF Place, DataKeyFor
  <2>4. v \in found
    BY <2>2, <2>3
  <2>5. QED
    BY <1>4, <2>1, <2>2, <2>3, <2>4
<1>7. ASSUME NEW v \in found PROVE v.data_set \in places
  <2>1. v.key = DataKeyFor(k) /\ v \in V /\ v.data_set \in L
    BY <1>4
  <2>2. v.key \in DataKeys
    BY <2>1 DEF DataKeys
  <2>3. v.key[2] = k
    BY <2>1 DEF DataKeyFor
  <2>4. Place(v) = <<v.data_set, k>>
    BY <2>3 DEF Place
  <2>5. QED
    BY <2>1, <2>2, <2>4 DEF AskedOf
<1> HIDE DEF found, places, latest, L, shown, f
<1>8. CASE places = {}
  <2>1. shown = {}
    BY <1>1, <1>7, <1>8
  <2>2. QED
    BY <1>2, <1>8, <2>1 DEF shown
<1>9. CASE places # {}
  <2>1. PICK b \in Nat : \A v \in V : v.data_set <= b
    BY DEF VersionsOf
  <2>2. places \in SUBSET Nat /\ \A e \in places : e <= b
    <3>1. ASSUME NEW e \in places PROVE e \in Nat /\ e <= b
      <4>1. PICK v \in found : v.data_set = e
        BY <1>6
      <4>2. QED
        BY <1>3, <1>4, <2>1, <4>1
    <3>2. QED
      BY <3>1
  <2>3. PICK e \in places : \A g \in places : g <= e
    BY <1>9, <2>1, <2>2, GreatestNatural
  <2>4. latest = e
    <3>1. \A h \in places : (\A g \in places : g <= h) => h = e
      BY <2>2, <2>3
    <3>2. QED
      BY <2>3, <3>1 DEF latest
  <2>5. PICK v \in found :
            /\ v.data_set = e /\ f[<<e, k>>] = v.value
            /\ \A q \in found : q.data_set = e => q.id <= v.id
    BY <1>6
  <2>6. \A q \in found : q.data_set \in Nat /\ q.id \in Nat /\ q.data_set <= e
    BY <1>3, <1>4, <1>7, <2>3
  <2>7. ASSUME NEW q \in shown PROVE q = v
    <3>1. q \in found /\ (q.data_set > e \/ (q.data_set = e /\ q.id >= v.id))
      BY <1>1, <2>5, <2>7
    <3>2. q.id = v.id
      BY <2>5, <2>6, <3>1
    <3>3. QED
      BY <1>3, <1>4, <3>1, <3>2
  <2>8. v.value # Deleted => v \in shown
    BY <1>1, <2>5, <2>6
  <2>9. v.value = Deleted => v \notin shown
    BY <1>1
  <2>10. {q.value : q \in shown} = {f[<<e, k>>]} \ {Deleted}
    BY <2>5, <2>7, <2>8, <2>9
  <2>11. QED
    BY <1>2, <1>9, <2>4, <2>10 DEF shown
<1>10. QED
  BY <1>8, <1>9

-----------------------------------------------------------------------------
(* The steps.                                                                *)

\* Objects keep their versions where no database loses any.
LEMMA ObjectsKept ==
    ASSUME ObjectsStored, \A s \in DataStore : Range(stored[s]) \subseteq Range(stored'[s]),
           \A o \in RecordObject \ unsaved' :
               \/ o \notin unsaved /\ record'[o].id = record[o].id /\ record'[o].data_set = record[o].data_set
               \/ \E s \in DataStore : \E v \in Range(stored'[s]) :
                      v.id = record'[o].id /\ v.data_set = record'[o].data_set
    PROVE  ObjectsStored'
<1> SUFFICES ASSUME NEW o \in RecordObject \ unsaved', record'[o].id # 0
             PROVE  \E s \in DataStore : \E v \in Range(stored'[s]) :
                        v.id = record'[o].id /\ v.data_set = record'[o].data_set
  BY DEF ObjectsStored, Range
<1>1. CASE o \notin unsaved /\ record'[o].id = record[o].id /\ record'[o].data_set = record[o].data_set
  <2>1. PICK s \in DataStore : \E v \in Range(stored[s]) : v.id = record[o].id /\ v.data_set = record[o].data_set
    BY <1>1 DEF ObjectsStored
  <2>2. PICK v \in Range(stored[s]) : v.id = record[o].id /\ v.data_set = record[o].data_set
    BY <2>1
  <2>3. v \in Range(stored'[s])
    OBVIOUS
  <2>4. QED
    BY <1>1, <2>2, <2>3
<1>2. QED
  BY <1>1

\* Names keep their datasets in the databases that are not dropped.
LEMMA NamesKept ==
    ASSUME NamesStored, UNCHANGED data_source, dropped \subseteq dropped',
           \A s \in DataStore \ dropped' : Range(stored[s]) \subseteq Range(stored'[s]),
           \A s \in DataStore \ dropped' : SavesTo(s) = s => \A n \in DOMAIN names'[s] :
               \/ n \in DOMAIN names[s] /\ names'[s][n] = names[s][n]
               \/ \E v \in Range(stored'[s]) : v.id = names'[s][n] /\ v.key = DataSetKeyFor(n)
    PROVE  NamesStored'
<1> SUFFICES ASSUME NEW s \in DataStore \ dropped', SavesTo(s)' = s, NEW n \in DOMAIN names'[s]
             PROVE  \E v \in Range(stored'[s]) : v.id = names'[s][n] /\ v.key = DataSetKeyFor(n)
  BY DEF NamesStored, Range
<1>1. SavesTo(s) = s
  BY DEF SavesTo
<1>2. CASE n \in DOMAIN names[s] /\ names'[s][n] = names[s][n]
  <2>1. PICK v \in Range(stored[s]) : v.id = names[s][n] /\ v.key = DataSetKeyFor(n)
    BY <1>1, <1>2 DEF NamesStored
  <2>2. v \in Range(stored'[s])
    OBVIOUS
  <2>3. QED
    BY <1>2, <2>1, <2>2
<1>3. QED
  BY <1>1, <1>2

\* A version is in the type of those of its data source.
LEMMA VersionTypes ==
    ASSUME ContextTypes
    PROVE  /\ \A s \in DataStore : Range(stored[s]) \in SUBSET VersionType
           /\ DataSets \in SUBSET Nat
           /\ \A c \in Context, given \in GivenSet \cup {Own} : Target(c, given) \in Nat
<1>1. ASSUME NEW s \in DataStore, NEW v \in Range(stored[s]) PROVE v \in VersionType
  <2>1. PICK q \in Seq(VersionType) : q = stored[s]
    BY DEF ContextTypes
  <2>2. PICK i \in DOMAIN q : v = q[i]
    BY <2>1 DEF Range
  <2>3. QED
    BY <2>2
<1>2. DataSets \in SUBSET Nat
  BY <1>1 DEF DataSets, VersionType
<1>3. ASSUME NEW c \in Context, NEW given \in GivenSet \cup {Own} PROVE Target(c, given) \in Nat
  BY ContextAssumption DEF ContextTypes, Target
<1>4. QED
  BY <1>1, <1>2, <1>3

\* Steps that write and ask for nothing.
LEMMA QuietStep ==
    ASSUME ContextTypes, StoredAsAsked, UNCHANGED <<stored, asked>>, last_id' \in Nat, last_id <= last_id'
    PROVE  StoredAsAsked'
<1>1. ASSUME NEW s \in DataStore PROVE VersionsOf(Range(stored[s]), last_id') /\ AskedOf(Range(stored[s]), asked[s])
  <2>1. \A v \in Range(stored[s]) : v.id \in Nat
    BY VersionTypes DEF VersionType
  <2>2. VersionsOf(Range(stored[s]), last_id) /\ AskedOf(Range(stored[s]), asked[s])
    BY DEF StoredAsAsked
  <2>3. last_id \in Nat
    BY DEF ContextTypes
  <2>4. \A v \in Range(stored[s]) : v.id <= last_id'
    BY <2>1, <2>2, <2>3 DEF VersionsOf
  <2>5. QED
    BY <2>2, <2>4 DEF VersionsOf
<1>2. QED
  BY <1>1 DEF StoredAsAsked

\* The dataset of a context is one of those that are stored.
LEMMA SetDataSetStep ==
    ASSUME ContextInv, NEW c \in Context, SetDataSet(c)
    PROVE  ContextInv'
<1>1. PICK d \in DataSets : data_set' = [data_set EXCEPT ![c] = d]
  BY DEF SetDataSet
<1>2. UNCHANGED <<data_source, stored, names, lists, last_id, dropped, record, asked, unsaved>>
  BY DEF SetDataSet, stores
<1>3. ContextTypes'
  <2>1. d \in Nat
    BY VersionTypes DEF ContextInv
  <2>2. QED
    BY <1>1, <1>2, <2>1 DEF ContextInv, ContextTypes
<1>4. StoredAsAsked'
  BY <1>2, QuietStep DEF ContextInv, ContextTypes
<1>5. ObjectsStored' /\ NamesStored'
  BY <1>2 DEF ContextInv, ObjectsStored, NamesStored, SavesTo
<1>6. QED
  BY <1>3, <1>4, <1>5 DEF ContextInv

\* A record that is edited keeps its id and dataset.
LEMMA EditRecordStep ==
    ASSUME ContextInv, EditRecord
    PROVE  ContextInv'
<1>1. PICK o \in RecordObject, k \in RecordKeys, v \in RecordValues :
          record' = [record EXCEPT ![o].key = DataKeyFor(k), ![o].value = v]
  BY DEF EditRecord
<1>2. UNCHANGED <<data_source, data_set, stored, names, lists, last_id, dropped, asked, unsaved>>
  BY DEF EditRecord, stores
<1>3. DataKeyFor(k) \in DataKeys /\ v \in Values
  BY DEF DataKeys, Values
<1>4. record \in [RecordObject -> RecordType]
  BY DEF ContextInv, ContextTypes
<1>5. record' \in [RecordObject -> RecordType]
  BY <1>1, <1>3, <1>4 DEF RecordType
<1>6. ContextTypes'
  BY <1>2, <1>5 DEF ContextInv, ContextTypes
<1>7. StoredAsAsked'
  BY <1>2, QuietStep DEF ContextInv, ContextTypes
<1>8. \A p \in RecordObject : record'[p].id = record[p].id /\ record'[p].data_set = record[p].data_set
  BY <1>1, <1>4 DEF RecordType
<1>9. ObjectsStored'
  BY <1>2, <1>8, ObjectsKept DEF ContextInv
<1>10. NamesStored'
  BY <1>2 DEF ContextInv, NamesStored, SavesTo
<1>11. QED
  BY <1>6, <1>7, <1>9, <1>10 DEF ContextInv

\* What is loaded is a version.
LEMMA LoadIntoStep ==
    ASSUME ContextInv, NEW o \in RecordObject, NEW s \in DataStore, NEW found \in SUBSET Range(stored[s]),
           \A v \in found : v.key \in DataKeys, LoadInto(o, s, found),
           UNCHANGED <<data_source, data_set, stored, names, last_id, dropped, asked>>
    PROVE  ContextInv'
<1>1. CASE UNCHANGED <<record, unsaved>>
  <2>1. ContextTypes'
    BY <1>1 DEF ContextInv, ContextTypes
  <2>2. StoredAsAsked'
    BY QuietStep DEF ContextInv, ContextTypes
  <2>3. ObjectsStored' /\ NamesStored'
    BY <1>1 DEF ContextInv, ObjectsStored, NamesStored, SavesTo
  <2>4. QED
    BY <2>1, <2>2, <2>3 DEF ContextInv
<1>2. CASE found # {}
  <2>1. PICK v \in found :
            /\ record' = [record EXCEPT ![o] = ObjectOf(v, HomeOf[s])]
            /\ unsaved' = unsaved \ {o}
    BY <1>2 DEF LoadInto
  <2>2. v \in Range(stored[s]) /\ v.key \in DataKeys /\ v \in VersionType
    BY VersionTypes DEF ContextInv
  <2>3. ObjectOf(v, HomeOf[s]) \in RecordType
    BY <2>2, ContextAssumption DEF ObjectOf, RecordType, VersionType
  <2>4. record \in [RecordObject -> RecordType]
    BY DEF ContextInv, ContextTypes
  <2>5. ContextTypes'
    BY <2>1, <2>3, <2>4 DEF ContextInv, ContextTypes
  <2>6. StoredAsAsked'
    BY QuietStep DEF ContextInv, ContextTypes
  <2>7. record'[o].id = v.id /\ record'[o].data_set = v.data_set
    BY <2>1, <2>4 DEF ObjectOf
  <2>8. \A p \in RecordObject : p # o => record'[p] = record[p]
    BY <2>1, <2>4
  <2>9. ObjectsStored'
    BY <2>1, <2>2, <2>7, <2>8, ObjectsKept DEF ContextInv
  <2>10. NamesStored'
    BY DEF ContextInv, NamesStored, SavesTo
  <2>11. QED
    BY <2>5, <2>6, <2>9, <2>10 DEF ContextInv
<1>3. QED
  BY <1>1, <1>2 DEF LoadInto

\* load by key, and by id, load a version of the data source.
LEMMA LoadStep ==
    ASSUME ContextInv, NEW c \in Context, Load(c) \/ LoadById(c)
    PROVE  ContextInv'
<1>1. data_source[c] \in DataStore
  BY DEF ContextInv, ContextTypes
<1>2. PICK s \in DataStore : s = data_source[c]
  BY <1>1
<1>3. CASE Load(c)
  <2>1. PICK k \in RecordKeys, given \in GivenSet \cup {Own}, o \in RecordObject :
            LoadInto(o, s, LoadByKey(s, DataKeyFor(k), Target(c, given)))
    BY <1>2, <1>3 DEF Load
  <2>2. UNCHANGED <<data_source, data_set, stored, names, last_id, dropped, asked>>
    BY <1>3 DEF Load
  <2>3. PICK found : found = LoadByKey(s, DataKeyFor(k), Target(c, given))
    OBVIOUS
  <2>4. found \in SUBSET Range(stored[s]) /\ \A v \in found : v.key = DataKeyFor(k)
    BY <2>3 DEF LoadByKey
  <2>5. DataKeyFor(k) \in DataKeys
    BY DEF DataKeys
  <2>6. QED
    BY <2>1, <2>2, <2>3, <2>4, <2>5, LoadIntoStep
<1>4. CASE LoadById(c)
  <2>1. PICK o \in RecordObject, v \in Range(stored[s]) : v.key[1] = "Data" /\ LoadInto(o, s, {v})
    BY <1>2, <1>4 DEF LoadById
  <2>2. UNCHANGED <<data_source, data_set, stored, names, last_id, dropped, asked>>
    BY <1>4 DEF LoadById, stores
  <2>3. v.key \in Keys
    BY VersionTypes DEF ContextInv, VersionType
  <2>4. v.key \in DataKeys
    BY <2>1, <2>3 DEF Keys, DataSetKeyFor
  <2>5. QED
    BY <2>1, <2>2, <2>4, LoadIntoStep
<1>5. QED
  BY <1>3, <1>4

\* A name that is read is that of a version under its key.
LEMMA GetDataSetStep ==
    ASSUME ContextInv, NEW c \in Context, GetDataSet(c)
    PROVE  ContextInv'
<1>1. PICK s \in DataStore : s = data_source[c]
  BY DEF ContextInv, ContextTypes
<1>2. PICK given \in GivenSet \cup {Own}, n \in DataSetName :
          \E v \in LoadByKey(s, DataSetKeyFor(n), Target(c, given)) :
              names' = [names EXCEPT ![s] = With(@, n, v.id)] /\ last_id' = last_id + 1
  BY <1>1 DEF GetDataSet
<1>3. PICK v \in LoadByKey(s, DataSetKeyFor(n), Target(c, given)) :
              names' = [names EXCEPT ![s] = With(@, n, v.id)] /\ last_id' = last_id + 1
  BY <1>2
<1>4. UNCHANGED <<data_source, data_set, stored, record, asked, unsaved, dropped>>
  BY DEF GetDataSet
<1>5. v \in Range(stored[s]) /\ v.key = DataSetKeyFor(n)
  BY DEF LoadByKey
<1>6. ContextTypes'
  BY <1>3, <1>4 DEF ContextInv, ContextTypes
<1>7. StoredAsAsked'
  <2>1. last_id' \in Nat /\ last_id <= last_id'
    BY <1>3 DEF ContextInv, ContextTypes
  <2>2. QED
    BY <1>4, <2>1, QuietStep DEF ContextInv
<1>8. ObjectsStored'
  BY <1>4 DEF ContextInv, ObjectsStored
<1>9. NamesStored'
  <2>1. ASSUME NEW t \in DataStore, NEW m \in DOMAIN names'[t]
        PROVE  \/ m \in DOMAIN names[t] /\ names'[t][m] = names[t][m]
               \/ \E q \in Range(stored'[t]) : q.id = names'[t][m] /\ q.key = DataSetKeyFor(m)
    <3>1. CASE t = s /\ m = n
      <4>1. names'[t][m] = v.id
        BY <1>3, <3>1 DEF With, ContextInv, ContextTypes
      <4>2. QED
        BY <1>4, <1>5, <3>1, <4>1
    <3>2. CASE t # s \/ m # n
      BY <1>3, <3>2 DEF With, ContextInv, ContextTypes
    <3>3. QED
      BY <3>1, <3>2
  <2>2. QED
    BY <1>4, <2>1, NamesKept DEF ContextInv
<1>10. QED
  BY <1>6, <1>7, <1>8, <1>9 DEF ContextInv

\* Versions are written to the database of a data source.
LEMMA WriteStep ==
    ASSUME ContextTypes, StoredAsAsked, NEW s \in DataStore, NEW q \in Seq(VersionType),
           Range(stored[s]) \subseteq Range(q), stored' = [stored EXCEPT ![s] = q],
           last_id' \in Nat, last_id <= last_id', DOMAIN asked' = DataStore,
           \A t \in DataStore : t # s => asked'[t] = asked[t],
           VersionsOf(Range(q), last_id'), AskedOf(Range(q), asked'[s])
    PROVE  /\ StoredAsAsked'
           /\ stored' \in [DataStore -> Seq(VersionType)]
           /\ stored'[s] = q
           /\ \A t \in DataStore : Range(stored[t]) \subseteq Range(stored'[t])
<1>1. stored'[s] = q /\ \A t \in DataStore : t # s => stored'[t] = stored[t]
  BY DEF ContextTypes
<1>2. stored' \in [DataStore -> Seq(VersionType)]
  BY DEF ContextTypes
<1>3. last_id \in Nat
  BY DEF ContextTypes
<1>4. ASSUME NEW t \in DataStore PROVE VersionsOf(Range(stored'[t]), last_id') /\ AskedOf(Range(stored'[t]), asked'[t])
  <2>1. CASE t = s
    BY <1>1, <2>1
  <2>2. CASE t # s
    <3>1. VersionsOf(Range(stored[t]), last_id) /\ AskedOf(Range(stored[t]), asked[t])
      BY DEF StoredAsAsked
    <3>2. \A u \in Range(stored[t]) : u.id \in Nat
      BY VersionTypes DEF VersionType
    <3>3. VersionsOf(Range(stored[t]), last_id')
      BY <1>3, <3>1, <3>2 DEF VersionsOf
    <3>4. stored'[t] = stored[t] /\ asked'[t] = asked[t]
      BY <1>1, <2>2
    <3>5. QED
      BY <3>1, <3>3, <3>4
  <2>3. QED
    BY <2>1, <2>2
<1>5. StoredAsAsked'
  BY <1>4 DEF StoredAsAsked, Range
<1>6. \A t \in DataStore : Range(stored[t]) \subseteq Range(stored'[t])
  BY <1>1
<1>7. QED
  BY <1>1, <1>2, <1>5, <1>6

\* One version is.
LEMMA AppendStep ==
    ASSUME ContextTypes, StoredAsAsked, NEW s \in DataStore, NEW v \in VersionType, last_id < v.id,
           stored' = [stored EXCEPT ![s] = Append(@, v)],
           last_id' \in Nat, v.id <= last_id', DOMAIN asked' = DataStore,
           \A t \in DataStore : t # s => asked'[t] = asked[t],
           AskedOf(Range(stored[s]) \cup {v}, asked'[s])
    PROVE  /\ StoredAsAsked'
           /\ stored' \in [DataStore -> Seq(VersionType)]
           /\ Range(stored'[s]) = Range(stored[s]) \cup {v}
           /\ \A t \in DataStore : Range(stored[t]) \subseteq Range(stored'[t])
<1>1. PICK q \in Seq(VersionType) : q = stored[s]
  BY DEF ContextTypes
<1>2. PICK p \in Seq(VersionType) : p = Append(q, v) /\ Range(p) = Range(q) \cup {v}
  <2>1. Append(q, v) \in Seq(VersionType) /\ Range(Append(q, v)) = Range(q) \cup {v}
    BY RangeOfAppend
  <2>2. QED
    BY <2>1
<1>3. stored' = [stored EXCEPT ![s] = p]
  BY <1>1, <1>2
<1>4. last_id \in Nat /\ v.id \in Nat /\ last_id <= last_id'
  BY DEF ContextTypes, VersionType
<1>5. PICK V \in SUBSET VersionType : V = Range(stored[s])
  BY VersionTypes
<1>6. VersionsOf(V, last_id)
  BY <1>5 DEF StoredAsAsked
<1>7. VersionsOf(Range(p), last_id')
  BY <1>1, <1>2, <1>4, <1>5, <1>6, VersionAdded
<1>8. Range(stored[s]) \subseteq Range(p) /\ AskedOf(Range(p), asked'[s])
  BY <1>1, <1>2
<1>9. QED
  BY <1>1, <1>2, <1>3, <1>4, <1>7, <1>8, WriteStep

\* A delete marker is the next version under its key in the dataset.
LEMMA DeleteRecordStep ==
    ASSUME ContextInv, NEW c \in Context, DeleteRecord(c)
    PROVE  ContextInv'
<1>1. PICK s \in DataStore : s = data_source[c]
  BY DEF ContextInv, ContextTypes
<1>2. PICK given \in GivenSet \cup {Own}, k \in RecordKeys :
          /\ last_id' = last_id + 1
          /\ stored' = [stored EXCEPT ![s] = Append(@, Version(last_id + 1, DataKeyFor(k), Target(c, given), Deleted, {}))]
          /\ asked' = [asked EXCEPT ![s] = With(@, <<Target(c, given), k>>, Deleted)]
  BY <1>1 DEF DeleteRecord
<1>3. UNCHANGED <<data_source, data_set, names, lists, dropped, record, unsaved>>
  BY DEF DeleteRecord
<1>4. PICK d \in Nat : d = Target(c, given)
  BY VersionTypes DEF ContextInv
<1>5. PICK v : v = Version(last_id + 1, DataKeyFor(k), d, Deleted, {})
  OBVIOUS
<1>6. last_id \in Nat /\ last_id' \in Nat
  BY <1>2 DEF ContextInv, ContextTypes
<1>7. v.id = last_id + 1 /\ v.key = DataKeyFor(k) /\ v.data_set = d /\ v.value = Deleted
  BY <1>5 DEF Version
<1>8. v.key \in DataKeys /\ Place(v) = <<d, k>>
  BY <1>7 DEF DataKeys, Place, DataKeyFor
<1>9. v \in VersionType
  BY <1>5, <1>6, <1>7, <1>8 DEF Version, VersionType, Keys, Values
<1>10. asked'[s] = With(asked[s], Place(v), Deleted) /\ \A t \in DataStore : t # s => asked'[t] = asked[t]
  BY <1>2, <1>4, <1>8 DEF ContextInv, ContextTypes
<1>11. AskedOf(Range(stored[s]) \cup {v}, asked'[s])
  <2>1. PICK V \in SUBSET VersionType : V = Range(stored[s])
    BY VersionTypes DEF ContextInv
  <2>2. PICK f : f = asked[s]
    OBVIOUS
  <2>3. PICK g : g = With(f, Place(v), Deleted)
    OBVIOUS
  <2>4. DOMAIN g = DOMAIN f \cup {Place(v)} /\ g[Place(v)] = v.value /\ \A x \in DOMAIN f : x # Place(v) => g[x] = f[x]
    BY <1>7, <2>3 DEF With
  <2>5. VersionsOf(V, last_id) /\ AskedOf(V, f)
    BY <2>1, <2>2 DEF ContextInv, StoredAsAsked
  <2>6. last_id < v.id
    BY <1>6, <1>7
  <2>7. AskedOf(V \cup {v}, g)
    BY <1>6, <1>8, <1>9, <2>4, <2>5, <2>6, AskedAdded
  <2>8. QED
    BY <1>10, <2>1, <2>2, <2>3, <2>7
<1>12. /\ StoredAsAsked' /\ stored' \in [DataStore -> Seq(VersionType)]
       /\ \A t \in DataStore : Range(stored[t]) \subseteq Range(stored'[t])
  <2>1. stored' = [stored EXCEPT ![s] = Append(@, v)]
    BY <1>2, <1>4, <1>5
  <2>2. last_id < v.id /\ v.id <= last_id'
    BY <1>2, <1>6, <1>7
  <2>3. DOMAIN asked' = DataStore
    BY <1>2 DEF ContextInv, ContextTypes
  <2>4. QED
    BY <1>6, <1>9, <1>10, <1>11, <2>1, <2>2, <2>3, AppendStep DEF ContextInv
<1>13. ContextTypes'
  BY <1>2, <1>3, <1>6, <1>12 DEF ContextInv, ContextTypes
<1>14. ObjectsStored'
  BY <1>3, <1>12, ObjectsKept DEF ContextInv
<1>15. NamesStored'
  BY <1>3, <1>12, NamesKept DEF ContextInv
<1>16. QED
  BY <1>12, <1>13, <1>14, <1>15 DEF ContextInv

\* The dataset is in the database that the data source saves to.
LEMMA CreateDataSetStep ==
    ASSUME ContextInv, NEW c \in Context, CreateDataSet(c)
    PROVE  ContextInv'
<1>1. PICK s \in DataStore : s = data_source[c]
  BY DEF ContextInv, ContextTypes
<1>2. PICK given \in GivenSet \cup {Own}, n \in DataSetName, imports \in SUBSET DataSets :
          /\ last_id' = last_id + 1
          /\ stored' = [stored EXCEPT ![SavesTo(s)] = Append(@, DataSetRecord(last_id + 1, n, imports, Target(c, given)))]
          /\ names' = [names EXCEPT ![s] = With(@, n, last_id + 1)]
  BY <1>1 DEF CreateDataSet
<1>3. UNCHANGED <<data_source, data_set, record, asked, unsaved, dropped>>
  BY DEF CreateDataSet
<1>4. PICK d \in Nat : d = Target(c, given)
  BY VersionTypes DEF ContextInv
<1>5. PICK t \in DataStore : t = SavesTo(s)
  BY ContextAssumption DEF ContextInv, ContextTypes, SavesTo
<1>6. PICK v : v = Version(last_id + 1, DataSetKeyFor(n), d, 1, imports)
  OBVIOUS
<1>7. last_id \in Nat /\ last_id' \in Nat
  BY <1>2 DEF ContextInv, ContextTypes
<1>8. v.id = last_id + 1 /\ v.key = DataSetKeyFor(n)
  BY <1>6 DEF Version
<1>9. v.key \in Keys /\ v.key \notin DataKeys
  BY <1>8 DEF Keys, DataKeys, DataKeyFor, DataSetKeyFor
<1>10. v \in VersionType
  <2>1. imports \in SUBSET Nat
    BY VersionTypes DEF ContextInv
  <2>2. QED
    BY <1>6, <1>7, <1>8, <1>9, <2>1 DEF Version, VersionType, Values, RecordValues
<1>11. /\ StoredAsAsked' /\ stored' \in [DataStore -> Seq(VersionType)]
       /\ Range(stored'[t]) = Range(stored[t]) \cup {v}
       /\ \A u \in DataStore : Range(stored[u]) \subseteq Range(stored'[u])
  <2>1. stored' = [stored EXCEPT ![t] = Append(@, v)]
    BY <1>2, <1>4, <1>5, <1>6 DEF DataSetRecord
  <2>2. last_id < v.id /\ v.id <= last_id'
    BY <1>2, <1>7, <1>8
  <2>3. DOMAIN asked' = DataStore /\ \A u \in DataStore : u # t => asked'[u] = asked[u]
    BY <1>3 DEF ContextInv, ContextTypes
  <2>4. AskedOf(Range(stored[t]), asked[t])
    BY DEF ContextInv, StoredAsAsked
  <2>5. AskedOf(Range(stored[t]) \cup {v}, asked'[t])
    BY <1>3, <1>9, <2>4, DataSetAdded
  <2>6. QED
    BY <1>7, <1>10, <2>1, <2>2, <2>3, <2>5, AppendStep DEF ContextInv
<1>12. ContextTypes'
  BY <1>2, <1>3, <1>7, <1>11 DEF ContextInv, ContextTypes
<1>13. ObjectsStored'
  BY <1>3, <1>11, ObjectsKept DEF ContextInv
<1>14. NamesStored'
  <2>1. ASSUME NEW u \in DataStore, SavesTo(u) = u, NEW m \in DOMAIN names'[u]
        PROVE  \/ m \in DOMAIN names[u] /\ names'[u][m] = names[u][m]
               \/ \E q \in Range(stored'[u]) : q.id = names'[u][m] /\ q.key = DataSetKeyFor(m)
    <3>1. CASE u = s /\ m = n
      <4>1. names'[u][m] = last_id + 1
        BY <1>2, <3>1 DEF With, ContextInv, ContextTypes
      <4>2. v \in Range(stored'[u])
        BY <1>5, <1>11, <2>1, <3>1
      <4>3. QED
        BY <1>8, <3>1, <4>1, <4>2
    <3>2. CASE u # s \/ m # n
      BY <1>2, <3>2 DEF With, ContextInv, ContextTypes
    <3>3. QED
      BY <3>1, <3>2
  <2>2. QED
    BY <1>3, <1>11, <2>1, NamesKept DEF ContextInv
<1>15. QED
  BY <1>11, <1>12, <1>13, <1>14 DEF ContextInv

\* Nothing is stored, asked for or known to be saved any more.
LEMMA DeleteDbStep ==
    ASSUME ContextInv, NEW c \in Context, DeleteDb(c)
    PROVE  ContextInv'
<1>1. PICK s \in DataStore : s = data_source[c]
  BY DEF ContextInv, ContextTypes
<1>2. /\ stored' = [stored EXCEPT ![s] = <<>>]
      /\ dropped' = dropped \cup {s}
      /\ asked' = [asked EXCEPT ![s] = <<>>]
      /\ unsaved' = RecordObject
      /\ UNCHANGED <<data_source, data_set, names, lists, last_id, record>>
  BY <1>1 DEF DeleteDb
<1>3. stored'[s] = <<>> /\ asked'[s] = <<>> /\ \A t \in DataStore : t # s => stored'[t] = stored[t] /\ asked'[t] = asked[t]
  BY <1>2 DEF ContextInv, ContextTypes
<1>4. ContextTypes'
  BY <1>2 DEF ContextInv, ContextTypes
<1>5. StoredAsAsked'
  <2>1. ASSUME NEW t \in DataStore PROVE VersionsOf(Range(stored'[t]), last_id) /\ AskedOf(Range(stored'[t]), asked'[t])
    <3>1. CASE t = s
      <4>1. Range(stored'[t]) = {} /\ DOMAIN asked'[t] = {}
        BY <1>3, <3>1 DEF Range
      <4>2. QED
        BY <4>1 DEF VersionsOf, AskedOf
    <3>2. CASE t # s
      BY <1>3, <3>2 DEF ContextInv, StoredAsAsked
    <3>3. QED
      BY <3>1, <3>2
  <2>2. QED
    BY <1>2, <2>1 DEF StoredAsAsked, Range
<1>6. ObjectsStored'
  BY <1>2 DEF ObjectsStored
<1>7. NamesStored'
  BY <1>2, <1>3, NamesKept DEF ContextInv
<1>8. QED
  BY <1>4, <1>5, <1>6, <1>7 DEF ContextInv

-----------------------------------------------------------------------------
(* save_many.                                                                *)

\* A sequence with one version more, and a function with one value more.
Follows(p, q, v) ==
    \E n \in Nat : DOMAIN p = 1 .. n /\ DOMAIN q = 1 .. n + 1 /\ q[n + 1] = v /\ \A i \in 1 .. n : q[i] = p[i]
Updates(g, h, x, c) == DOMAIN h = DOMAIN g \cup {x} /\ h[x] = c /\ \A y \in DOMAIN g : y # x => h[y] = g[y]

\* A document more, of those that are written: it is what was last asked for its key.
LEMMA AskedNext ==
    ASSUME NEW f, NEW d, NEW p, NEW q, NEW v, Follows(p, q, v), v.data_set = d
    PROVE  Updates(AskedAfter(f, d, p), AskedAfter(f, d, q), Place(v), v.value)
<1>1. PICK n \in Nat : DOMAIN p = 1 .. n /\ DOMAIN q = 1 .. n + 1 /\ q[n + 1] = v /\ \A i \in 1 .. n : q[i] = p[i]
  BY DEF Follows
<1> DEFINE place(i) == <<d, q[i].key[2]>>
           before(y) == {i \in 1 .. n : y = place(i)}
           after(y) == {i \in 1 .. n + 1 : y = place(i)}
           g == AskedAfter(f, d, p)
           h == AskedAfter(f, d, q)
           x == place(n + 1)
<1>2. \A i \in 1 .. n : p[i] = q[i]
  BY <1>1
<1>3. g = [y \in DOMAIN f \cup {place(i) : i \in 1 .. n} |->
              IF before(y) = {} THEN f[y] ELSE p[Max(before(y))].value]
  <2>1. {<<d, p[i].key[2]>> : i \in DOMAIN p} = {place(i) : i \in 1 .. n}
    BY <1>1, <1>2
  <2>2. \A y : {i \in DOMAIN p : y = <<d, p[i].key[2]>>} = before(y)
    BY <1>1, <1>2
  <2>3. QED
    BY <2>1, <2>2 DEF AskedAfter
<1>4. h = [y \in DOMAIN f \cup {place(i) : i \in 1 .. n + 1} |->
              IF after(y) = {} THEN f[y] ELSE q[Max(after(y))].value]
  <2>1. {<<d, q[i].key[2]>> : i \in DOMAIN q} = {place(i) : i \in 1 .. n + 1}
    BY <1>1
  <2>2. \A y : {i \in DOMAIN q : y = <<d, q[i].key[2]>>} = after(y)
    BY <1>1
  <2>3. QED
    BY <2>1, <2>2 DEF AskedAfter
<1>5. n + 1 \in 1 .. n + 1 /\ \A i : i \in 1 .. n + 1 <=> i \in 1 .. n \/ i = n + 1
  OBVIOUS
<1>6. {place(i) : i \in 1 .. n + 1} = {place(i) : i \in 1 .. n} \cup {x}
  BY <1>5
<1>7. after(x) # {} /\ Max(after(x)) = n + 1
  <2>1. n + 1 \in after(x) /\ \A i \in after(x) : i \in Nat /\ n + 1 >= i
    BY <1>5
  <2>2. \A i \in after(x) : (\A j \in after(x) : i >= j) => i = n + 1
    BY <2>1
  <2>3. QED
    BY <2>1, <2>2 DEF Max
<1>8. \A y : y # x => after(y) = before(y)
  BY <1>5
<1>9. ASSUME NEW y, before(y) # {} PROVE Max(before(y)) \in 1 .. n
  <2>1. before(y) \in SUBSET Nat /\ \A i \in before(y) : i <= n
    OBVIOUS
  <2> HIDE DEF before
  <2>2. PICK m \in before(y) : \A i \in before(y) : i <= m
    BY <1>9, <2>1, GreatestNatural
  <2>3. m \in before(y) /\ \A i \in before(y) : m >= i
    BY <2>1, <2>2
  <2>4. Max(before(y)) \in before(y)
    BY <2>3 DEF Max
  <2>5. QED
    BY <2>4 DEF before
<1> HIDE DEF before, after, place, g, h, x
<1>10. DOMAIN h = DOMAIN g \cup {x}
  BY <1>3, <1>4, <1>6
<1>11. h[x] = v.value
  BY <1>1, <1>4, <1>5, <1>6, <1>7
<1>12. ASSUME NEW y \in DOMAIN g, y # x PROVE h[y] = g[y]
  <2>1. y \in DOMAIN h /\ after(y) = before(y)
    BY <1>8, <1>10, <1>12
  <2>2. CASE before(y) = {}
    BY <1>3, <1>4, <2>1, <2>2
  <2>3. CASE before(y) # {}
    <3>1. PICK m \in 1 .. n : m = Max(before(y))
      BY <1>9, <2>3
    <3>2. p[m] = q[m]
      BY <1>2
    <3>3. g[y] = p[m].value /\ h[y] = q[m].value
      BY <1>3, <1>4, <2>1, <2>3, <3>1
    <3>4. QED
      BY <3>2, <3>3
  <2>4. QED
    BY <2>2, <2>3
<1>13. x = Place(v)
  BY <1>1 DEF x, place, Place
<1>14. Updates(g, h, x, v.value)
  BY <1>10, <1>11, <1>12 DEF Updates
<1>15. QED
  BY <1>13, <1>14 DEF g, h

\* The versions of two sequences, one after the other.
LEMMA RangeOfConcat ==
    ASSUME NEW S, NEW p \in Seq(S), NEW q \in Seq(S)
    PROVE  p \o q \in Seq(S) /\ Range(p \o q) = Range(p) \cup Range(q)
<1>1. PICK r : r = p \o q
  OBVIOUS
<1>2. /\ r \in Seq(S) /\ Len(p) \in Nat /\ Len(q) \in Nat
      /\ DOMAIN p = 1 .. Len(p) /\ DOMAIN q = 1 .. Len(q) /\ DOMAIN r = 1 .. Len(p) + Len(q)
  BY <1>1
<1>3. \A i \in 1 .. Len(p) : i \in 1 .. Len(p) + Len(q) /\ r[i] = p[i]
  BY <1>1, <1>2
<1>4. \A i \in 1 .. Len(q) : i + Len(p) \in 1 .. Len(p) + Len(q) /\ r[i + Len(p)] = q[i]
  BY <1>1, <1>2
<1>5. ASSUME NEW i \in 1 .. Len(p) + Len(q) PROVE r[i] \in Range(p) \cup Range(q)
  <2>1. CASE i <= Len(p)
    BY <1>2, <1>3, <2>1 DEF Range
  <2>2. CASE i > Len(p)
    <3>1. i - Len(p) \in 1 .. Len(q) /\ i - Len(p) + Len(p) = i
      BY <1>2, <2>2
    <3>2. r[i] = q[i - Len(p)]
      BY <1>4, <3>1
    <3>3. QED
      BY <1>2, <3>1, <3>2 DEF Range
  <2>3. QED
    BY <1>2, <2>1, <2>2
<1>6. Range(p) \cup Range(q) \subseteq Range(r)
  BY <1>2, <1>3, <1>4 DEF Range
<1>7. Range(r) \subseteq Range(p) \cup Range(q)
  BY <1>2, <1>5 DEF Range
<1>8. QED
  BY <1>1, <1>2, <1>6, <1>7

\* Of one or two records, no more are written than there are different ones, and those have
\* ids in their order.
LEMMA RecordsWritten ==
    ASSUME NEW records \in RecordLists, NEW n \in 0 .. Cardinality(Range(records))
    PROVE  /\ Len(records) \in Nat /\ DOMAIN records = 1 .. Len(records) /\ n \in {0, 1, 2} /\ n <= Len(records)
           /\ \A i \in DOMAIN records :
                 records[i] \in RecordObject /\ records[i] \in Range(records)
                     /\ LastOf(records[i], records) \in 1 .. Len(records)
           /\ n = 2 => LastOf(records[1], records) = 1 /\ LastOf(records[2], records) = 2
<1>1. CASE records \in {<<o>> : o \in RecordObject}
  <2>1. PICK o \in RecordObject : records = <<o>>
    BY <1>1
  <2>2. Range(records) = {o} /\ DOMAIN records = {1} /\ Len(records) = 1 /\ records[1] = o
    BY <2>1 DEF Range
  <2>3. Cardinality(Range(records)) = 1
    BY <2>2, FS_Singleton
  <2>4. n \in {0, 1}
    BY <2>3
  <2>5. LastOf(o, records) = 1
    BY <2>2 DEF LastOf
  <2>6. QED
    BY <2>2, <2>4, <2>5
<1>2. CASE records \in RecordObject \X RecordObject
  <2>1. PICK o \in RecordObject, p \in RecordObject : records = <<o, p>>
    BY <1>2
  <2>2. Range(records) = {o, p} /\ DOMAIN records = {1, 2} /\ Len(records) = 2 /\ records[1] = o /\ records[2] = p
    BY <2>1 DEF Range
  <2>3. LastOf(p, records) = 2
    <3>1. \A i \in DOMAIN records : (records[i] = p /\ \A j \in DOMAIN records : records[j] = p => j <= i) => i = 2
      BY <2>2
    <3>2. records[2] = p /\ \A j \in DOMAIN records : records[j] = p => j <= 2
      BY <2>2
    <3>3. QED
      BY <2>2, <3>1, <3>2 DEF LastOf
  <2>4. CASE o = p
    <3>1. Cardinality(Range(records)) = 1
      BY <2>2, <2>4, FS_Singleton
    <3>2. n \in {0, 1}
      BY <3>1
    <3>3. QED
      BY <2>2, <2>3, <2>4, <3>2
  <2>5. CASE o # p
    <3>1. Cardinality({o}) = 1 /\ IsFiniteSet({o})
      BY FS_Singleton
    <3>2. Cardinality({o} \cup {p}) = 2
      BY <2>5, <3>1, FS_AddElement
    <3>3. Cardinality(Range(records)) = 2
      <4>1. {o} \cup {p} = {o, p}
        OBVIOUS
      <4>2. QED
        BY <2>2, <3>2, <4>1
    <3>4. n \in {0, 1, 2}
      BY <3>3
    <3>5. LastOf(o, records) = 1
      <4>1. \A i \in DOMAIN records : (records[i] = o /\ \A j \in DOMAIN records : records[j] = o => j <= i) => i = 1
        BY <2>2, <2>5
      <4>2. records[1] = o /\ \A j \in DOMAIN records : records[j] = o => j <= 1
        BY <2>2, <2>5
      <4>3. QED
        BY <2>2, <4>1, <4>2 DEF LastOf
    <3>6. QED
      BY <2>2, <2>3, <3>4, <3>5
  <2>6. QED
    BY <2>4, <2>5
<1>3. QED
  BY <1>1, <1>2 DEF RecordLists

\* Before the first document everything is as it was.
LEMMA NoneWritten ==
    ASSUME NEW V, NEW f, AskedOf(V, f), NEW d, NEW p, DOMAIN p = {}
    PROVE  AskedOf(V, AskedAfter(f, d, p))
<1>1. PICK g : g = AskedAfter(f, d, p)
  OBVIOUS
<1>2. DOMAIN g = DOMAIN f /\ \A x \in DOMAIN f : g[x] = f[x]
  BY <1>1 DEF AskedAfter
<1>3. AskedOf(V, g)
  BY <1>2 DEF AskedOf
<1>4. QED
  BY <1>1, <1>3

\* The next document keeps what is known of the versions, if its id is a later one.
LEMMA NextWritten ==
    ASSUME NEW V \in SUBSET VersionType, NEW last \in Nat, VersionsOf(V, last),
           NEW f, NEW d \in Nat, NEW p, NEW q, NEW v \in VersionType, Follows(p, q, v),
           AskedOf(V, AskedAfter(f, d, p)), v.key \in DataKeys, v.data_set = d, last < v.id
    PROVE  VersionsOf(V \cup {v}, v.id) /\ AskedOf(V \cup {v}, AskedAfter(f, d, q))
<1>1. v.id \in Nat /\ v.id <= v.id
  BY DEF VersionType
<1>2. VersionsOf(V \cup {v}, v.id)
  BY <1>1, VersionAdded
<1>3. PICK g : g = AskedAfter(f, d, p)
  OBVIOUS
<1>4. PICK h : h = AskedAfter(f, d, q)
  OBVIOUS
<1>5. Updates(g, h, Place(v), v.value)
  BY <1>3, <1>4, AskedNext
<1>6. AskedOf(V, g)
  BY <1>3
<1>7. AskedOf(V \cup {v}, h)
  BY <1>5, <1>6, AskedAdded DEF Updates
<1>8. QED
  BY <1>2, <1>4, <1>7

\* All the documents that are written do.
LEMMA DocumentsWritten ==
    ASSUME NEW V \in SUBSET VersionType, NEW last \in Nat, VersionsOf(V, last), NEW f, AskedOf(V, f),
           NEW d \in Nat, NEW n \in {0, 1, 2}, NEW later \in Nat, last <= later,
           NEW q \in [1 .. n -> VersionType],
           \A i \in 1 .. n :
               q[i].key \in DataKeys /\ q[i].data_set = d /\ last < q[i].id /\ q[i].id <= later,
           n = 2 => q[1].id < q[2].id
    PROVE  VersionsOf(V \cup Range(q), later) /\ AskedOf(V \cup Range(q), AskedAfter(f, d, q))
<1>1. CASE n = 0
  <2>1. DOMAIN q = {}
    BY <1>1
  <2>2. V \cup Range(q) = V
    BY <2>1 DEF Range
  <2>3. \A v \in V : v.id \in Nat
    BY DEF VersionType
  <2>4. VersionsOf(V, later)
    BY <2>3 DEF VersionsOf
  <2>5. QED
    BY <2>1, <2>2, <2>4, NoneWritten
<1>2. CASE n \in {1, 2}
  <2>1. 1 \in 1 .. n
    BY <1>2
  <2>2. PICK v \in VersionType : v = q[1]
    BY <2>1
  <2>3. v.key \in DataKeys /\ v.data_set = d /\ last < v.id /\ v.id <= later /\ v.id \in Nat
    BY <2>1, <2>2 DEF VersionType
  <2>4. PICK none : DOMAIN none = 1 .. 0
    <3>1. DOMAIN [i \in 1 .. 0 |-> i] = 1 .. 0
      OBVIOUS
    <3>2. QED
      BY <3>1
  <2>5. PICK one : one = [i \in 1 .. 0 + 1 |-> v]
    OBVIOUS
  <2>6. Follows(none, one, v) /\ AskedOf(V, AskedAfter(f, d, none))
    <3>1. 0 \in Nat /\ DOMAIN one = 1 .. 0 + 1 /\ one[0 + 1] = v /\ \A i \in 1 .. 0 : one[i] = none[i]
      BY <2>5
    <3>2. Follows(none, one, v)
      BY <2>4, <3>1, Zenon DEF Follows
    <3>3. DOMAIN none = {}
      BY <2>4
    <3>4. QED
      BY <3>2, <3>3, NoneWritten
  <2>7. VersionsOf(V \cup {v}, v.id) /\ AskedOf(V \cup {v}, AskedAfter(f, d, one))
    BY <2>3, <2>6, NextWritten
  <2>8. CASE n = 1
    <3>1. q = one
      BY <2>2, <2>5, <2>8
    <3>2. Range(q) = {v}
      BY <2>2, <2>8 DEF Range
    <3>3. VersionsOf(V \cup {v}, later)
      BY <2>3, VersionAdded
    <3>4. QED
      BY <2>7, <3>1, <3>2, <3>3
  <2>9. CASE n = 2
    <3>1. PICK w \in VersionType : w = q[2]
      BY <2>9
    <3>2. w.key \in DataKeys /\ w.data_set = d /\ v.id < w.id /\ w.id <= later
      BY <2>2, <2>9, <3>1
    <3>3. PICK U \in SUBSET VersionType : U = V \cup {v}
      OBVIOUS
    <3>4. VersionsOf(U, v.id) /\ AskedOf(U, AskedAfter(f, d, one))
      BY <2>7, <3>3
    <3>5. Follows(one, q, w)
      <4>1. DOMAIN one = 1 .. 1 /\ \A i \in 1 .. 1 : q[i] = one[i]
        BY <2>2, <2>5
      <4>2. DOMAIN q = 1 .. 1 + 1 /\ q[1 + 1] = w
        BY <2>9, <3>1
      <4>3. QED
        BY <4>1, <4>2 DEF Follows
    <3>6. AskedOf(U \cup {w}, AskedAfter(f, d, q))
      BY <2>3, <3>2, <3>4, <3>5, NextWritten
    <3>7. VersionsOf(U \cup {w}, later)
      BY <2>3, <3>2, <3>4, VersionAdded
    <3>8. Range(q) = {v, w}
      <4>1. 1 .. n = {1, 2}
        BY <2>9
      <4>2. QED
        BY <2>2, <3>1, <4>1 DEF Range
    <3>9. V \cup Range(q) = U \cup {w}
      BY <3>3, <3>8
    <3>10. QED
      BY <3>6, <3>7, <3>9
  <2>10. QED
    BY <1>2, <2>8, <2>9
<1>3. QED
  BY <1>1, <1>2

\* What save_many gives a record that it saves, and leaves to the others.
LEMMA RecordsPrepared ==
    ASSUME ContextTypes, NEW records \in RecordLists, NEW s \in DataStore, NEW d \in Nat,
           NEW saved, saved = Prepared(records, s, d)
    PROVE  /\ saved \in [RecordObject -> RecordType]
           /\ \A o \in Range(records) :
                 /\ o \in RecordObject /\ saved[o].id = last_id + LastOf(o, records)
                 /\ saved[o].key = record[o].key /\ saved[o].data_set = d
           /\ \A o \in RecordObject \ Range(records) : saved[o] = record[o]
<1>1. record \in [RecordObject -> RecordType] /\ last_id \in Nat /\ HomeOf[s] \in Context
  BY ContextAssumption DEF ContextTypes
<1>2. ASSUME NEW o \in Range(records)
      PROVE  o \in RecordObject /\ LastOf(o, records) \in Nat
  <2>1. 0 \in 0 .. Cardinality(Range(records))
    <3>1. IsFiniteSet(Range(records))
      <4>1. ASSUME NEW o1 \in RecordObject, NEW o2 \in RecordObject PROVE IsFiniteSet({o1, o2})
        <5>1. IsFiniteSet({o1} \cup {o2})
          BY FS_Singleton, FS_AddElement
        <5>2. {o1, o2} = {o1} \cup {o2}
          OBVIOUS
        <5>3. QED
          BY <5>1, <5>2
      <4>2. \E o1 \in RecordObject, o2 \in RecordObject : Range(records) = {o1, o2}
        BY DEF Range, RecordLists
      <4>3. QED
        BY <4>1, <4>2
    <3>2. QED
      BY <3>1, FS_CardinalityType
  <2>2. PICK i \in DOMAIN records : o = records[i]
    BY DEF Range
  <2>3. QED
    BY <2>1, <2>2, RecordsWritten
<1>3. \A o \in Range(records) : saved[o] = [record[o] EXCEPT !.id = last_id + LastOf(o, records), !.data_set = d, !.context = HomeOf[s]]
  BY <1>2 DEF Prepared
<1>4. \A o \in RecordObject \ Range(records) : saved[o] = record[o]
  BY DEF Prepared
<1>5. ASSUME NEW o \in Range(records)
      PROVE  saved[o] \in RecordType /\ saved[o].id = last_id + LastOf(o, records) /\ saved[o].key = record[o].key /\ saved[o].data_set = d
  <2>1. record[o] \in RecordType /\ last_id + LastOf(o, records) \in Nat
    BY <1>1, <1>2
  <2>2. PICK r \in RecordType, id \in Nat : r = record[o] /\ id = last_id + LastOf(o, records)
    BY <2>1
  <2>3. PICK home \in Context : home = HomeOf[s]
    BY <1>1
  <2>4. saved[o] = [r EXCEPT !.id = id, !.data_set = d, !.context = home]
    BY <1>3, <2>2, <2>3
  <2>5. saved[o] \in RecordType /\ saved[o].id = id /\ saved[o].key = r.key /\ saved[o].data_set = d
    BY <2>4 DEF RecordType
  <2>6. QED
    BY <2>2, <2>5
<1>6. saved \in [RecordObject -> RecordType]
  <2>1. \A o \in RecordObject : saved[o] \in RecordType
    BY <1>1, <1>4, <1>5
  <2>2. saved = [o \in RecordObject |-> saved[o]]
    BY DEF Prepared
  <2>3. QED
    BY <2>1, <2>2
<1>7. QED
  BY <1>2, <1>4, <1>5, <1>6

\* A list of records has at most two, and some are written.
LEMMA SaveManyStep ==
    ASSUME ContextInv, NEW c \in Context, SaveMany(c)
    PROVE  ContextInv'
<1>1. PICK s \in DataStore : s = data_source[c]
  BY DEF ContextInv, ContextTypes
<1>2. PICK given \in GivenSet \cup {Own}, records \in RecordLists :
          /\ record' = Prepared(records, data_source[c], SaveTarget(c, given, records[1]))
          /\ last_id' = last_id + Len(records)
          /\ \E m \in 0 .. Cardinality(Range(records)) :
                LET written == [i \in 1 .. m |-> DocumentOf(Prepared(records, data_source[c], SaveTarget(c, given, records[1]))[records[i]])]
                IN  /\ stored' = [stored EXCEPT ![data_source[c]] = @ \o written]
                    /\ unsaved' = {o \in unsaved \cup Range(records) : \A i \in 1 .. m : records[i] # o}
                    /\ asked' = [asked EXCEPT ![data_source[c]] = AskedAfter(@, Target(c, given), written)]
  BY DEF SaveMany
<1>3. UNCHANGED <<data_source, data_set, names, lists, dropped>>
  BY DEF SaveMany
<1>4. PICK d \in Nat : d = Target(c, given)
  BY VersionTypes DEF ContextInv
<1>5. PICK saved : saved = Prepared(records, s, d)
  OBVIOUS
<1>6. PICK n \in 0 .. Cardinality(Range(records)) :
          /\ record' = saved
          /\ last_id' = last_id + Len(records)
          /\ stored' = [stored EXCEPT ![s] = @ \o [i \in 1 .. n |-> DocumentOf(saved[records[i]])]]
          /\ unsaved' = {o \in unsaved \cup Range(records) : \A i \in 1 .. n : records[i] # o}
          /\ asked' = [asked EXCEPT ![s] = AskedAfter(@, d, [i \in 1 .. n |-> DocumentOf(saved[records[i]])])]
  <2>1. SaveTarget(c, given, records[1]) = d
    BY <1>4 DEF SaveTarget
  <2>2. saved = Prepared(records, data_source[c], SaveTarget(c, given, records[1]))
    BY <1>1, <1>5, <2>1
  <2>3. QED
    BY <1>1, <1>2, <1>4, <2>2
<1>7. PICK q : q = [i \in 1 .. n |-> DocumentOf(saved[records[i]])]
  OBVIOUS
<1>8. PICK last \in Nat : last = last_id
  BY DEF ContextInv, ContextTypes
<1>9. PICK later \in Nat : later = last + Len(records) /\ later = last_id' /\ last <= later
  BY <1>6, <1>8, RecordsWritten
<1>10. /\ saved \in [RecordObject -> RecordType]
       /\ \A o \in Range(records) :
             /\ o \in RecordObject /\ saved[o].id = last + LastOf(o, records)
             /\ saved[o].key = record[o].key /\ saved[o].data_set = d
       /\ \A o \in RecordObject \ Range(records) : saved[o] = record[o]
  BY <1>5, <1>8, RecordsPrepared DEF ContextInv
<1>11. /\ Len(records) \in Nat /\ n \in {0, 1, 2} /\ n <= Len(records)
       /\ \A i \in 1 .. n : records[i] \in Range(records) /\ LastOf(records[i], records) \in 1 .. Len(records)
       /\ n = 2 => LastOf(records[1], records) = 1 /\ LastOf(records[2], records) = 2
  BY RecordsWritten
<1>12. ASSUME NEW i \in 1 .. n
       PROVE  /\ q[i] \in VersionType /\ q[i].key \in DataKeys /\ q[i].data_set = d
              /\ q[i].id = last + LastOf(records[i], records) /\ last < q[i].id /\ q[i].id <= later
  <2>1. PICK o \in RecordObject : o = records[i] /\ o \in Range(records)
    BY <1>10, <1>11
  <2>2. PICK r \in RecordType : r = saved[o]
    BY <1>10
  <2>3. q[i] = DocumentOf(r)
    BY <1>7, <2>1, <2>2
  <2>4. r.id = last + LastOf(records[i], records) /\ r.data_set = d
    BY <1>10, <2>1, <2>2
  <2>5. q[i] \in VersionType /\ q[i].key \in DataKeys /\ q[i].data_set = d /\ q[i].id = r.id
    BY <2>3, <2>4 DEF DocumentOf, Version, RecordType, VersionType, Keys
  <2>6. QED
    BY <1>9, <1>11, <2>4, <2>5
<1>13. q \in [1 .. n -> VersionType]
  BY <1>7, <1>12
<1>14. n = 2 => q[1].id < q[2].id
  <2>1. n = 2 => 1 \in 1 .. n /\ 2 \in 1 .. n
    OBVIOUS
  <2>2. QED
    BY <1>11, <1>12, <2>1
<1>15. PICK V \in SUBSET VersionType : V = Range(stored[s])
  BY VersionTypes DEF ContextInv
<1>16. PICK f : f = asked[s]
  OBVIOUS
<1>17. VersionsOf(V \cup Range(q), later) /\ AskedOf(V \cup Range(q), AskedAfter(f, d, q))
  <2>1. VersionsOf(V, last) /\ AskedOf(V, f)
    BY <1>8, <1>15, <1>16 DEF ContextInv, StoredAsAsked
  <2>2. \A i \in 1 .. n : q[i].key \in DataKeys /\ q[i].data_set = d /\ last < q[i].id /\ q[i].id <= later
    BY <1>12
  <2>3. QED
    BY <1>9, <1>11, <1>13, <1>14, <2>1, <2>2, DocumentsWritten
<1>18. PICK p \in Seq(VersionType) : p = stored[s]
  BY DEF ContextInv, ContextTypes
<1>19. q \in Seq(VersionType)
  BY <1>11, <1>13
<1>20. PICK w \in Seq(VersionType) : w = p \o q /\ Range(w) = V \cup Range(q)
  <2>1. p \o q \in Seq(VersionType) /\ Range(p \o q) = Range(p) \cup Range(q)
    BY <1>19, RangeOfConcat
  <2>2. QED
    BY <1>15, <1>18, <2>1
<1>21. /\ StoredAsAsked' /\ stored' \in [DataStore -> Seq(VersionType)]
       /\ stored'[s] = w
       /\ \A t \in DataStore : Range(stored[t]) \subseteq Range(stored'[t])
  <2>1. stored' = [stored EXCEPT ![s] = w]
    BY <1>6, <1>7, <1>18, <1>20
  <2>2. asked' = [asked EXCEPT ![s] = AskedAfter(f, d, q)]
    BY <1>6, <1>7, <1>16
  <2>3. asked'[s] = AskedAfter(f, d, q) /\ DOMAIN asked' = DataStore /\ \A t \in DataStore : t # s => asked'[t] = asked[t]
    BY <2>2 DEF ContextInv, ContextTypes
  <2>4. Range(stored[s]) \subseteq Range(w) /\ last_id' \in Nat /\ last_id <= last_id'
    BY <1>8, <1>9, <1>15, <1>20
  <2>5. VersionsOf(Range(w), last_id') /\ AskedOf(Range(w), asked'[s])
    BY <1>9, <1>17, <1>20, <2>3
  <2>6. QED
    BY <2>1, <2>3, <2>4, <2>5, WriteStep DEF ContextInv
<1>22. ContextTypes'
  BY <1>3, <1>6, <1>9, <1>10, <1>21 DEF ContextInv, ContextTypes
<1>23. ObjectsStored'
  <2>1. ASSUME NEW o \in RecordObject \ unsaved'
        PROVE  \/ o \notin unsaved /\ record'[o].id = record[o].id /\ record'[o].data_set = record[o].data_set
               \/ \E t \in DataStore : \E v \in Range(stored'[t]) :
                      v.id = record'[o].id /\ v.data_set = record'[o].data_set
    <3>1. CASE \E i \in 1 .. n : records[i] = o
      <4>1. PICK i \in 1 .. n : records[i] = o
        BY <3>1
      <4>2. q[i].id = record'[o].id /\ q[i].data_set = record'[o].data_set
        BY <1>6, <1>10, <1>11, <1>12, <4>1
      <4>3. q[i] \in Range(stored'[s])
        BY <1>13, <1>20, <1>21 DEF Range
      <4>4. QED
        BY <4>2, <4>3
    <3>2. CASE ~ \E i \in 1 .. n : records[i] = o
      <4>1. o \notin unsaved /\ o \notin Range(records)
        BY <1>6, <2>1, <3>2
      <4>2. QED
        BY <1>6, <1>10, <4>1
    <3>3. QED
      BY <3>1, <3>2
  <2>2. QED
    BY <1>21, <2>1, ObjectsKept DEF ContextInv
<1>24. NamesStored'
  BY <1>3, <1>21, NamesKept DEF ContextInv
<1>25. QED
  BY <1>21, <1>22, <1>23, <1>24 DEF ContextInv

-----------------------------------------------------------------------------
(* The theorem.                                                              *)

\* The three versions that a program begins with are what was asked for.
LEMMA ContextBegins ==
    ASSUME ContextInit
    PROVE  ContextInv
<1>1. PICK s \in DataStore, k \in RecordKeys, n \in DataSetName, m \in DataSetName :
          /\ stored = [t \in DataStore |->
                 IF t # s THEN <<>>
                 ELSE <<Version(1, DataSetKeyFor(n), 0, 1, {}), Version(2, DataSetKeyFor(m), 0, 1, {1}),
                        Version(3, DataKeyFor(k), 1, 1, {})>>]
          /\ n # m
          /\ asked = [t \in DataStore |-> IF t = s THEN [w \in {<<1, k>>} |-> 1] ELSE <<>>]
  BY Zenon DEF ContextInit
<1>2. /\ data_source \in [Context -> DataStore] /\ data_set \in [Context -> {0, 1, 2}]
      /\ names = [t \in DataStore |-> <<>>]
      /\ record = [o \in RecordObject |-> ObjectOf(Version(0, DataKeyFor(CHOOSE j \in RecordKeys : TRUE), 0, 1, {}), "none")]
      /\ last_id = 3
  BY DEF ContextInit
<1>3. PICK x : x = Version(1, DataSetKeyFor(n), 0, 1, {})
  OBVIOUS
<1>4. PICK y : y = Version(2, DataSetKeyFor(m), 0, 1, {1})
  OBVIOUS
<1>5. PICK z : z = Version(3, DataKeyFor(k), 1, 1, {})
  OBVIOUS
<1>6. x \in VersionType /\ x.id = 1 /\ x.data_set = 0 /\ x.key \notin DataKeys
  BY <1>3 DEF Version, VersionType, Keys, Values, RecordValues, DataKeys, DataKeyFor, DataSetKeyFor
<1>7. y \in VersionType /\ y.id = 2 /\ y.data_set = 0 /\ y.key \notin DataKeys
  BY <1>4 DEF Version, VersionType, Keys, Values, RecordValues, DataKeys, DataKeyFor, DataSetKeyFor
<1>8. z \in VersionType /\ z.id = 3 /\ z.data_set = 1 /\ z.key \in DataKeys /\ z.value = 1 /\ Place(z) = <<1, k>>
  BY <1>5 DEF Version, VersionType, Keys, Values, RecordValues, DataKeys, DataKeyFor, Place
<1>9. stored = [t \in DataStore |-> IF t # s THEN <<>> ELSE <<x, y, z>>]
  BY <1>1, <1>3, <1>4, <1>5
<1>10. Range(stored[s]) = {x, y, z} /\ asked[s] = [w \in {<<1, k>>} |-> 1]
  <2>1. stored[s] = <<x, y, z>> /\ asked[s] = [w \in {<<1, k>>} |-> 1]
    BY <1>1, <1>9
  <2>2. Range(<<x, y, z>>) = {x, y, z}
    BY DEF Range
  <2>3. QED
    BY <2>1, <2>2
<1>11. ASSUME NEW t \in DataStore, t # s PROVE Range(stored[t]) = {} /\ DOMAIN asked[t] = {}
  BY <1>1, <1>9, <1>11 DEF Range
<1>12. ContextTypes
  <2>1. <<x, y, z>> \in Seq(VersionType) /\ <<>> \in Seq(VersionType)
    BY <1>6, <1>7, <1>8
  <2>2. stored \in [DataStore -> Seq(VersionType)]
    BY <1>9, <2>1
  <2>3. RecordObject = {} \/ record \in [RecordObject -> RecordType]
    <3>1. DataKeyFor(CHOOSE j \in RecordKeys : TRUE) \in DataKeys
      BY DEF DataKeys
    <3>2. ObjectOf(Version(0, DataKeyFor(CHOOSE j \in RecordKeys : TRUE), 0, 1, {}), "none") \in RecordType
      BY <3>1 DEF ObjectOf, Version, RecordType, Values, RecordValues
    <3>3. QED
      BY <1>2, <3>2
  <2>4. DOMAIN asked = DataStore /\ DOMAIN names = DataStore
    BY <1>1, <1>2
  <2>5. data_set \in [Context -> Nat]
    BY <1>2
  <2>6. QED
    BY <1>2, <2>2, <2>3, <2>4, <2>5 DEF ContextTypes
<1>13. ASSUME NEW t \in DataStore PROVE VersionsOf(Range(stored[t]), last_id) /\ AskedOf(Range(stored[t]), asked[t])
  <2>1. CASE t # s
    BY <1>11, <2>1 DEF VersionsOf, AskedOf
  <2>2. CASE t = s
    <3>1. VersionsOf({x, y, z}, 3)
      <4>1. \A v \in {x, y, z} : v.id <= 3 /\ \A q \in {x, y, z} : q.id = v.id => q = v
        BY <1>6, <1>7, <1>8
      <4>2. 1 \in Nat /\ \A v \in {x, y, z} : v.data_set <= 1
        BY <1>6, <1>7, <1>8
      <4>3. QED
        BY <4>1, <4>2 DEF VersionsOf
    <3>2. PICK f : f = [w \in {<<1, k>>} |-> 1]
      OBVIOUS
    <3>3. DOMAIN f = {Place(z)} /\ f[Place(z)] = z.value
      BY <1>8, <3>2
    <3>4. AskedOf({x, y, z}, f)
      <4>1. \A v \in {x, y, z} : v.key \in DataKeys => Place(v) \in DOMAIN f
        BY <1>6, <1>7, <1>8, <3>3
      <4>2. \A q \in {x, y, z} : q.id <= z.id
        BY <1>6, <1>7, <1>8
      <4>3. QED
        BY <1>8, <3>3, <4>1, <4>2 DEF AskedOf
    <3>5. QED
      BY <1>2, <1>10, <2>2, <3>1, <3>2, <3>4
  <2>3. QED
    BY <2>1, <2>2
<1>14. ObjectsStored
  BY <1>2 DEF ObjectsStored, ObjectOf, Version
<1>15. NamesStored
  BY <1>2 DEF NamesStored
<1>16. QED
  BY <1>12, <1>13, <1>14, <1>15 DEF ContextInv, StoredAsAsked

\* Every call keeps the invariant.
LEMMA ContextStep ==
    ASSUME ContextInv, [ContextNext]_contextVars
    PROVE  ContextInv'
<1>1. CASE EditRecord
  BY <1>1, EditRecordStep
<1>2. ASSUME NEW c \in Context, SetDataSet(c) PROVE ContextInv'
  BY <1>2, SetDataSetStep
<1>3. ASSUME NEW c \in Context, Load(c) \/ LoadById(c) PROVE ContextInv'
  BY <1>3, LoadStep
<1>4. ASSUME NEW c \in Context, SaveMany(c) PROVE ContextInv'
  BY <1>4, SaveManyStep
<1>5. ASSUME NEW c \in Context, DeleteRecord(c) PROVE ContextInv'
  BY <1>5, DeleteRecordStep
<1>6. ASSUME NEW c \in Context, DeleteDb(c) PROVE ContextInv'
  BY <1>6, DeleteDbStep
<1>7. ASSUME NEW c \in Context, CreateDataSet(c) PROVE ContextInv'
  BY <1>7, CreateDataSetStep
<1>8. ASSUME NEW c \in Context, GetDataSet(c) PROVE ContextInv'
  BY <1>8, GetDataSetStep
<1>9. CASE UNCHANGED contextVars
  <2>1. UNCHANGED <<data_source, data_set, stored, names, last_id, dropped, record, asked, unsaved>>
    BY <1>9 DEF contextVars, stores
  <2>2. ContextTypes'
    BY <2>1 DEF ContextInv, ContextTypes
  <2>3. StoredAsAsked'
    BY <2>1, QuietStep DEF ContextInv, ContextTypes
  <2>4. ObjectsStored' /\ NamesStored'
    BY <2>1 DEF ContextInv, ObjectsStored, NamesStored, SavesTo
  <2>5. QED
    BY <2>2, <2>3, <2>4 DEF ContextInv
<1>10. QED
  BY <1>1, <1>2, <1>3, <1>4, <1>5, <1>6, <1>7, <1>8, <1>9 DEF ContextNext

\* Through whichever contexts a program saves, deletes and loads, and whatever datasets it
\* creates, imports and gets, loads show what was last asked of a dataset and its imports, in
\* the databases that were dropped too; an object that was loaded or saved has the id and
\* dataset of a stored version, and a cached name that of a stored dataset.
THEOREM ProgramsGetWhatTheyAsked == ContextSpec => []ContextsAsAsked
<1>1. ContextInit => ContextInv
  BY ContextBegins
<1>2. ContextInv /\ [ContextNext]_contextVars => ContextInv'
  BY ContextStep
<1>3. ContextInv => ContextsAsAsked
  <2>1. SUFFICES ASSUME ContextInv PROVE ContextsAsAsked
    OBVIOUS
  <2>2. ASSUME NEW s \in DataStore, NEW d \in DataSets, NEW k \in RecordKeys
        PROVE  {v.value : v \in LoadByKey(s, DataKeyFor(k), d)} = AskedFor(s, k, d)
    <3>1. PICK V \in SUBSET VersionType : V = Range(stored[s])
      BY <2>1, VersionTypes DEF ContextInv
    <3>2. PICK last \in Nat : last = last_id
      BY <2>1 DEF ContextInv, ContextTypes
    <3>3. VersionsOf(V, last) /\ AskedOf(V, asked[s])
      BY <2>1, <3>1, <3>2 DEF ContextInv, StoredAsAsked
    <3>4. PICK e : e = d
      OBVIOUS
    <3>5. {v.value : v \in LoadByKey(s, DataKeyFor(k), e)} = AskedFor(s, k, e)
      BY <3>1, <3>3, FoundAsAsked
    <3>6. QED
      BY <3>4, <3>5
  <2>3. LoadsAsAsked
    BY <2>2 DEF LoadsAsAsked
  <2>4. QED
    BY <2>1, <2>3 DEF ContextInv, ContextsAsAsked
<1>4. QED
  BY <1>1, <1>2, <1>3, PTL DEF ContextSpec
=============================================================================
