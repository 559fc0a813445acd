---------------------- MODULE MCTemporalMongoDataSource ----------------------
(* Instances of TemporalMongoDataSource for TLC: the databases the data       *)
(* sources open and the settings they are given.                              *)
EXTENDS TemporalMongoDataSource

CONSTANTS h, Common, A, Nested, Base, Derived, k

\* Data source h shows the data as of id 6, the others have no cutoff time.
NoCutoff == [s \in Source |-> None]
HistoryCutoff == [s \in Source |-> IF s = h THEN 6 ELSE None]

\* Derived is a subclass of Base.
Casts == (DataType \X DataType) \ {<<Derived, Base>>}

Keys == {DataKeyOf(key) : key \in DataKey}

ReadOnly == [NoDetail EXCEPT !.read_only = TRUE]
ReadOnlyDetails == {ReadOnly}
CutoffDetails == {[NoDetail EXCEPT !.cutoff_time = 3]}
Frozen == [ReadOnly EXCEPT !.cutoff_time = 3]
FrozenImports == {[NoDetail EXCEPT !.imports_cutoff_time = 3]}

DataSetRecord(id, name, ds, imports) ==
    [NewRecord(DataSetKeyOf(name), None) EXCEPT !.id = id, !.data_set = ds, !.imports = imports]
DetailRecord(id, d, ds, detail) ==
    [NewRecord(DataSetDetailKeyOf(d), None) EXCEPT !.id = id, !.data_set = ds, !.detail = detail]

\* Dataset Common in the root dataset.
CommonDb == {DataSetRecord(1, Common, Root, {})}

\* The same, but a data source whose clock is behind may still get id 1.
AheadDb == {DataSetRecord(2, Common, Root, {})}

\* Dataset Common and dataset A, which imports Common.
ImportingDb == CommonDb \cup {DataSetRecord(2, A, Root, {1})}

\* A imports Common; Common is read-only and frozen as of id 3, which is the id
\* of the dataset Nested that it holds.
FrozenDb == ImportingDb \cup {DataSetRecord(3, Nested, 1, {}), DetailRecord(4, 1, Root, Frozen)}
=============================================================================
