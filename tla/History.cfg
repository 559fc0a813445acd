SPECIFICATION Spec
CONSTANTS
    None = None
    Error = Error
    h = h
    Common = Common
    A = A
    Nested = Nested
    Base = Base
    Derived = Derived
    k = k
    Source = {s1, h}
    ReadOnlySource = {}
    cutoff_time <- HistoryCutoff
    DataKey = {k}
    DataType = {Base, Derived}
    Assignable <- Casts
    Name = {Common, A, Nested}
    Initial <- FrozenDb
    MaxId = 6
    MaxSkip = 1
    MaxBatch = 1
    Imports = {}
    Targets = {1, 2}
    DeletedKeys <- Keys
    Details = {}
    Ops = {"save", "delete", "load", "load_id", "get"}
    Faults = {}
INVARIANTS TypeOK NothingPastCutoff ReadOnlyHonoured
PROPERTY HistoricalViewFrozen
CHECK_DEADLOCK FALSE
