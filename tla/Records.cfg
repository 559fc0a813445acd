SPECIFICATION Spec
CONSTANTS
    None = None
    Error = Error
    h = h
    Common = Common
    A = A
    Nested = Nested
    Base = Base
    Derived = Derived
    k = k
    Source = {s1, s2}
    ReadOnlySource = {}
    cutoff_time <- NoCutoff
    DataKey = {k}
    DataType = {Base}
    Assignable <- Casts
    Name = {Common}
    Initial <- AheadDb
    MaxId = 4
    MaxSkip = 1
    MaxBatch = 2
    Imports = {}
    Targets = {2}
    DeletedKeys <- Keys
    Details <- CutoffDetails
    Ops = {"save", "detail", "delete", "load"}
    Faults = {"write", "crash"}
INVARIANTS StoreOrdered ReadYourWrites
PROPERTY HistoryIsKept
CHECK_DEADLOCK FALSE
