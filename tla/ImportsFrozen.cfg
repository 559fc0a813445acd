SPECIFICATION Spec
CONSTANTS
    None = None
    Error = Error
    h = h
    Common = Common
    A = A
    Nested = Nested
    Base = Base
    Derived = Derived
    k = k
    Source = {s1}
    ReadOnlySource = {}
    cutoff_time <- NoCutoff
    DataKey = {k}
    DataType = {Base}
    Assignable <- Casts
    Name = {Common, A}
    Initial <- ImportingDb
    MaxId = 4
    MaxSkip = 0
    MaxBatch = 1
    Imports = {}
    Targets = {1, 2}
    DeletedKeys <- Keys
    Details <- FrozenImports
    Ops = {"save", "detail", "load"}
    Faults = {"crash"}
INVARIANT ImportsCutoffHonoured
CHECK_DEADLOCK FALSE
