SPECIFICATION Spec
CONSTANTS
    None = None
    Error = Error
    h = h
    Common = Common
    A = A
    Nested = Nested
    Base = Base
    Derived = Derived
    k = k
    Source = {s1}
    ReadOnlySource = {}
    cutoff_time <- NoCutoff
    DataKey = {k}
    DataType = {Base}
    Assignable <- Casts
    Name = {Common}
    Initial <- CommonDb
    MaxId = 4
    MaxSkip = 0
    MaxBatch = 1
    Imports = {}
    Targets = {1}
    DeletedKeys <- Keys
    Details <- ReadOnlyDetails
    Ops = {"save", "detail"}
    Faults = {}
INVARIANT ReadOnlyHonoured
CHECK_DEADLOCK FALSE
