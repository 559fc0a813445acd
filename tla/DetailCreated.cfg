SPECIFICATION Spec
CONSTANTS
    None = None
    Error = Error
    h = h
    Common = Common
    A = A
    Nested = Nested
    Base = Base
    Derived = Derived
    k = k
    Source = {s1}
    ReadOnlySource = {}
    cutoff_time <- NoCutoff
    DataKey = {}
    DataType = {}
    Assignable = {}
    Name = {Common}
    Initial <- CommonDb
    MaxId = 4
    MaxSkip = 0
    MaxBatch = 1
    Imports = {}
    Targets = {0}
    DeletedKeys <- Keys
    Details = {}
    Ops = {"get"}
    Faults = {}
INVARIANT DetailsReferToDataSets
CHECK_DEADLOCK FALSE
