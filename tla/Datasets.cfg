SPECIFICATION Spec
CONSTANTS
    None = None
    Error = Error
    h = h
    Common = Common
    A = A
    Nested = Nested
    Base = Base
    Derived = Derived
    k = k
    Source = {s1}
    ReadOnlySource = {}
    cutoff_time <- NoCutoff
    DataKey = {}
    DataType = {}
    Assignable = {}
    Name = {Common, A}
    Initial <- CommonDb
    MaxId = 4
    MaxSkip = 0
    MaxBatch = 1
    Imports = {{}, {1}, {1, 2}, {3}}
    Targets = {0, 1}
    DeletedKeys <- Keys
    Details = {}
    Ops = {"create", "get"}
    Faults = {"read", "write", "crash"}
INVARIANTS LookupListIsClosure NamesConsistent NoReentry
PROPERTY MethodsReturn
CHECK_DEADLOCK FALSE
