CONSTANTS
    Thread = {"t1", "t2"}
    Var = {"v1", "v2", "v3"}
    Weak = {"w1"}
    Obj = {"o1", "o2"}
    Null = "null"
    Owner <- MCOwner
    Home <- MCHome
    Kind <- MCKind
    Shared <- MCShared
    Value = {0, 1, 2}
    Empty = 2
    Nothing = Nothing
    Address = {1, 2}
    ListKind = "int"
    MaxItems = 2
    MaxMoves = 4
SPECIFICATION MCSpec
CHECK_DEADLOCK FALSE
INVARIANTS NoUseAfterFree ValuesKept ContainersByValue
PROPERTIES ReferencesKept UnownedFreed
