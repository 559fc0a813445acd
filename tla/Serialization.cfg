\* Objects of two classes through both formats; a client with arbitrary calls; walks
\* over the calendar; programs of three calls through two contexts.
CONSTANTS
    None = None
    Fields <- MCFields
    BaseType <- MCBaseType
    EnumItems <- MCEnumItems
    RootClass = {"Rec"}
    MaxToken = 3
    KeyClass <- MCKeyClass
    Objects <- MCObjects
    Selections <- MCSelections
    convention = "hierarchical"
    TypeNames = {"Special", "Part"}
    ElementNames = {"a", "b"}
    ClientValues <- MCClientValues
    MaxCalls = 11
    Starts <- MCStarts
    Periods <- MCPeriods
    Amounts <- MCAmounts
    MaxSteps = 3
    Context = {"c1", "c2"}
    DataStore = {"d1", "d2"}
    HomeOf <- MCHomeOf
    r1 = r1
    r2 = r2
    RecordObject = {r1, r2}
    RecordKeys = {"k"}
    DataSetName = {"n", "m"}
    GivenSet = {0}
    MaxContextCalls = 3
SYMMETRY Interchangeable
SPECIFICATION MCSpec
CHECK_DEADLOCK FALSE
INVARIANTS JsonFollowsBson SameTree NothingLostSilently ReadableIsRead TupleIsSelection DateAndTimeFollow WalksStored ContextsAsAsked
