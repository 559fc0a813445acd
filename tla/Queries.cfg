\* Filters over three documents; queries of four calls; three classes built on demand.
CONSTANTS
    None = None
    Fields <- MCNoFields
    BaseType <- MCNoFields
    EnumItems <- MCNoFields
    RootClass = {}
    MaxToken = 1
    convention = "hierarchical"
    Collection <- MCCollection
    Element <- MCElement
    Conditions <- MCConditions
    PropVar = {"p", "q"}
    MaxTokens = 4
    MaxFilterCalls = 6
    Contents <- MCContents
    KeyOf <- MCKeyOf
    Filters <- MCFilters
    MaxQueryCalls = 4
    Simple = {"int"}
    CppClass = {"A", "B", "C"}
    CppName <- MCCppName
    FullName <- MCFullName
    ShortName <- MCShortName
    Schemas <- MCAllSchemas
    NoType = "none"
    Source = {s1, s2}
    Settings <- MCSettings
    PartLength <- MCPartLength
    Prohibited = {"b c"}
    max_db_name_length_ = 64
    Unset = Unset
    DataClass <- MCClass
    TemplateClass <- MCTemplates
    BaseOf <- MCBaseOf
    Arguments <- MCArguments
    Attributes <- MCAttributes
    OwnFields <- MCOwnFields
    Requested = {"TradeKey", "Trade", "Swap", "Bond", "Part"}
    MaxRequests = 3
    Digit = 2
    Second = 3
    Tails <- MCTails
    Times <- MCTimes
    MaxClock = 4
    MaxIds = 3
SPECIFICATION MCSpec
CHECK_DEADLOCK FALSE
SYMMETRY Symmetry
INVARIANTS FilterMeans CursorAsAsked RegistryComplete CollectionsIndexed IdsFollowTime
PROPERTIES DropsItsOwn
