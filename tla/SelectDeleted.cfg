SPECIFICATION Spec
CONSTANTS
    None = None
    Base = Base
    Other = Other
    Key = {k1, k2}
    DataSetId = {0, 2}
    DataType = {Base, Other}
    Derived = {Base}
    Value = {1, 2}
    load_from = 2
    LookupList = {0, 2}
    batch_size = 1
    Queries <- FilterQueries
    Collections <- TwoVersions
    MaxId = 3
INVARIANT DeleteMarkerHides
CHECK_DEADLOCK FALSE
