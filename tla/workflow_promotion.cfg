SPECIFICATION Spec
CONSTANTS
    Entries = {10, 20, 30, 40}
    Known = {{30}, {10, 40}}
    Ranges <- MCRanges
    Metadata <- MCMetadata
    Recovered = {10, 30}
    Refs <- MCRefs
    FunctionLimit = 3
    RefsPerFunction = 2
    ReferenceLimit = 3
    TargetLimit = 2
    MaxEdits = 1
    NoFunc = NoFunc
PROPERTY
    NoUserFunctionDiscarded
CHECK_DEADLOCK FALSE
