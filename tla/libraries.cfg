SPECIFICATION Spec
CONSTANTS
    Eras = {"8", "11"}
    Libs <- MCLibs
    EraOf <- MCEraOf
    Age <- MCAge
    KeepFolds = {"8"}
    Guids = {"g1", "g2"}
    Names <- MCNames
    Normalise <- MCNormalise
    Placeholders = {"System::_NF__1"}
    RtlNames <- MCNames
    Project <- MCProject
    PathOrder <- MCPathOrder
    MinProjects = 2
    MinBlocks = 2
    RttiTag = "xe2plus"
    BplTag = "10.4"
    StartingDirs <- MCStartingDirs
    ReleaseVersions <- MCReleaseVersions
    Records <- MCRecords
    Packages <- MCPackages
    ViewLimit = 2
    HashOrders <- MCHashOrders
    DestRank <- MCDestRank
    MaxRuns = 3
INVARIANTS
    EraClaimsOnce
    ShippedAsPlanned
    VerifiedAnswersAgree
    ContributedAreAdditive
CHECK_DEADLOCK FALSE
