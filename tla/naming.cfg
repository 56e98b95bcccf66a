SPECIFICATION Spec
CONSTANTS
    Programs <- PassPrograms
    StdMethods <- MCStdMethods
    HeaderSize = 2
    Addrs <- MCAddrs
    Claims <- MCClaims
    NoClaim = NoClaim
INVARIANTS
    TableSummarisesClaims
    NamesIndependentOfOrder
    InheritedStaysWithAncestor
    ThunksYield
    SlotNamesFlowDown
PROPERTY
    ImplementsNameResolution
CHECK_DEADLOCK FALSE
