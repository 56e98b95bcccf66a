SPECIFICATION Spec
CONSTANTS
    b1 = b1
    b2 = b2
    b3 = b3
    b4 = b4
    Binaries = {b1, b2, b3, b4}
    DelphiEras <- MCEras
    LibraryEras <- MCLibraryEras
    FpcTags = {"3.2.2-win32"}
    Shipped <- MCShipped
    Evidence <- MixedEvidence
    None = None
INVARIANTS
    RegisteredIsLoaded
    OnlyCalledFor
    NoTagForgotten
PROPERTIES
    LoadedStays
    EveryBinaryDone
CHECK_DEADLOCK FALSE
