SPECIFICATION Spec
CONSTANTS
    Programs <- ThunkPrograms
    StdMethods <- MCStdMethods
    HeaderSize = 2
    Addrs <- MCAddrs
    Claims <- MCClaims
    NoClaim = NoClaim
INVARIANT FirstThunksNamed
CHECK_DEADLOCK FALSE
