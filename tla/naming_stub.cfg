SPECIFICATION Spec
CONSTANTS
    Programs <- StubPrograms
    StdMethods <- MCStdMethods
    HeaderSize = 2
    Addrs <- MCAddrs
    Claims <- MCClaims
    NoClaim = NoClaim
INVARIANT AbstractStubUnnamed
CHECK_DEADLOCK FALSE
