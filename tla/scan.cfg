SPECIFICATION Spec
CONSTANTS
    Records <- MCRecords
    Requests <- MCRequests
    Streams = {"form"}
    MaxScans = 2
    None = None
INVARIANTS
    CommittedIsWhole
    CachesFresh
    StreamsNoneMeansNotSought
PROPERTIES
    WeakEvidenceYields
CHECK_DEADLOCK FALSE
