\* Faults of the cache during a push.
SPECIFICATION Spec
CONSTANTS
    Requests <- Pushes
    TokenFlags <- SomeFlags
    TokenLines <- SomeLines
    MaxRequests = 1
    Pipelining = FALSE
    HeadLenMax = 3
    MetadataBodyMax = 2
CHECK_DEADLOCK FALSE
INVARIANTS FaultsAnswered
