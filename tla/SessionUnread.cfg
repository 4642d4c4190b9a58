\* A body on a request that has no use for one.
SPECIFICATION Spec
CONSTANTS
    Requests <- BodyOnAnything
    TokenFlags <- SomeFlags
    TokenLines <- SomeLines
    MaxRequests = 2
    Pipelining = FALSE
    HeadLenMax = 3
    MetadataBodyMax = 2
CHECK_DEADLOCK FALSE
INVARIANTS MessageBoundary
