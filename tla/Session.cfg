\* Pipelined requests, many turned down with a body behind, some held back.
SPECIFICATION FairSpec
CONSTANTS
    Requests <- ManyRequests
    TokenFlags <- SomeFlags
    TokenLines <- SomeLines
    MaxRequests = 2
    Pipelining = TRUE
    HeadLenMax = 3
    MetadataBodyMax = 2
CHECK_DEADLOCK FALSE
INVARIANTS MessageBoundary BodyIsOwn AnsweredInOrder AdmittedOnly CountersAccount
PROPERTIES RequestsAnswered
