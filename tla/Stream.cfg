\* Every Range header, every way to cut the transfer, two drops, a file that
\* may lose its tail.
SPECIFICATION FairSpec
CONSTANTS
    U64Max = 7
    MaxSize = 5
    SendChunk = 2
    MaxDrops = 2
    Truncates = TRUE
CHECK_DEADLOCK FALSE
INVARIANTS BodyAsDeclared AskedBytesSent ResumedFetchWhole
PROPERTIES StreamsEnd
