\* Two requests; bodies of up to two drains and more.
SPECIFICATION FairSpec
CONSTANTS
    r1 = r1  r2 = r2
    Requests = {r1, r2}
    Bodies <- SomeBodies
    Targets <- SomeTargets
    ReadChunk = 2
    DrainThreshold = 2
    Window = 1
    Epilogue = 0
    NoFile = NoFile
    None = None
CHECK_DEADLOCK FALSE
INVARIANTS ContentAddressed RowsDescribe MemoryBounded
PROPERTIES ImplementsUploadSpec UploadsSettle
