\* A narinfo pushed, served and read back.
SPECIFICATION Spec
CONSTANTS
    HashWidth = 2
    DigestWidth = 1
    Names = {"hello", "glibc"}
    U64Max = 9
    Uploads <- SomeUploads
    Dirs <- SomeDirs
    KeyFiles <- SomeKeyFiles
    KeyTexts <- SomeKeys
    Bodies <- SomeBodies
    MaxPuts = 2
    MaxStarts = 2
CHECK_DEADLOCK FALSE
INVARIANTS ReadsBack ClientAccepts RepushStable KeygenStartsServer KeyNamesRecord LastLineStands
