\* Power failures, orphan removals and the progress of everything that is running.
SPECIFICATION FairSpec
CONSTANTS
    n0 = n0  n1 = n1  n2 = n2  a = a  b = b  c = c
    p1 = p1  p2 = p2  u1 = u1  u2 = u2  k1 = k1  k2 = k2
    NoFile = NoFile
    None = None
    NarSize <- OneEmpty
    Nars = {n0, n1}
    Levels = {3}
    Pids = {p1}
    MaxStages = 2
    PowerFails = TRUE
    Paths = {a}
    Metas = {m}
    Keys = {k1}
    Uploads = {u1, u2}
    Publications = {q}
    Batch = 2
    MaxStarts = 2
    OperatorRemoves = TRUE
CHECK_DEADLOCK FALSE
INVARIANTS WholeArtifacts
PROPERTIES OnlyVerifiedAppears RemovalSparesRecords
           ProcessesFinish
