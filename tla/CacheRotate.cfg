\* Racing uploads, two processes at the lock, and rotations that crash and are run
\* again, between pushes and deletes.
SPECIFICATION Spec
CONSTANTS
    n0 = n0  n1 = n1  n2 = n2  a = a  b = b  c = c
    p1 = p1  p2 = p2  u1 = u1  u2 = u2  k1 = k1  k2 = k2
    NoFile = NoFile
    None = None
    NarSize <- OneEmpty
    Nars = {n1}
    Levels = {3}
    Pids = {p1, p2}
    MaxStages = 2
    PowerFails = FALSE
    Paths = {a, b, c}
    Metas = {m}
    Keys = {k1, k2}
    Uploads = {u1, u2}
    Publications = {q}
    Batch = 2
    MaxStarts = 4
    OperatorRemoves = FALSE
SYMMETRY PathSymmetry
CHECK_DEADLOCK FALSE
INVARIANTS TypeOK RowsBacked StagingExclusive NoLeftovers OneValidSignature RotationRetiresKeys
PROPERTIES RotationOnlyResigns ImplementsCacheSpec
