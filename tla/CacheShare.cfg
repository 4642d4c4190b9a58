\* Two paths may share a NAR; servers restart at another level.
SPECIFICATION Spec
CONSTANTS
    n0 = n0  n1 = n1  n2 = n2  a = a  b = b  c = c
    p1 = p1  p2 = p2  u1 = u1  u2 = u2  k1 = k1  k2 = k2
    NoFile = NoFile
    None = None
    NarSize <- OneEmpty
    Nars = {n1, n2}
    Levels = {3, 19}
    Pids = {p1}
    MaxStages = 1
    PowerFails = FALSE
    Paths = {a, b}
    Metas = {m}
    Keys = {k1}
    Uploads = {u1}
    Publications = {q}
    Batch = 1
    MaxStarts = 3
    OperatorRemoves = FALSE
SYMMETRY PathSymmetry
CHECK_DEADLOCK FALSE
INVARIANTS RecordsBacked ResolvedFetchable AcksSurvive
