\* A push after the operator deleted what reconcile lists.
SPECIFICATION Spec
CONSTANTS
    n0 = n0  n1 = n1  n2 = n2  a = a  b = b  c = c
    p1 = p1  p2 = p2  u1 = u1  u2 = u2  k1 = k1  k2 = k2
    NoFile = NoFile
    None = None
    NarSize <- OneEmpty
    Nars = {n1}
    Levels = {3}
    Pids = {p1}
    MaxStages = 1
    PowerFails = FALSE
    Paths = {a}
    Metas = {m}
    Keys = {k1}
    Uploads = {u1}
    Publications = {q}
    Batch = 1
    MaxStarts = 2
    OperatorRemoves = TRUE
CHECK_DEADLOCK FALSE
PROPERTIES PublishesWhatIsThere
