\* Two containers of one list, one of them changed while the other is updated.
SPECIFICATION Spec
CONSTANTS
    Workloads = {w1}
    c1 = c1
    c2 = c2
    Containers = {c1, c2}
    ListOf <- BothMain
    Immutable = {}
    Policies = {p1}
    Repos = {r1}
    Tags = {t1, t2}
    None = None
    Methods = {"live"}
    MaxEdits = 2
    MaxLag = 2
PROPERTIES
    OnlySelectedImagesWritten
CHECK_DEADLOCK FALSE
