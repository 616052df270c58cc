\* A policy scanned once, then moved to another repository.
SPECIFICATION GitSpec
CONSTANTS
    Workloads = {w1}
    c1 = c1
    c2 = c2
    Containers = {c1, c2}
    ListOf <- AllMain
    Immutable = {}
    Policies = {p1}
    Repos = {r1, r2}
    Tags = {t1, t2}
    None = None
    Methods = {"git"}
    MaxEdits = 1
    MaxLag = 2
PROPERTIES
    CommitsSelectedImages
CHECK_DEADLOCK FALSE
