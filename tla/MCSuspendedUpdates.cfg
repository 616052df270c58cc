\* A policy is suspended between the selection of a tag and the update.
SPECIFICATION Spec
CONSTANTS
    Workloads = {w1}
    c1 = c1
    c2 = c2
    Containers = {c1, c2}
    ListOf <- BothMain
    Immutable = {}
    Policies = {p1}
    Repos = {r1}
    Tags = {t1, t2}
    None = None
    Methods = {"live"}
    MaxEdits = 1
    MaxLag = 2
PROPERTIES
    SuspendPausesUpdates
CHECK_DEADLOCK FALSE
