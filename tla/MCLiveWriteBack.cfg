\* Two changes from outside, after or between the operator's steps. The
\* system stops when they are used up and every update is applied.
SPECIFICATION FairSpec
CONSTANTS
    Workloads = {w1}
    c1 = c1
    c2 = c2
    Containers = {c1, c2}
    ListOf <- BothMain
    Immutable = {}
    Policies = {p1}
    Repos = {r1}
    Tags = {t1, t2}
    None = None
    Methods = {"live"}
    MaxEdits = 2
    MaxLag = 2
INVARIANTS
    TypeOK
    UpdateNotForgotten
PROPERTIES
    UpdatesApplied
CHECK_DEADLOCK FALSE
