\* Two policies of one repository that select different tags, no change from
\* outside.
SPECIFICATION LoopSpec
CONSTANTS
    Workloads = {w1}
    c1 = c1
    c2 = c2
    r1 = r1
    t1 = t1
    Containers = {c1, c2}
    ListOf <- AllMain
    Immutable = {}
    Policies = {p1, p2}
    Repos = {r1}
    Tags = {t1, t2}
    None = None
    Methods = {"git"}
    MaxEdits = 0
    MaxLag = 2
PROPERTIES
    CommitsEnd
CHECK_DEADLOCK FALSE
