\* Two containers of one policy in one file, and one change from outside, after
\* or between the steps of the loop. The system stops when it is used up and
\* every update has arrived.
SPECIFICATION MCLoopSpec
CONSTANTS
    Workloads = {w1}
    c1 = c1
    c2 = c2
    r1 = r1
    t1 = t1
    Containers = {c1, c2}
    ListOf <- AllMain
    Immutable = {}
    Policies = {p1}
    Repos = {r1, r2}
    Tags = {t1, t2}
    None = None
    Methods = {"git"}
    MaxEdits = 1
    MaxLag = 2
INVARIANTS
    GitTypeOK
    BehindOnlyAfterFailure
PROPERTIES
    OthersCommitsSurvive
    LoopSettles
CHECK_DEADLOCK FALSE
