SPECIFICATION Spec
CONSTANTS
    c1 = c1
    c2 = c2
    r1 = r1
    r2 = r2
    t1 = t1
    t2 = t2
    Other = Other
    Containers = {c1, c2}
    Repos = {r1, r2}
    Tags = {t1, t2}
    None = None
    Mistagged = Mistagged
    Segments <- MCSegments
    MaxIndex = 6
    Index <- MCIndex
    Cases <- MCCases
INVARIANTS
    DocumentIsTree
PROPERTIES
    EntriesAsPromised
    UnrelatedContentKept
    CarriedIsUnchanged
