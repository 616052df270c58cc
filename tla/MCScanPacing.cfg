\* One policy and one repository are enough for a scan to follow itself.
SPECIFICATION PacedSpec
CONSTANTS
    Policies = {p1}
    Repos = {r1}
    Tags = {t1}
    None = None
    MaxGeneration = 1
    MaxLag = 1
PROPERTIES
    ScansArePaced
