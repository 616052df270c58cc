\* One policy: fairness is stated for each, so a second one adds nothing but
\* states. Two repositories to move between, each with its one tag or none. No
\* symmetry, which is not sound for a temporal property.
SPECIFICATION FairSpec
CONSTANTS
    Policies = {p1}
    Repos = {r1, r2}
    Tags = {t1}
    None = None
    MaxGeneration = 2
    MaxLag = 2
INVARIANTS
    TypeOK
    PollingNeverStops
    ReadyStatusMatchesSpec
    AcceptedScanIsFresh
PROPERTIES
    SuspendFreezesStatus
    StatusAsPromised
    LatestConverges
