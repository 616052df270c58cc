\* A Deployment of one replica, as in the README's quickstart.
SPECIFICATION Spec
CONSTANTS
    Tags = {t1, t2}
    Replicas = 1
    MaxSets = 3
INVARIANTS
    UpdateReachesPods
CHECK_DEADLOCK FALSE
