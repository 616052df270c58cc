\* A notification promises a listing whatever it finds, so the registry offers
\* no tag at all here and every scan ends in an error. Two events of the policy
\* on their way: the replica can patch what it lists from a stale index.
SPECIFICATION HookSpec
CONSTANTS
    r1 = r1
    r2 = r2
    Policies = {p1}
    Repos = {r1, r2}
    Tags = {}
    None = None
    MaxGeneration = 2
    MaxLag = 2
    Payloads <- MCPayloads
INVARIANTS
    HookTypeOK
    AnsweredPushIsHeard
