\* Every rule over every listing of up to three tags out of seven.
SPECIFICATION Spec
CONSTANTS
    Tags <- AllTags
    MaxTags = 3
    Version <- VersionOf
    InRange <- FromNine
    Passing <- WithoutDash
    Matching <- WithNumber
    Extracted <- FirstNumber
    None = None
    Failure = Failure
INVARIANTS
    SelectionTypeOK
    ComparisonIsAnOrder
PROPERTIES
    SelectionIsNewest
    DisputedRanking
