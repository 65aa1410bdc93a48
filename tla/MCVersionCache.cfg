SPECIFICATION FairSpec
CONSTANTS
    Callers = {c1, c2}
    MaxVersion = 2
    PackageUrl = TRUE
    NoVersion = NoVersion
INVARIANTS
    TypeOK
    RetryIsCurrentUnlessRaced
PROPERTIES
    EveryFetchEnds
    RefusalsStop
