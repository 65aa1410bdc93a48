SPECIFICATION Spec
CONSTANTS
    Callers = {c1, c2}
    MaxVersion = 1
    PackageUrl = TRUE
    NoVersion = NoVersion
INVARIANT
    RetryIsCurrent
