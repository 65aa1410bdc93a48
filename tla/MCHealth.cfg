SPECIFICATION Spec
CONSTANTS
    Requests = {r1, r2}
    SnapshotTtl = 2
    LookupLimit = 1
    MaxTime = 6
    Never = Never
SYMMETRY MCSymmetry
INVARIANTS
    AnswerAge
