SPECIFICATION Spec
CONSTANTS
    Users = {u1, u2}
    Keys = {k1, k2, k3, k4}
    Bodies = {b1, b2}
    Ttls = {0, 1, 2, 3}
    Capacity = 3
    MaxInstant = 6
    Absent = Absent
    NoKey = NoKey
SYMMETRY MCSymmetry
INVARIANTS
    TypeOK
    Bounded
PROPERTIES
    GetSparesLive
    EvictsOnlyEarliest
    SetPrunes
