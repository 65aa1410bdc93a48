SPECIFICATION Spec
CONSTANTS
    k1 = k1
    k2 = k2
    Callers = {c1, c2, c3}
    Keys = {k1}
    Cells = {x1, x2, x3}
    Bodies = {b1, b2}
    TtlOf <- OneTtl
    Capacity = 1
    MaxInstant = 2
    Failed = Failed
    NoKey = NoKey
    NoCell = NoCell
    NoOutcome = NoOutcome
    Absent = Absent
SYMMETRY MCSymmetry
INVARIANTS
    IInv
    NoFetchWhileLive
    OneWriterPerKey
    FlightAgreesWithCache
