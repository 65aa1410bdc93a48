SPECIFICATION FairSpec
CONSTANTS
    k1 = k1
    k2 = k2
    Callers = {c1, c2}
    Keys = {k1, k2}
    Cells = {x1, x2}
    Bodies = {b1}
    TtlOf <- TwoTtls
    Capacity = 1
    MaxInstant = 3
    Failed = Failed
    NoKey = NoKey
    NoCell = NoCell
    NoOutcome = NoOutcome
    Absent = Absent
PROPERTIES
    DrivesCoalescer
    DrivesCache
    EveryRequestEnds
