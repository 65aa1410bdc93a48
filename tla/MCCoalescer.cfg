SPECIFICATION FairSpec
CONSTANTS
    Callers = {c1, c2, c3}
    Keys = {k1, k2}
    Cells = {x1, x2, x3}
    Outcomes = {ok}
    NoKey = NoKey
    NoCell = NoCell
    NoOutcome = NoOutcome
INVARIANTS
    OneFetchPerKey
    NoOrphanFlight
    NoLeakedSlot
    IInv
PROPERTIES
    NoLateJoin
    SlotOutlivesFlight
    ImplementsSingleFlight
    EveryCallEnds
