SPECIFICATION Spec
CONSTANTS
    Numbers = {0, 1, 2}
    Types = {"challenge", "live_try"}
    Capacity = 1
    Omitted = Omitted
    BadNumber = BadNumber
    Unsupported = Unsupported
    NoCall = NoCall
    NoRequest = NoRequest
INVARIANTS
    AnswersOwnRequest
    OnlyValidRequestsCall
PROPERTIES
    OneUpstreamPerWindow
