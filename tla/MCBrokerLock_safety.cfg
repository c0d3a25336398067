CONSTANTS
    c1 = c1 c2 = c2 c3 = c3 c4 = c4
    p1 = p1 p2 = p2 p3 = p3
    Call = {c1, c2, c3, c4}
    Process = {p1, p2, p3}
    PidOf <- PidOf4
    Inner <- Inner4
    Retry = {c3}
    Hurried = {c3}
    UnreadableMax = 2
    SuspendBeyondTTL = FALSE
    None = None
    Foreign = Foreign
SPECIFICATION Spec
INVARIANT MutualExclusion
PROPERTY ImplementsMutex
CHECK_DEADLOCK FALSE
