CONSTANTS
    c1 = c1 c2 = c2 c3 = c3 c4 = c4
    p1 = p1 p2 = p2 p3 = p3
    Call = {c1, c2, c3, c4}
    Process = {p1, p2, p3}
    PidOf <- PidOfNested4
    Inner <- InnerNested4
    Retry = {c2}
    Hurried = {c2, c3}
    UnreadableMax = 1
    SuspendBeyondTTL = TRUE
    None = None
    Foreign = Foreign
SPECIFICATION FairSpec
CHECK_DEADLOCK FALSE
INVARIANT MisfiledLockIsAnswered
PROPERTY EveryCallEnds
