CONSTANTS
    s1 = s1 s2 = s2 s3 = s3 s4 = s4 t1 = t1 t2 = t2 t3 = t3 k1 = k1 k2 = k2 c1 = c1 c2 = c2
    None = None
    Sup = {s1, s2}
    Ticket = {t1, t2}
    Key = {k1, k2}
    TicketOf <- TicketOf3
    KeyOf <- KeyOf3
    Conflicts <- Conflicts12
    MaxConcurrent <- One
    Detached = {s1}
    Expiring = {t1}
    Refusable = {s2}
    StartupRefused = {}
    Canceller = {c1, c2}
    Target <- TargetOne
    CrashAt <- AnyPoint
    MaxCrashes = 2
    MaxBoots = 1
SPECIFICATION Spec
INVARIANTS LiveWorkIsLeased NoConflictOverlap RemovedNeverRuns ResultsComeLast
PROPERTY CancelledIsStopped
SYMMETRY CancelSymmetry
CHECK_DEADLOCK FALSE
