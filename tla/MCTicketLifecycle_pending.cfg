CONSTANTS
    s1 = s1 s2 = s2 s3 = s3 s4 = s4 t1 = t1 t2 = t2 t3 = t3 k1 = k1 k2 = k2 c1 = c1 c2 = c2
    None = None
    Sup = {s1}
    Ticket = {t1}
    Key = {k1, k2}
    TicketOf <- TicketOf3
    KeyOf <- KeyOf3
    Conflicts <- Conflicts12
    MaxConcurrent <- One
    Detached = {s1}
    Expiring = {}
    Refusable = {}
    StartupRefused = {}
    Canceller = {}
    Target <- TargetOne
    CrashAt <- AnyPoint
    MaxCrashes = 1
    MaxBoots = 0
SPECIFICATION Spec
INVARIANT DiedBeforeRegisterNeverStarted
CHECK_DEADLOCK FALSE
