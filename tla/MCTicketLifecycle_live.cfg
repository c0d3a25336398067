CONSTANTS
    s1 = s1 s2 = s2 s3 = s3 s4 = s4 t1 = t1 t2 = t2 t3 = t3 k1 = k1 k2 = k2 c1 = c1 c2 = c2
    None = None
    Sup = {s1, s2, s3, s4}
    Ticket = {t1, t2}
    Key = {k1, k2}
    TicketOf <- TicketOfDup
    KeyOf <- KeySame
    Conflicts = {}
    MaxConcurrent <- One
    Detached = {}
    Expiring = {}
    Refusable = {}
    StartupRefused = {s4}
    Canceller = {}
    Target <- TargetOne
    CrashAt <- BeforeOrAfterSpawn
    MaxCrashes = 1
    MaxBoots = 0
SPECIFICATION FairSpec
INVARIANTS CeilingRespected DuplicatesAreSafe
PROPERTIES EveryQueuedTicketEnds RunsAgainOnlyIfKilled
CHECK_DEADLOCK FALSE
