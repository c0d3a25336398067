SPECIFICATION SelectionSpec
CONSTANTS
    a = a
    b = b
    c = c
    d = d
    None = None
    Ticket = {a, b, c, d}
    Key <- Keys
    Workloads <- AllWorkloads
    Samples <- AllSamples
    Quiet <- Calm
    Capacity = 4
    Budget = 40
    MemBudget = 3
    SettledFloor = 5
    YieldShare = 2
    NiceMin = 1
    LaneNice = 10
    TierNice <- TierNices
    SkipLimit = 1
    ResLimit = 1
    Grace = 1
    AgeMax = 1
    TierWeight = 2
    AgeWeight = 2
    ExpressWait = 0
    PerMinute = 1
    IdleOvershoot = 10
    FloorOvershoot = 20
    BypassCap = 1
    SimTickets = 2
    SimCores = 30
    SimMem = 2
    TestReserve = 10
    MaxHigh = 1
    Arrival <- InOrder
    Retiers <- SomeRetiers
    Cancellable = {c}
    Killable = {b}
    MaxTicks = 1
INVARIANTS
    ReservationsConsistent
    AllowancesHold
    BookingsHold
    QueueRulesHold
    DrainedHostStartsSomeone
CHECK_DEADLOCK FALSE
