CONSTANTS
    m1 = m1
    m2 = m2
    t1 = t1
    Migrator = {m1, m2}
    Ticket = {t1}
    MaxKills = 1
    None = None
SPECIFICATION FairSpec
INVARIANTS NoTicketStranded EndedLeavesNothing
PROPERTIES CutoverIsDrained OperatorPauseStands IntakeReopens
CHECK_DEADLOCK FALSE
