CONSTANTS
    r1 = r1
    r2 = r2
    reconcile = reconcile
    cancel = cancel
    Runner = {r1, r2}
    Reconciler = {reconcile}
    Canceller = {cancel}
    Waits = FALSE
    Faults = {"lost", "crash", "offline"}
    MaxFaults = 1
    Self = Self
    Refuse = Refuse
    None = None
SPECIFICATION Spec
SYMMETRY Symmetric
CHECK_DEADLOCK FALSE
INVARIANTS
    AtMostOneHost
    TicketTracked
PROPERTIES
    SettledOnce
