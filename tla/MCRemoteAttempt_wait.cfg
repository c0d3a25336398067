CONSTANTS
    r1 = r1
    r2 = r2
    reconcile = reconcile
    cancel = cancel
    Runner = {r1, r2}
    Reconciler = {reconcile}
    Canceller = {}
    Waits = TRUE
    Faults = {"exec", "supervisor", "shutdown", "reboot", "bound"}
    MaxFaults = 2
    Self = Self
    Refuse = Refuse
    None = None
SPECIFICATION Spec
SYMMETRY Symmetric
CHECK_DEADLOCK FALSE
INVARIANTS
    AtMostOneHost
    DispatchesTracked
    RecordsProve
PROPERTIES
    DeadStaysDead
