CONSTANTS
    r1 = r1
    r2 = r2
    reconcile = reconcile
    cancel = cancel
    Runner = {r1, r2}
    Reconciler = {reconcile}
    Canceller = {cancel}
    Waits = TRUE
    Faults = {}
    MaxFaults = 0
    Self = Self
    Refuse = Refuse
    None = None
SPECIFICATION Spec
SYMMETRY Symmetric
CHECK_DEADLOCK FALSE
INVARIANTS
    NeverForgotten
