SPECIFICATION DepsSpec
CONSTANTS
    r1 = r1
    r2 = r2
    r3 = r3
    p = p
    q = q
    None = None
    Run = {r1, r2, r3}
    Package = {p, q}
    Path <- AllPaths
    Workloads <- AllWorkloads
    PathsOf <- Places
    MaxBytes = 1
    Flaky = {q}
    Killable = {r1}
    Unlucky = {r2}
    MaxDamage = 1
INVARIANTS
    TreesAreFresh
    EntriesAreComplete
    EvictionIsSafe
CHECK_DEADLOCK FALSE
