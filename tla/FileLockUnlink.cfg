SPECIFICATION Spec
CONSTANTS
    Attempts = {a1, a2, a3}
    Files = {f1, f2, f3, f4}
    None = None
    Waits = {a1, a2}
    Timed = {a2}
    MaxRetries = 0
    Removable = {TRUE}
    CanCrash = FALSE
CHECK_DEADLOCK FALSE
INVARIANTS
    MutualExclusion
