SPECIFICATION FairSpec
CONSTANTS
    Attempts = {a1, a2, a3}
    Files = {f1, f2, f3, f4}
    None = None
    Waits = {a1, a2}
    Timed = {a2}
    MaxRetries = 1
    Removable = {TRUE, FALSE}
    CanCrash = TRUE
CHECK_DEADLOCK FALSE
INVARIANTS
    FileInvariant
    ExclusiveUntilRemoved
    NoFileLeft
PROPERTIES
    AcquireReturns
