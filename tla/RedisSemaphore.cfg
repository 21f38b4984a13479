SPECIFICATION FairSpec
CONSTANTS
    Attempts = {a1, a2, a3}
    Waits = {a1, a2}
    Timed = {a1}
    Timeout = 1
    MaxCount = 2
    Expiry = 2
INVARIANTS
    SemaphoreInvariant
    AtMostMaxCount
PROPERTIES
    RefusedOnlyWhenFull
    PurgedIsTold
    TimedAcquireReturns
