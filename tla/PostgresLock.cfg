SPECIFICATION FairSpec
CONSTANTS
    w1 = w1
    w2 = w2
    r1 = r1
    t1 = t1
    Sessions = {s1, s2}
    Attempts = {w1, w2, r1, t1}
    None = None
    Shared = {r1}
    Xact = {w2, t1}
    Trying = {t1}
    Timed = {w1, r1}
    Timeout <- SmallTimeouts
    Milli = 2
    CharBits = 2
    MaxLength = 3
    MaxCalls = 3
CONSTRAINT FewCalls
CHECK_DEADLOCK FALSE
INVARIANTS
    PostgresInvariant
    ExclusiveWhileConnected
    LocksAccountedFor
    AbortedAccountedFor
PROPERTIES
    ImplementsSessionLock
    TimedAcquireReturns
    WaitsForSomebody
