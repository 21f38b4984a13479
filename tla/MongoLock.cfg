SPECIFICATION FairSpec
CONSTANTS
    Attempts = {a1, a2, a3}
    None = None
    Waits = {a1, a2}
    Timed = {a1}
    Timeout = 1
    Expiry = 2
INVARIANTS
    MongoInvariant
    ExclusiveForOneExpiry
PROPERTIES
    ImplementsLeaseLock
    AcquireReturns
