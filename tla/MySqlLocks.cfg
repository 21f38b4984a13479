SPECIFICATION FairSpec
CONSTANTS
    Sessions = {s1, s2, s3}
    None = None
    Lockers = {a1, a2, a3}
    Trying = {a3}
    Timed = {a2}
    Kept = {a1}
    Readers = {r1, r2}
    Writers = {w1, w2}
    Patient = {r1}
    RwTimed = {r1}
    MaxCalls = 3
    FirstWriter = w1
CONSTRAINTS
    FewCalls
    WritersInOrder
CHECK_DEADLOCK FALSE
INVARIANTS
    PoolInvariant
    ExclusiveUnlessOverlap
    DepthAccountedFor
PROPERTIES
    ImplementsSessionLock
    LossIsTold
    WaitsForSomebody
