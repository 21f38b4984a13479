SPECIFICATION Spec
CONSTANTS
    Servers = {1, 2, 3, 4, 5}
    Attempts = {a1, a2}
    LockIds = {a1, a2}
    NoId = NoId
    LockOf <- OwnLock
    Expiry = 2
    MinValidity = 1
    Cadence = 1
    Lag = 0
    Responsive = {1, 2, 4, 5}
    Prompt = TRUE
CONSTANT First = a1
CONSTRAINT FirstHolds
INVARIANTS
    MutualExclusion
