SPECIFICATION Spec
CONSTANTS
    Servers = {1, 2}
    Attempts = {a1}
    LockIds = {a1}
    NoId = NoId
    LockOf <- OwnLock
    Expiry = 3
    MinValidity = 2
    Cadence = 2
    Lag = 0
    Responsive = {1, 2}
    Prompt = TRUE
INVARIANTS
    HeldIsKept
