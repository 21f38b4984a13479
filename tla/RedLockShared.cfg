SPECIFICATION Spec
CONSTANTS
    Servers = {1}
    Attempts = {a1, a2}
    LockIds = {l1}
    NoId = NoId
    LockOf <- OneLock
    Expiry = 2
    MinValidity = 1
    Cadence = 1
    Lag = 0
    Responsive = {}
    Prompt = FALSE
INVARIANTS
    MutualExclusion
