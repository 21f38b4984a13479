SPECIFICATION FairSpec
CONSTANTS
    Servers = {1}
    Attempts = {a1, a2}
    LockIds = {a1, a2}
    NoId = NoId
    LockOf <- OwnLock
    Expiry = 3
    MinValidity = 2
    Cadence = 2
    Lag = 1
    Responsive = {}
    Prompt = FALSE
PROPERTIES
    MinValidityOnGrant
    ImplementsLeaseLock
    AcquireReturns
    LeftKeysExpire
