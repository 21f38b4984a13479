SPECIFICATION FairSpec
CONSTANTS
    Readers = {r1, r2}
    Writers = {w1, w2}
    Patient = {w1, w2}
    Expiry = 3
    Sleep = 2
    None = None
    Aborted = {r1}
INVARIANTS
    RwInvariant
    OverlapOnly
    OnlyAbortsLeaveNoTtl
PROPERTIES
    WriterGetsIn
    OverwrittenIsTold
