SPECIFICATION Spec
CONSTANTS
    System = {s1}
    Token = {t1, t2, t3}
    Blob = {b1, b2, b3}
    s1 = s1
    t1 = t1
    t2 = t2
    t3 = t3
    b1 = b1
    b2 = b2
    b3 = b3
    Call = {c1, c2}
    MaxAttempts = 2
    Index = {1, 2, 3}
    NotFound = NotFound
    Batches <- MCBatches
    Queries <- MCQueries
INVARIANTS
    StoreTypeOK
    AcknowledgedWritesPersist
    EntriesComeFromBatches
PROPERTIES
    ReadsSeeAcknowledgedWrites
    EveryCallReturns
CHECK_DEADLOCK FALSE
