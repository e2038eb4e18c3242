SPECIFICATION FairSpec
CONSTANTS
    r1 = r1
    r2 = r2
    t1 = t1
    t2 = t2
    c1 = c1
    c2 = c2
    c3 = c3
    Records = {r1, r2}
    Tenant <- MCTenant
    Oversized = {r1}
    Uploads = {c1}
    NoUpload = NoUpload
    NoRecord = NoRecord
    MemoryLimit = 0
    MaxRetryCount = 1
    MaxExpired = 0
    Applications <- Flushing
INVARIANTS
    AtMostOneCopy
    NoRecordLost
    ShutdownSavesAll
    PendingFlushHasTask
PROPERTIES
    ShutdownCompletes
