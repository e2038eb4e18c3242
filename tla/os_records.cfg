SPECIFICATION Spec
CONSTANTS
    r1 = r1
    r2 = r2
    t1 = t1
    t2 = t2
    c1 = c1
    c2 = c2
    c3 = c3
    Records = {r1, r2}
    Tenant <- MCTenant
    Oversized = {}
    Uploads = {c1, c2, c3}
    NoUpload = NoUpload
    NoRecord = NoRecord
    MemoryLimit = 0
    MaxRetryCount = 1
    MaxExpired = 1
    Applications <- DeletingOrTwoReaders
SYMMETRY Symm
INVARIANTS
    InFlightOncePerLease
    OneReaderSettles
    KilledIsGone
    NoRecordLost
    ShutdownSavesAll
