SPECIFICATION Spec
CONSTANTS
    t1 = t1
    t2 = t2
    t3 = t3
    l1 = l1
    l2 = l2
    Threads = {t1, t2, t3}
    Loggers = {l1, l2}
    NoThread = NoThread
SYMMETRY Symm
INVARIANTS
    ActiveCountIsExact
    CallsSeeLiveManager
    KnownLoggersExist
CHECK_DEADLOCK FALSE
