SPECIFICATION FairSpec
CONSTANTS
    t1 = t1
    t2 = t2
    t3 = t3
    l1 = l1
    l2 = l2
    Threads = {t1, t2}
    Loggers = {l1}
    NoThread = NoThread
PROPERTIES
    TeardownCompletes
CHECK_DEADLOCK FALSE
