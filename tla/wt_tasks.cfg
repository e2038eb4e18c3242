SPECIFICATION FairSpec
CONSTANTS
    a1 = a1
    a2 = a2
    a3 = a3
    Tasks = {a1, a2, a3}
    Timed = {a1, a2}
    Shutdown = Shutdown
    NoTask = NoTask
    Users = {"user"}
    NoUser = NoUser
    Delays = {0, 3}
    MAX_FUTURE_DELTA_MS = 2
    MaxDrift = 1
INVARIANTS
    CancelledStaysIdle
    SleepEndsInTime
    NotEarly
    JoinRunsDueTasks
PROPERTIES
    CallsReturn
    Dispatches
CHECK_DEADLOCK FALSE
