SPECIFICATION FairSpec
CONSTANTS
    a1 = a1
    a2 = a2
    a3 = a3
    Tasks = {a1, a2, a3}
    NoTask = NoTask
    MaxCalls = 3
INVARIANTS
    AtMostOneSend
    FlagHasTask
PROPERTIES
    CountedIsSent
    StopIsFinal
CHECK_DEADLOCK FALSE
