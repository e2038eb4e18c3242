SPECIFICATION Spec
CONSTANTS
    m1 = m1
    m2 = m2
    Metered = Metered
    Unmetered = Unmetered
    Charging = Charging
    AnyState = AnyState
    NULL = NULL
    NoManager = NoManager
    Names = {"REAL_TIME", "custom"}
    DEFAULT_PROFILE = "REAL_TIME"
    Defaults <- MCDefaults
    Lists <- MCLists
    MAX_TRANSMIT_PROFILES = 1
    MAX_TRANSMIT_RULES = 2
    NetworkCosts = {Metered, Unmetered}
    PowerSources = {Charging}
    NetworkCost_Unmetered = Unmetered
    PowerSource_Charging = Charging
    Apps = {"app"}
    Managers = {m1, m2}
    MaxCalls = 4
SYMMETRY Symm
INVARIANTS
    RuleFitsDevice
    ReadTimersAreCurrent
    StopEndsItsCallbacks
CHECK_DEADLOCK FALSE
