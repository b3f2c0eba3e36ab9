SPECIFICATION Spec
CONSTANTS
    None = None
    Interfaces = {i1}
    DayLen = 6
    Horizon = 7
    Mlab = TRUE
    HardCap = 3
    MAX_RATE_LIMIT_ATTEMPTS = 3
    RunPolicies <- MCRun
    OncePolicies <- MCOnceForced
    PendingTtl = 2
    CooldownInitial = 1
    CooldownMax = 2
    RetryAfters = {3}
    MaxCrashes = 1
    MaxRollbacks = 0
INVARIANTS TypeOK NoRefund HardCapRespected
PROPERTIES CapHonoured CooldownHonoured
CHECK_DEADLOCK FALSE
