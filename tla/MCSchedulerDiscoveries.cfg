SPECIFICATION Spec
CONSTANTS
    None = None
    Interfaces = {i1}
    DayLen = 6
    Horizon = 8
    Mlab = TRUE
    HardCap = 2
    MAX_RATE_LIMIT_ATTEMPTS = 3
    RunPolicies <- MCRun
    OncePolicies <- MCOnceForced
    PendingTtl = 2
    CooldownInitial = 1
    CooldownMax = 2
    RetryAfters = {3}
    MaxCrashes = 0
    MaxRollbacks = 0
INVARIANTS DiscoveriesBounded
CHECK_DEADLOCK FALSE
