SPECIFICATION FairSpec
CONSTANTS
    None = None
    Interfaces = {i1}
    DayLen = 6
    Horizon = 7
    Mlab = TRUE
    HardCap = 2
    MAX_RATE_LIMIT_ATTEMPTS = 3
    RunPolicies <- MCRunChanging
    OncePolicies <- MCNone
    PendingTtl = 1
    CooldownInitial = 1
    CooldownMax = 1
    RetryAfters = {}
    MaxCrashes = 0
    MaxRollbacks = 0
INVARIANTS PlanSound
PROPERTIES DueSlotsConsumed OverdueTriggerDropped
CHECK_DEADLOCK FALSE
