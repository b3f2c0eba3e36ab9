SPECIFICATION Spec
CONSTANTS
    None = None
    Interfaces = {i1, i2}
    DayLen = 4
    Horizon = 5
    Mlab = TRUE
    HardCap = 2
    MAX_RATE_LIMIT_ATTEMPTS = 3
    RunPolicies <- MCRun
    OncePolicies <- MCNone
    PendingTtl = 2
    CooldownInitial = 1
    CooldownMax = 1
    RetryAfters = {0, 3}
    MaxCrashes = 0
    MaxRollbacks = 1
SYMMETRY Symmetry
INVARIANTS DiscoveriesBoundedUndisturbed
PROPERTIES ObservedClockMonotone SpacingHonoured
CHECK_DEADLOCK FALSE
