SPECIFICATION Spec
CONSTANTS
    None = None
    MaxDay = 2
    MaxStarts = 2
    MaxClock = 1
    MaxKills = 3
    MaxPowerLosses = 2
    MaxRestores = 1
INVARIANTS ObservedClockKept FilesOpenAgain
PROPERTIES ImplementsDurableAccounting
CHECK_DEADLOCK FALSE
