SPECIFICATION FairSpec
CONSTANTS
    None = None
    Targets = 1
    RttTrigger = TRUE
    window_rounds = 5
    min_samples = 3
    loss_threshold_pct = 50
    recovery_loss_pct = 10
    recovery_rounds = 2
    MaxStarts = 2
    MaxDays = 2
INVARIANTS TypeOK OneRequestPerEpisode RearmedInProcess
PROPERTIES RecoveryEarned QuietEndsEpisodes
CHECK_DEADLOCK FALSE
