SPECIFICATION Spec
CONSTANTS
    None = None
    Kinds = {"mlab", "direct"}
    MaxCandidates = 2
    MaxAddresses = 2
    UploadDuration = 1
    CloseTimeout = 2
    Delays = {1}
    Counters = {1, 2}
INVARIANTS ResultsRetained UploadBounded OutcomeSound LimitRetained
PROPERTIES ContactAllowed
CHECK_DEADLOCK FALSE
