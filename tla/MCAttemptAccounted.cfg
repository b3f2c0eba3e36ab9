SPECIFICATION Spec
CONSTANTS
    None = None
    Kinds = {"mlab", "direct"}
    MaxCandidates = 1
    MaxAddresses = 2
    UploadDuration = 2
    CloseTimeout = 1
    Delays = {1}
    Counters = {1, 2}
INVARIANTS UploadsAccounted
CHECK_DEADLOCK FALSE
