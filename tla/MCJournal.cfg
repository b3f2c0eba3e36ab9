SPECIFICATION Spec
CONSTANTS
    None = None
    BatchSizes <- ThreeBatches
    max_bytes = 3
    MaxSegments = 4
    MaxDay = 1
    MaxKills = 1
    MaxPowerLosses = 1
    MaxStepBacks = 1
INVARIANTS FilesSound AckedKept OpensAgain RotationBounded
PROPERTIES ClosedSegmentsKept
CHECK_DEADLOCK FALSE
