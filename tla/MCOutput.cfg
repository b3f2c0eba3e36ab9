SPECIFICATION FairSpec
CONSTANTS
    None = None
    RunIds = {r1, r2, r3, r4}
    MaxSequence = 7
    MaxBatch = 3
    MaxRows = 9
INVARIANTS NumberedWithoutGap Nested AgreesWithJournal
PROPERTIES ErrorEndsTree
CHECK_DEADLOCK FALSE
