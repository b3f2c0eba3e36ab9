SPECIFICATION FairSpec
CONSTANTS
    None = None
    Capacity = 1
    Hidden <- OneHidden
    MaxRows = 4
INVARIANTS ExitTruthful ConsoleAccounted
PROPERTIES SignalEndsProcess
CHECK_DEADLOCK FALSE
