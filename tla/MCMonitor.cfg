SPECIFICATION FairSpec
CONSTANTS
    None = None
    e1 = e1
    e2 = e2
    Order <- TwoInterfaces
    Foreign = foreign
    MaxStep = 2
    MaxDelay = 3
    MaxOffers = 4
INVARIANTS TypeOK
PROPERTIES PlannedWithinOne EveryInterfaceTried ShutdownDrains
CHECK_DEADLOCK FALSE
