SPECIFICATION FairSpec
CONSTANTS
    N = 2
    MaxA = 1
    MaxB = 2
    MaxFaults = 1
    MaxAstray = 1
    MaxUnderWay = 1
INVARIANT
    UpIsMutual
PROPERTIES
    LastOfferAnswered
    RestartNoticed
CHECK_DEADLOCK FALSE
