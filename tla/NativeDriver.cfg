SPECIFICATION Spec
CONSTANTS
    BootPages = {"b1"}
    InitPages = {"i1", "i2"}
    BATCH = 1
    ATTEMPTS = 2
    InitialFrame = 9022
    MaxRefusals = 2
    RunRefusals = 1
    MaxLosses = 1
    Nodes = {"n1", "n2", "n3", "n4", "n5"}
    Addresses = {"a"}
    resource_limit = 2
    context_resource_limit = 1
    MaxProcs = 2
    MaxCleanups = 2
INVARIANTS CleanHandover DmaHeld PointersLive IdentityIsCurrent MtuSettled
 
CHECK_DEADLOCK FALSE
