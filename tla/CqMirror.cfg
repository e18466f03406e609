SPECIFICATION Spec
CONSTANTS
    QPs = {1, 2}
    SLOTS = 4
    ACK_BATCH = 2
    ACK_SAFETY = 3
    Modes = {TRUE, FALSE}
    Concurrent = FALSE
    MaxPosts = 4
    MaxResets = 1
INVARIANTS ReportedOnce NothingLost  
CHECK_DEADLOCK FALSE
