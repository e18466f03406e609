CONSTANTS
    SLOTS = 4
    DEPTH = 4
    TB_SEND_WR = 3
    TB_STAGE = 3
    TB_RECV_BATCH = 1
    SEQ = 4
    WIRE = 1
    Jobs <- MCJobs
    Tries <- MCTries
    Budget <- MCTwo
    Fences <- MCOne
    MaxLost = 1
    Impatient = {0}
SPECIFICATION Spec
INVARIANTS
    
    FenceMeansApplied
