CONSTANTS
    SLOTS = 4
    DEPTH = 4
    TB_SEND_WR = 3
    TB_STAGE = 2
    TB_RECV_BATCH = 1
    SEQ = 2
    WIRE = 1
    Jobs <- MCWrites
    Tries <- MCNone
    Budget <- MCEach
    Fences <- MCEach
    MaxLost = 0
    Impatient = {}
SPECIFICATION FairSpec
INVARIANT
    FailsOnlyByTimeout
PROPERTY
    EveryCallReturns
