CONSTANTS
    MaxSessions = 2
    MaxAnswers = 2
    MaxFaults = 1
    MaxCopies = 1
    MaxUnderWay = 3
SPECIFICATION FairSpec
INVARIANTS
    AnsweredFromRts
    
PROPERTIES
    ConnectNotices
    ListenNotices
