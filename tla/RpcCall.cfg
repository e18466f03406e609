CONSTANTS
  Oversize = {2}
  MaxCalls = 3
  MaxLinks = 2
  MaxFaults = 2
SPECIFICATION FairSpec
INVARIANTS RightReply SentOrTold
PROPERTY AnsweredOrTold
CHECK_DEADLOCK FALSE
