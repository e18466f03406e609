CONSTANTS
  N = 2
  MaxCalls = 3
SPECIFICATION FairSpec
INVARIANTS BatchOutlivesReaders EachPartOnce CancelPostsNothing FailureIsFinal
PROPERTY EveryAskEnds
CHECK_DEADLOCK FALSE
