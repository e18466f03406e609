SPECIFICATION FairSpec
CONSTANTS
    Requests = {"r1", "r2"}
    Handoffs = {"x", "y"}
    TOKENS = 5
    PER_ROW = 2
    BLOCKS = 5
    Capacities = {0, 2}
    Froms = {1, 5}
    MaxPreempts = 1
    Chunks = {3, 5}
INVARIANTS PagesAreThePrompt 
PROPERTY FreedEventually
CHECK_DEADLOCK FALSE
