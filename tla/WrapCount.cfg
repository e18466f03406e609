\* Counts of 3 bits that wrap twice, with the largest distances they allow.
SPECIFICATION Spec
CONSTANTS
  HALF = 4
  AHEAD = 3
  BEHIND = 3
  MaxPosted = 18
INVARIANTS WidensExactly ComparesExactly
CHECK_DEADLOCK FALSE
