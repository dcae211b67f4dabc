\* The window is used up to its end and moves over more than its length; SDUs
\* close several gaps (crossed) and the timer skips more than half (jumped).
SPECIFICATION FairSpec
CONSTANTS
  WindowSize = 4
  MaxSdus    = 7
  Legs       = {1, 2}
INVARIANTS
  InOrderUnlessCrossed
  DeletedForAReason
  NoError
  NothingStuck
PROPERTIES
  EventuallyPassedUp
\* The system stops when every SDU has arrived, or with an exception.
CHECK_DEADLOCK FALSE
