\* Half of the window is used, so that the timer's shift is exact: only the shift
\* of handlePdcpSdu is not.
SPECIFICATION Spec
CONSTANTS
  WindowSize = 8
  MaxSdus    = 4
  Legs       = {1, 2}
INVARIANTS
  InOrder
\* The system stops when every SDU has arrived.
CHECK_DEADLOCK FALSE
