\* Heavy load, nothing lost.
SPECIFICATION Spec
CONSTANTS
  TxWindowSize = 4
  RxWindowSize = 4
  MaxRtx = 1
  SduSizes = {1}
  MaxSdus = 8
  MaxLoad = 4
  MaxLoss = 0
  MaxMrw = 4
  MaxReports = 1
  MaxInFlight = 0
INVARIANTS
  AckedPdusAreStored
\* The simulation ends when every SDU is settled or an exception is thrown.
CHECK_DEADLOCK FALSE
