\* Light load, timely channel, fair timers and deliveries.
SPECIFICATION FairSpec
CONSTANTS
  TxWindowSize = 4
  RxWindowSize = 4
  MaxRtx = 1
  SduSizes = {1,2}
  MaxSdus = 2
  MaxLoad = 2
  MaxLoss = 2
  MaxMrw = 8
  MaxReports = 1
  MaxInFlight = 0
PROPERTIES
  EventuallySettled
\* The simulation ends when every SDU is settled or an exception is thrown.
CHECK_DEADLOCK FALSE
