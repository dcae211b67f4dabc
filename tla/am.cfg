\* The sender's window is used up to its last position, the receiver's by half.
\* A PDU is lost, timers race with a PDU in flight.
SPECIFICATION Spec
CONSTANTS
  TxWindowSize = 3
  RxWindowSize = 4
  MaxRtx = 1
  SduSizes = {1,2}
  MaxSdus = 3
  MaxLoad = 3
  MaxLoss = 1
  MaxMrw = 2
  MaxReports = 1
  MaxInFlight = 1
INVARIANTS
  WindowsAligned
  AcksAreTrue
  MarksMatchBuffer
  CompleteSduPassedUp
  PassedUpOnceAndIntact
  TimersCoverUnresolved
  WindowNeverFull
  DiscardsWholeSdu
  MrwOrdered
  NoInternalError
PROPERTIES
  WindowMovesOverResolved
  ServiceSpec
\* The simulation ends when every SDU is settled or an exception is thrown.
CHECK_DEADLOCK FALSE
