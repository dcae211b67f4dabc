\* The direct bearer of a D2D pair and a multicast bearer.
SPECIFICATION Spec
CONSTANTS
  Bearers = {"direct", "multicast"}
  RxWindowSize = 2
  QueueSize = 11
  SduSizes = {1, 5}
  Requests = {4, 6}
  MaxSdus = 3
  MaxPdus = 5
  MaxInFlight = 3
  MaxSwitches = 1
INVARIANTS
  InOrder
  PassedUpWhenComplete
  NoError
PROPERTIES
  BufferEmpties
\* The bounds on SDUs and PDUs end every behaviour.
CHECK_DEADLOCK FALSE
