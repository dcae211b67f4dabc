\* Two device applications ask for the same application, which is not shared.
SPECIFICATION Spec
CONSTANTS
  d1 = d1
  d2 = d2
  d3 = d3
  a = a
  b = b
  DeviceApps = {d1, d2}
  Hosts = {1}
  AppDIds = {a, b}
  Wants <- MCSameApp
  Cost <- MCCost
  Emulated = {}
  MaxMecApps = 2
  Capacity = 4
  MecHostBased = {}
  Logging = FALSE
  MaxStarts = 2
INVARIANTS
  OwnInstance
\* The system stops when every UE application has stopped or given up.
CHECK_DEADLOCK FALSE
