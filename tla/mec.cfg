\* Three device applications, two hosts with two slots each and room for one
\* large or two small applications; nothing is onboarded at the start.
SPECIFICATION FairSpec
CONSTANTS
  d1 = d1
  d2 = d2
  d3 = d3
  a = a
  b = b
  DeviceApps = {d1, d2, d3}
  Hosts = {1, 2}
  AppDIds = {a, b}
  Wants <- MCWants
  Cost <- MCCost
  Emulated = {b}
  MaxMecApps = 2
  Capacity = 3
  MecHostBased = {}
  Logging = FALSE
  MaxStarts = 2
INVARIANTS
  ContextsAreApps
  ResourcesAccounted
  NoOrphans
PROPERTIES
  AllStopped
\* The system stops when every UE application has stopped or given up.
CHECK_DEADLOCK FALSE
