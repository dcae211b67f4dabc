\* Two masters with a secondary node each, and a standalone cell.
SPECIFICATION Spec
CONSTANTS
  LteCells = {"M1", "M2"}
  NrCells = {"S1", "S2", "G"}
  None = None
  Master <- Topology
  Rssi <- Levels
  MinRssi = 10
  HysteresisFactor = 10
  Delta = 1
  DetachmentTime = 3
  AttachmentTime = 3
  MaxTurns = 3
INVARIANTS
  SecondaryUnderMaster
  HandoverStateEndsUnlessForced
\* The simulation ends with the last turn.
CHECK_DEADLOCK FALSE
