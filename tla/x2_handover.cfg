\* Three cells, so that a UE leaves, returns and moves on.
SPECIFICATION Spec
CONSTANTS
  Cells = {a, b, c}
  None = None
  MaxDl = 3
  MaxUl = 2
  MaxHandovers = 3
INVARIANTS
  InOrder
  NothingLeftBehind
  HandoverStateEnds
\* The traffic ends and the UE stands still.
CHECK_DEADLOCK FALSE
