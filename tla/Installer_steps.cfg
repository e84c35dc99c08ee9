SPECIFICATION Spec
CONSTANTS
  Rows <- AllRows
  Optional = {}
  Modes = {"skip"}
  None = None
  MaxRuns = 2
  MaxBoots = 0
  MaxDrifts = 1
  MaxHand = 0
INVARIANT InOrder
INVARIANT PassedIsWhole
INVARIANT Supplied
CHECK_DEADLOCK FALSE
