SPECIFICATION FairSpec
CONSTANTS
  Rows <- TwoRows
  Optional = {"owner-account"}
  Modes = {"reboot", "no-reboot", "skip"}
  None = None
  MaxRuns = 2
  MaxBoots = 2
  MaxDrifts = 0
  MaxHand = 1
PROPERTY AlwaysReports
CHECK_DEADLOCK FALSE
