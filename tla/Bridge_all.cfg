SPECIFICATION FairSpec
CONSTANTS
  Block = {a, b}
  Pushes = {p}
  Absent = Absent
  TailBlocks = 2
  MaxLen = 3
  MaxChanges = 2
  MaxCuts = 2
  Overlap = FALSE
INVARIANT DeliveredMeansSame
INVARIANT InboxIsBeginning
PROPERTY Arrives
CHECK_DEADLOCK FALSE
