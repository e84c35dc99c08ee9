SPECIFICATION Spec
CONSTANTS
  OwnerContent = {o1, o2}
  KitContent = {k1, k2}
  None = None
  MaxActs = 3
  MaxInstalls = 4
  MaxKills = 2
  KillAt = {"create", "record", "backup", "enter", "replace", "note", "undo"}
INVARIANT Reversed
INVARIANT OriginalKept
INVARIANT NothingOfTheKitLeft
PROPERTY UninstallKeepsEdits
CHECK_DEADLOCK FALSE
SYMMETRY Symmetry
