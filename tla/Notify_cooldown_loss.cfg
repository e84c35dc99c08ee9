SPECIFICATION Spec
CONSTANTS
  Deliverers = {path, health}
  Keys = {k1}
  NoKey = NoKey
  NoOne = NoOne
  Severities = {"urgent"}
  MaxMsgs = 2
  MaxSlips = 0
  Outages = TRUE
  Flushing = FALSE
INVARIANT SuppressedWasTold
CHECK_DEADLOCK FALSE

