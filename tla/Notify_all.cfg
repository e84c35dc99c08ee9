SPECIFICATION FairSpec
CONSTANTS
  Deliverers = {path, health}
  Keys = {k1}
  NoKey = NoKey
  NoOne = NoOne
  Severities = {"urgent", "info", "invalid"}
  MaxMsgs = 2
  MaxSlips = 1
  Outages = TRUE
  Flushing = TRUE
INVARIANT NothingUrgentLost
INVARIANT OrderPreserved
INVARIANT RepeatsOnlyBySlip
INVARIANT OncePerCooldown
PROPERTY Drained
CHECK_DEADLOCK FALSE
