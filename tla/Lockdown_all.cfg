SPECIFICATION FairSpec
CONSTANTS
  MaxNonce = 2
  MaxReboots = 2
  Faults = {"restore_raises", "commands_fail", "overlap"}
INVARIANT SafetyNet
INVARIANT KeptIsProved
INVARIANT RevertedIsBefore
INVARIANT FailedApplyChangedNothing
PROPERTY Resolves
PROPERTY ImplementsPromise
CHECK_DEADLOCK FALSE
