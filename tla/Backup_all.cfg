SPECIFICATION Spec
CONSTANTS
  Old = 19
  BatchLimit = 2
  MaxCuts = 2
INVARIANT OneAtATime
INVARIANT GapIsTold
INVARIANT ReceiptIsHonest
