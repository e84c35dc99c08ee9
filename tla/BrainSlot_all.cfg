SPECIFICATION Spec
CONSTANTS
  Services <- AB
  Manifests <- Shipped
  None = None
  Rams = {3750, 32768}
  Ci = {TRUE}
  MaxApplies = 3
  MaxFails = 1
INVARIANT InForce
INVARIANT NoStrays
INVARIANT BudgetHolds
CHECK_DEADLOCK FALSE
