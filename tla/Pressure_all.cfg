SPECIFICATION GuardFairSpec
CONSTANTS
  Slices <- TwoSlices
  BadCycles = 6
  GoodCycles = 2
  MaxFreeze = 60
  HoldAfter = 60
  Never = Never
  MaxSlips = 2
INVARIANT NeverFrozenForLong
INVARIANT HoldsOff
INVARIANT FrozenCanBeThawed
PROPERTY ThawsOnRecovery
