SPECIFICATION PairFairSpec
CONSTANTS
  Home = Home
  Work = Work
  Devices = {Home, Work}
  None = None
  MaxAttempts = 2
  MaxSessions = 2
  MaxKeys = 2
  Conns <- Each
  MaxKills = 1
  ForgetOverlaps = FALSE
INVARIANT NoOrphanKeys
INVARIANT PairedCanLogin
INVARIANT ListMatchesKeys
PROPERTY SessionEnds
CHECK_DEADLOCK FALSE
