SPECIFICATION Spec
CONSTANTS
  Runners = {timer, owner}
  Measured = {"disk"}
  Plain = {"unit", "device"}
  Reports <- ProbeReports
  MaxValue = 9
  Warn = 4
  Crit = 7
  Margin = 2
  Repeat = 2
  DigestGap = 1
  Nobody = Nobody
  Absent = Absent
  Crashed = Crashed
  MaxKills = 1
INVARIANT OwnerKnows
INVARIANT NotRepeated
INVARIANT HoveringIsQuiet
INVARIANT SavedWasSaid
SYMMETRY Symmetry
