CONSTANTS
  p1 = p1
  p2 = p2
  u1 = u1
  u2 = u2
  Pools = {p1, p2}
  Users = {u1, u2}
  Kinds = {"swap01", "swap10"}
  Window = 2
  Day = 1
  MaxPageSize = 2
  DefaultPageSize = 1
  MaxLog = 2
  MaxTime = 3
  MaxCrashes = 2
  MaxFaults = 1
SPECIFICATION Spec
SYMMETRY Interchangeable
INVARIANTS TypeOK TxCountMatchesRows ReservesFollowEvents FailuresStayLocal MyPoolsFound WeeksAddUp StatsConsistent PagesReachTotal
CHECK_DEADLOCK FALSE
