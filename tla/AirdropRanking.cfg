CONSTANTS
  a1 = a1
  a2 = a2
  u1 = u1
  u2 = u2
  Airdrops = {a1}
  Older = {a1}
  Users = {u1, u2}
  Amounts = {9, 10}
  BatchSize = 3
  MaxLog = 5
  MaxCrashes = 0
  MaxFaults = 0
SPECIFICATION Spec
INVARIANTS RankingBySum
CHECK_DEADLOCK FALSE
