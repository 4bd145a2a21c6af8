CONSTANTS
  a1 = a1
  a2 = a2
  u1 = u1
  u2 = u2
  Airdrops = {a1, a2}
  Older = {a1}
  Users = {u1}
  Amounts = {1, 2}
  BatchSize = 2
  MaxLog = 4
  MaxCrashes = 1
  MaxFaults = 1
SPECIFICATION Spec
INVARIANTS TypeOK ClaimsBeforeTotals TablesCurrent PendingNeverOverstated
PROPERTIES WhitelistNeverGoesBack
CHECK_DEADLOCK FALSE
