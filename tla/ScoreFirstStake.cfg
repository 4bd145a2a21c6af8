CONSTANTS
  k1 = k1
  k2 = k2
  s1 = s1
  s2 = s2
  Keys = {k1}
  Slots = {s1}
  StampScale = 1
  MaxHours = 2
  MaxOps = 2
  MaxRecords = 3
  MaxCrashes = 1
  MaxFaults = 0
SPECIFICATION Spec
PROPERTIES AmountIsTotal
CHECK_DEADLOCK FALSE
