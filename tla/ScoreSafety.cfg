CONSTANTS
  k1 = k1
  k2 = k2
  s1 = s1
  s2 = s2
  Keys = {k1, k2}
  Slots = {s1, s2}
  StampScale = 1
  MaxHours = 3
  MaxOps = 3
  MaxRecords = 4
  MaxCrashes = 3
  MaxFaults = 1
SPECIFICATION Spec
SYMMETRY Interchangeable
CONSTRAINT UpToOverlap
INVARIANTS TypeOK TotalsMatchRecords CountedPerReading NeverOvercredited OnlyLateSkipped
PROPERTIES ScoreMonotone
CHECK_DEADLOCK FALSE
