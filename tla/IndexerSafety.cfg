CONSTANTS
  stake1 = stake1
  stake2 = stake2
  pool1 = pool1
  claim1 = claim1
  total1 = total1
  admin1 = admin1
  other1 = other1
  Events = {stake1, pool1, claim1, other1}
  Kind <- KindOf
  Confirmations = 1
  BatchSize = 2
  WordSize = 64
  InitHead = 1
  InitLastBlock = 0
  MaxHead = 4
  MaxReorgDepth = 1
  MaxReorgs = 1
  MaxCrashes = 1
  MaxDbFaults = 1
  MaxRpcFaults = 1
SPECIFICATION FairSpec
INVARIANTS TypeOK NoLossSinceBoot NoPhantom TargetConfirmed DuplicatesBounded CursorBacked
PROPERTIES HeightMonotone ImplementsEventStore EventuallyStored CatchesUp
CHECK_DEADLOCK FALSE
