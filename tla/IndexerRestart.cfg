CONSTANTS
  stake1 = stake1
  stake2 = stake2
  pool1 = pool1
  claim1 = claim1
  total1 = total1
  admin1 = admin1
  other1 = other1
  Events = {stake1, pool1}
  Kind <- KindOf
  Confirmations = 2
  BatchSize = 2
  WordSize = 64
  InitHead = 2
  InitLastBlock = 0
  MaxHead = 6
  MaxReorgDepth = 1
  MaxReorgs = 0
  MaxCrashes = 1
  MaxDbFaults = 0
  MaxRpcFaults = 0
SPECIFICATION Spec
INVARIANTS ProcessedOnce
CHECK_DEADLOCK FALSE
