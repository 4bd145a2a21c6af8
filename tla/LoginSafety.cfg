CONSTANTS
  r1 = r1
  r2 = r2
  w1 = w1
  w2 = w2
  Wallets = {w1, w2}
  Requests = {r1, r2}
  Addresses <- Spelled
  NonceTTL = 2
  JwtTTL = 1
  MaxPageSize = 2
  DefaultPageSize = 1
  BoundTasks = {2}
  Listed = {w1}
  MaxTime = 2
  MaxNonces = 2
  MaxTasks = 2
  MaxFaults = 1
  MaxCrashes = 1
SPECIFICATION Spec
SYMMETRY Interchangeable
INVARIANTS TypeOK SessionsBacked NonceServes CallerServed
PROPERTIES SpentNonceRefused StatusKept
CHECK_DEADLOCK FALSE
