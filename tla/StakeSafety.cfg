CONSTANTS
  r1 = r1
  r2 = r2
  r3 = r3
  d1 = d1
  w1 = w1
  w2 = w2
  t1 = t1
  t2 = t2
  Requests = {r1, r2, r3}
  Directs = {d1}
  Wallets = {w1}
  Tokens = {t1}
  Amounts = {1}
  Prices = {1, 2}
  MaxCrashes = 1
  MaxFaults = 1
SPECIFICATION Spec
SYMMETRY Interchangeable
INVARIANTS TypeOK DepositsBacked NoNonceGap TotalsMatchRecords
CHECK_DEADLOCK FALSE
