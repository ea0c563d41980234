SPECIFICATION FairSpec
CONSTANTS
  ana = ana
  beto = beto
  w = w
  m = m
  Committed = Committed
  Plain = {w}
  Money = {m}
  Account = {ana, beto}
  Device = {1, 2}
  Farm <- Farms
  Tx = {t1, t2}
  MaxSeq = 3
  PageSize = 1
INVARIANTS
  TypeOK
  ResumableIsComplete
  ResumableHoldsNoMoney
PROPERTIES
  Converges
CHECK_DEADLOCK FALSE
