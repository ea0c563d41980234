SPECIFICATION Spec
CONSTANTS
  ana = ana
  beto = beto
  w = w
  m = m
  Committed = Committed
  Plain = {w}
  Money = {m}
  Account = {ana, beto}
  Device = {1, 2}
  Farm <- ThereAndBackAgain
  Tx = {t1}
  MaxSeq = 4
  PageSize = 5
INVARIANTS
  EveryBookIsComplete
CHECK_DEADLOCK FALSE
