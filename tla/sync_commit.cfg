SPECIFICATION Spec
CONSTANTS
  ana = ana
  beto = beto
  w = w
  m = m
  Committed = Committed
  Plain = {w}
  Money = {m}
  Account = {ana, beto}
  Device = {1, 2}
  Farm <- CommitFails
  Tx = {t1}
  MaxSeq = 3
  PageSize = 2
INVARIANTS
  WeighersHoldNoMoney
CHECK_DEADLOCK FALSE
