SPECIFICATION Spec
CONSTANTS
  ana = ana
  beto = beto
  w = w
  m = m
  Committed = Committed
  Plain = {w}
  Money = {m}
  Account = {ana, beto}
  Device = {1, 2}
  Farm <- TwoWriters
  Tx = {t1, t2}
  MaxSeq = 4
  PageSize = 5
INVARIANTS
  CursorNeverJumps
CHECK_DEADLOCK FALSE
