SPECIFICATION Spec
CONSTANTS
  a = a
  b = b
  c = c
  None = None
  Worker = {1, 2}
  Line = {a, b, c}
  Of <- TwoAndOne
  Known = {a, c}
  Price = {1, 2}
  Partial = {1}
  MaxId = 4
  Page = {None, 1}
  EventCap = 2
INVARIANTS
  TypeOK
  ReportNamesTheWrite
  ApprovalsHold
  WorkSettledOnce
  PaymentsGoFirst
PROPERTIES
  UndoIsWhole
CHECK_DEADLOCK FALSE
