SPECIFICATION Spec
CONSTANTS
  a = a
  b = b
  c = c
  None = None
  Worker = {1}
  Line = {a}
  Of <- TwoAndOne
  Known = {a}
  Price = {1, 2}
  Partial = {1}
  MaxId = 3
  Page = {1}
  EventCap = 3
INVARIANTS
  PaidOutOfTheApprovedGross
CHECK_DEADLOCK FALSE
