SPECIFICATION Spec
CONSTANTS
  Worker = {w1}
  Record = {r1, r2}
  Settlement = {s1, s2}
  Entry = {e1, e2, e3, e4}
  Release = {x1}
  Quantity = {1, 2}
  Price = {1, 3}
  Cents = {3}
  Amount = {3}
  None = None
SYMMETRY Symmetry
INVARIANTS
  TypeOK
  CreditedOnce
  ClaimedWorkStands
  DevengoIsItsLines
  ReversalsCancelOnce
  PaidOutOfEarned
PROPERTIES
  VoidIsWhole
  TrailIsKept
CHECK_DEADLOCK FALSE
