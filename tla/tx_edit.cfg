SPECIFICATION Spec
CONSTANTS
  s1 = s1
  s2 = s2
  e1 = e1
  e2 = e2
  e3 = e3
  e4 = e4
  None = None
  Id = {e1, e2, e3, e4}
  Settlement = {s1, s2}
  Record = {1, 2}
  Session = {1, 2, 3}
  Scene <- Edited
INVARIANTS
  ClaimedWorkStands
CHECK_DEADLOCK FALSE
