SPECIFICATION Spec
CONSTANTS
  p = p
  q = q
  s = s
  t = t
  None = None
  Worker = {p, q, s, t}
  LastDay = 3
  Slot = {1, 2}
  MaxRow = 4
  Agenda <- Scenes
INVARIANTS
  TypeOK
  OneTeamADay
PROPERTIES
  HistoryStands
CHECK_DEADLOCK FALSE
