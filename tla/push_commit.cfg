SPECIFICATION PushSpec
CONSTANTS
  ana = ana
  beto = beto
  juan = juan
  luz = luz
  r1 = r1
  r2 = r2
  m1 = m1
  o1 = o1
  o2 = o2
  o3 = o3
  o4 = o4
  None = None
  Handset = {ana, beto}
  RoleOf <- AnaAdministers
  Worker = {juan, luz}
  Known = {juan}
  Weighing = {r1, r2}
  Movement = {m1}
  OpId = {o1, o2, o3, o4}
  Value = {1, 2}
  Scene <- Season
INVARIANT
  EveryAnswerStands
CHECK_DEADLOCK FALSE
