SPECIFICATION Spec
CONSTANTS
  a = a
  b = b
  f = f
  g = g
  None = None
  Refused = Refused
  Lost = Lost
  Weighing = {a, b}
  Farm = {f, g}
  Home <- AllOnF
  Barred = {a}
  Tab = {1, 2}
  Scene <- Scenes
  MaxToken = 2
INVARIANTS
  TypeOK
  NothingLost
PROPERTIES
  ThrownOutForCause
  GoesUp
CHECK_DEADLOCK FALSE
