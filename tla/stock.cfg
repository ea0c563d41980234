SPECIFICATION Spec
CONSTANTS
  a = a
  b = b
  None = None
  Shelf = {1}
  Qty <- Typed
  Opening = 2
  Screen = {a, b}
  Slot = {1, 2, 3}
  MaxId = 5
  Budget <- Scenes
INVARIANTS
  TypeOK
  LevelIsWhatStands
  SalesAgree
  WrittenOnce
PROPERTIES
  GuardHolds
  Answered
CHECK_DEADLOCK FALSE
