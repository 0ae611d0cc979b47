SPECIFICATION CheckSpec
CONSTANTS
  Obj = {0, 1, 2, 3, 4, 5, 6}
  NOTHING = NOTHING
  HOME = HOME
  DefaultHome = 0
  Abode = {1}
  Owner <- MCOwner
  Sticky = {}
  Key = {}
  Hearers = {}
  Actors = {6}
  Start <- MCStart
  MaxHooked = 0
  StackLimit = 30
  MaxGood = 3
INVARIANT RepairInv
PROPERTIES CheckPutsInOrder CheckEnds
