SPECIFICATION Spec
CONSTANTS
  Obj = {0, 1, 2, 3, 4, 5}
  NOTHING = NOTHING
  HOME = HOME
  DefaultHome = 0
  Abode = {0, 1}
  Owner <- MCOwner
  Sticky = {1, 3}
  Key = {4}
  Hearers = {2}
  Start <- MCStart
  Actors = {2}
  MaxHooked = 1
INVARIANT MovementInv
PROPERTIES OnlyPutBackBreaks CommandsEnd
