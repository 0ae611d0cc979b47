SPECIFICATION Spec
CONSTANTS
  Sockets = {1, 2}
  Players = {1, 2, 3, 4}
  God = 1
  Guests <- MCGuests
  Announced = {2}
  Sites = {1}
  QuotaMax = 1
  RetryLimit = 2
  MaxPlayers = 1
  Timeout = 1
  Typed <- MCTyped
  Ordered <- MCOrdered
  Banned = {}
  Named = {1}
  Start <- MCStart
  MaxOpens = 1
  MaxTyped = 1
INVARIANT ConnectionsInv
PROPERTIES LinesAreTaken IdleLeave
