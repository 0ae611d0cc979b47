SPECIFICATION Spec
CONSTANTS
  N = 5
  God = 1
  Price <- MCPrice
  Quota <- MCQuota
  LinkCost = 1
  CreateMin = 2
  CreateMax = 4
  SacFactor = 2
  SacAdjust <- MCSacAdjust
  CopyCost = FALSE
  PayStart = 1
  StartQuota = 2
  PayLimit = 3
  Paycheck = 2
  Costs = {0, 4}
  Amounts <- MCAmounts
  QuotaValues = {2}
  MaxCoins = 6
  MaxQuota = 4
  MaxOverdraft = 2
  Coders = {4}
  MaxDrift = 1
  Values = {"x", "y"}
  Variables = {"t", "u", "v", "w"}
  Structures = {"s", "t"}
  Components <- MCComponents
  Instances <- MCInstances
  StackLim = 2
  VarLim = 3
  StructLim = 1
  InstLim = 1
  Lists <- MCLists
  Games <- MCGames
PROPERTIES BooksKept MemoryKept
CHECK_DEADLOCK FALSE
