SPECIFICATION Spec
CONSTANTS
  Players = {1, 2}
  God = 1
  Texts = {"hello", "bye"}
  Slots = {0, 1, 2, 3, 4, 5}
  Folders = {0, 1}
  Things = {3}
  Channels = {"Public", "Own"}
  Public = "Public"
  Names = {"pub", "own"}
  Budgets <- MCBudgets
  Addressees <- MCAddressees
PROPERTIES MailArrives
CHECK_DEADLOCK FALSE
