\* Semaphore waits with and without a timeout, released, drained, halted
\* and timed out in every order, while things change hands or are destroyed.
SPECIFICATION Spec
\* The objects.
CONSTANTS
  alice = alice
  bob = bob
  box = box
  Semaphore = Semaphore
  Nothing = Nothing
  Players <- MCPlayers
  Things <- MCThings
  Sems <- MCSems
  FreeOwners = {}
  Funds <- Two
\* The parameters of the server.
CONSTANTS
  MaxPid = 2
  QueueMax <- Two
  WaitCost = 1
  MachineCost = FALSE
  NestLim = 1
  IntMax = 11
  StartTime = 10
\* What is done to the queue.
CONSTANTS
  Issuers <- AliceAndBox
  Delays = {}
  Timeouts = {0, 1}
  NotifyCounts = {1}
  HaltTargets <- HaltBox
  Adjustments = {}
  Chunks = {1}
  Kicks = {}
  Warps = {}
  Chowns <- BoxToBob
  ChownAlls <- AliceToBob
  Ops = {"dequeue", "drain", "notifyall", "destroy", "interp"}
\* Bounds.
CONSTANTS
  SemBound = 2
  DebtBound = 2
INVARIANTS TypeOK PlacesAgree SemCoversWaiters NoCoinsMade NoneForGarbage
PROPERTIES SemIsFifo OnlyProcessedRemoved
