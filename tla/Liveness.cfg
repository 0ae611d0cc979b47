\* The main loop keeps going: nothing switches dequeueing off, nests a kick or
\* puts a wait off.
SPECIFICATION FairSpec
\* The objects.
CONSTANTS
  alice = alice
  bob = bob
  box = box
  Semaphore = Semaphore
  Nothing = Nothing
  Players <- MCPlayers
  Things <- MCThings
  Sems <- MCSems
  FreeOwners = {}
  Funds <- Three
\* The parameters of the server.
CONSTANTS
  MaxPid = 2
  QueueMax <- Three
  WaitCost = 1
  MachineCost = FALSE
  NestLim = 0
  IntMax = 11
  StartTime = 10
\* What is done to the queue.
CONSTANTS
  Issuers <- AliceAndBox
  Delays = {0, 1}
  Timeouts = {0, 1}
  NotifyCounts = {1}
  HaltTargets = {}
  Adjustments = {}
  Chunks = {1}
  Kicks = {}
  Warps = {}
  Chowns = {}
  ChownAlls = {}
  Ops = {}
\* Bounds.
CONSTANTS
  SemBound = 2
  DebtBound = 2
PROPERTIES RunQueueIsFifo EveryCommandLeaves EveryWaitEnds
