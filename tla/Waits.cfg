\* Timed waits of one player's thing, re-timed and warped, commands that kick the
\* queue from inside, @halt/pid of any entry, and the thing halted or destroyed.
\* A coin of machinecost may fall due, and the limit, the purse and the PID table
\* all run out.  Once an operation on one PID has broken a list nothing follows.
SPECIFICATION Spec
\* The objects.
CONSTANTS
  alice = alice
  bob = bob
  box = box
  Semaphore = Semaphore
  Nothing = Nothing
  Players <- MCPlayers
  Things <- MCThings
  Sems <- MCSems
  FreeOwners = {}
  Funds <- Three
\* The parameters of the server.
CONSTANTS
  MaxPid = 3
  QueueMax <- Three
  WaitCost = 1
  MachineCost = TRUE
  NestLim = 2
  IntMax = 12
  StartTime = 10
\* What is done to the queue.
CONSTANTS
  Issuers <- JustBox
  Delays = {0, 1, 2}
  Timeouts = {}
  NotifyCounts = {}
  HaltTargets <- HaltAlice
  Adjustments <- AnyTime
  Chunks = {2}
  Kicks = {1}
  Warps = {1}
  Chowns = {}
  ChownAlls = {}
  Ops = {"haltpid", "destroy", "sethalt"}
\* Bounds.
CONSTANTS
  SemBound = 2
  DebtBound = 2
INVARIANTS Registered RunningIsHead WaitSorted
PROPERTIES OnlyPidOpsBreak DispatchWakesAllDue ImplementsLedger
CHECK_DEADLOCK FALSE
