\* A deposit of two coins, three PIDs, and limits of two and one.
SPECIFICATION Spec
CONSTANTS
  alice = alice
  bob = bob
  Players <- MCPlayers
  Pids = {1, 2, 3}
  Cost = 2
  Fees = {2, 3}
  Limit <- MCLimit
  Funds <- MCFunds
INVARIANTS TypeOK QuotaHolds DepositsCovered
