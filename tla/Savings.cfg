SPECIFICATION Spec
CONSTANTS
  r1 = r1
  r2 = r2
  Requests = {r1, r2}
  Targets = {2, 4}
  Amounts = {1, 2}
  Deposits = {1, 2}
  Funds = 2
  Month = 2
  Week = 2
  Plans <- MCPlans
  NoPlan = NoPlan
  MaxStarts = 3
  MaxFaults = 1
  MaxTime = 2
SYMMETRY RequestsAlike
CHECK_DEADLOCK FALSE
INVARIANTS
  HistoryAddsUp
  OneAutoPerPeriod
  MilestonesAreTold
  MetIsCompleted
  SaverAddsUp
