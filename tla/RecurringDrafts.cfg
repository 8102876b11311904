SPECIFICATION FairSpec
CONSTANTS
  q1 = q1
  q2 = q2
  r1 = r1
  r2 = r2
  Rules = {q1, q2}
  Requests = {r1, r2}
  Lengths <- Months
  Intervals <- Offered
  FirstRule <- First
  MaxCatchup = 1
  Horizon = 1
  MaxEvents = 1
  MaxOverlaps = 1
INVARIANTS
  OneDraftPerDate
  RemadeHasCause
PROPERTIES
  NoDueDateIsSkipped
  DueIsServed
CHECK_DEADLOCK FALSE
