SPECIFICATION FairSpec
CONSTANTS
  d1 = d1
  d2 = d2
  NumRuns = 2
  Runs <- MCRuns
  Recs = {d1}
  StampsRows = TRUE
  DeletesOnce = TRUE
  MayChoose = {"keep-mine", "keep-server"}
  MayDiscard = TRUE
  MayError = TRUE
  MayRefuse = TRUE
  Caps = {1, 2}
  MaxOps = 2
  MaxRemote = 1
  MaxFaults = 1
INVARIANTS
  NoChangeIsLost
  NothingSkippedAlone
PROPERTIES
  LandsInOrder
  QueueDrains
CHECK_DEADLOCK FALSE
