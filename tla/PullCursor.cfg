SPECIFICATION FairSpec
CONSTANTS
  Docs = {1, 2, 3, 4}
  NumEntities = 2
  EntityOf <- MCEntityOf
  SoftDeletes = {1}
  Limit = 2
  MaxClock = 2
  MaxWrites = 2
  MaxFaults = 1
INVARIANTS
  NothingBehind
PROPERTIES
  PullCatchesUp
  Converges
