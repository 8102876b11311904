SPECIFICATION Spec
CONSTANTS
  c = c
  c2 = c2
  u1 = u1
  u2 = u2
  x1 = x1
  x2 = x2
  rec = rec
  h1 = h1
  h2 = h2
  Docs = {rec}
  Ops = {u1, u2, x1}
  Handlers = {h1, h2}
  Kind <- MCKind
  Target <- MCTarget
  Family <- Transaction
  Batches <- Singles
  MaxClock = 2
SYMMETRY RequestsAndUpdatesAlike
INVARIANTS
  OneWinnerPerVersion
  AckedOpsAreDone
PROPERTIES
  ImplementsContract
  LandsPastItsBase
CONSTRAINT FollowsOne
