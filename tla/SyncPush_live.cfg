SPECIFICATION FairSpec
CONSTANTS
  c = c
  c2 = c2
  u1 = u1
  u2 = u2
  x1 = x1
  x2 = x2
  rec = rec
  h1 = h1
  h2 = h2
  Docs = {rec}
  Ops = {c, x1}
  Handlers = {h1, h2}
  Kind <- MCKind
  Target <- MCTarget
  Family <- Archive
  Batches <- WithPairs
  MaxClock = 2
PROPERTIES
  RequestsEnd
