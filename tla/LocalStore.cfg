SPECIFICATION StoreSpec
CONSTANTS
  t1 = t1
  t2 = t2
  t3 = t3
  c1 = c1
  c2 = c2
  r1 = r1
  r2 = r2
  Tasks = {t1, t2}
  Changes = {c1}
  Rows = {r1, r2}
  NumPages = 3
  MaxRounds = 1
  CommitMayFail = FALSE
  NoChange = NoChange
SYMMETRY AllAlike
INVARIANTS
  CaptureIsAtomic
  CheckpointNotAhead
  LostOnlyByRollback
