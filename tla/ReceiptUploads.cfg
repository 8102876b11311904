SPECIFICATION UploadsSpec
CONSTANTS
  f1 = f1
  f2 = f2
  r1 = r1
  r2 = r2
  Files = {f1, f2}
  Runs = {r1, r2}
  Cap = 1
  MaxFlushes = 2
  MaxMishaps = 2
SYMMETRY Alike
INVARIANTS
  ReuploadHasCause
  AttachedOnce
  UploadedIsAttached
  SendingHasARun
PROPERTIES
  QueuedBlobIsSpared
CHECK_DEADLOCK FALSE
