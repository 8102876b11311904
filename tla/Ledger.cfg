SPECIFICATION Spec
CONSTANTS
  a1 = a1
  a2 = a2
  t1 = t1
  t2 = t2
  r1 = r1
  r2 = r2
  Accounts = {a1, a2}
  Txs = {t1, t2}
  Requests = {r1, r2}
  Amounts = {1, 2}
  NoTx = NoTx
  MaxStarts = 3
  Entered <- MCEntered
  Books <- MCBooks
SYMMETRY Alike
INVARIANTS
  DriftHasCause
PROPERTIES
  DeletedStaysDeleted
CHECK_DEADLOCK FALSE
