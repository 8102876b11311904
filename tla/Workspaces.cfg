SPECIFICATION Spec
CONSTANTS
  o = o
  a = a
  b = b
  r1 = r1
  r2 = r2
  NoUser = NoUser
  Removed = Removed
  Users = {o, a, b}
  Records = {x}
  Requests = {r1, r2}
  FirstMembers <- MCFirstMembers
  MaxStarts = 3
  MaxFaults = 1
SYMMETRY RequestsAlike
CHECK_DEADLOCK FALSE
INVARIANTS
  NoTraceOfTheDeleted
  OwnedAndDistinct
PROPERTIES
  SharedSurvives
  RoleGoesToItsMember
  ReturnsOnlyByNewInvite
