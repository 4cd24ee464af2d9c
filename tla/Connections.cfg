SPECIFICATION SpecBoth
CONSTANTS
  Waiters = {w1, w2}
  Addresses = {a, b}
  Name = name
  None = none
  MaxChanges = 1
  Calls = {c1, c2}
  MaxConnections = 2
  iHeldCount = 1
INVARIANTS
  WaitSound
  RouteSound
PROPERTIES
  WaiterResumed
  HeldIsEnded
CHECK_DEADLOCK FALSE
