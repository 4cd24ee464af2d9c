CONSTANTS
  a = a
  b = b
  c = c
  d = d
  N = 5
  Tasks <- FourTasks
  TaskOf <- FirstTwice
  Jobs = {j1, j2, j3}
  Joiners = {p1, p2}
  None = None
  c1 = c1
  c2 = c2
  c3 = c3
SPECIFICATION SpecAll
INVARIANTS
  WhenAllSound
  ScopeSound
PROPERTIES
  ImplementsCompletion
  JoinReturns
  EveryoneGetsATurn
CHECK_DEADLOCK FALSE
