CONSTANTS
  Workers = {w1, w2}
  Others = {}
  Poll = poll
  Main = main
  Coroutines = {c1, c2}
  Handlers = {h1, h2}
  Codes = {0}
  None = None
  MaxPosts = 2
SPECIFICATION FairSpec
INVARIANTS
  PoolSound
PROPERTIES
  PostedIsResumed
  StopTerminates
CHECK_DEADLOCK FALSE
