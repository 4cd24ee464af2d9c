CONSTANTS
  Handles = {h1, h2, h3}
  First = h1
  Parents = {p1, p2, p3}
SPECIFICATION FairSpec
INVARIANTS
  TaskSound
PROPERTIES
  FrameDestroyed
  ImplementsCompletion
CHECK_DEADLOCK FALSE
