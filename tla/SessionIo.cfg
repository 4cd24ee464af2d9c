SPECIFICATION FairSpec
CONSTANTS
  Senders = {s1, s2}
  Closers = {c1}
  Poll = poll
  MessageBytes = 2
  iMaxSendQueueBytes = 5
INVARIANTS
  PollSound
  BytesInOrder
PROPERTIES
  IoProgress
CHECK_DEADLOCK FALSE
