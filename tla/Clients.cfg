SPECIFICATION SpecAll
CONSTANTS
  Calls = {cc, sc}
  Synchronous = {sc}
  MaxSid = 2
  m_iMaxPending = 2
  q1 = q1
  q2 = q2
  pa = pa
  ps = ps
  pt = pt
INVARIANTS
  ReplySound
  HttpSound
  PullMatches
  ConnectIsUnderWay
PROPERTIES
  EveryCallEnds
  RequestEnds
  EveryPullEnds
CHECK_DEADLOCK FALSE
