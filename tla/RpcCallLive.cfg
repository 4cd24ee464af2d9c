\* A call through the client with a timeout and one without that names its session;
\* one connection.
CONSTANTS
  c1 = c1
  c2 = c2
  Calls = {c1, c2}
  ClientCalls = {c1}
  Timed = {c1}
  MaxSid = 1
  m_iHeldMaxCount = 1
SPECIFICATION FairSpec
PROPERTIES
  ImplementsCompletion
  TimedCallEnds
  ClosedReleases
