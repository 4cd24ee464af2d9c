\* Two calls through the client, one of them without a timeout; two connections; room
\* for one held call.
CONSTANTS
  c1 = c1
  c2 = c2
  Calls = {c1, c2}
  ClientCalls = {c1, c2}
  Timed = {c1}
  MaxSid = 2
  m_iHeldMaxCount = 1
SPECIFICATION Spec
INVARIANTS
  CallSound
  HeldSound
