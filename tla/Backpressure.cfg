SPECIFICATION SpecBoth
CONSTANTS
  Clients = {s1, s2}
  Peers = {s1, s2}
  Lengths = {3, 5}
  m_iMaxPendingBytes = 4
  m_iMaxPendingCommands = 2
  iBudget = 1
  MaxInput = 2
  LOG_FRAME_MAX = 3
  Title = 1
  m_iMaxLogBytes = 3
  FramesPerRound = 1
  MaxLogs = 2
INVARIANTS
  ProxySound
  LogSound
PROPERTIES
  
  FramesGetWritten
CHECK_DEADLOCK FALSE
