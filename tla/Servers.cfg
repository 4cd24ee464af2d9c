SPECIFICATION SpecAll
CONSTANTS
  Sessions = {tcp, udp}
  Datagram = {udp}
  Sizes = {1, 2}
  iMaxCount = 2
  iMaxBytes = 3
  iSessionMaxCount = 1
  iSessionMaxBytes = 2
  FrameTimeout = 2
  MaxFrames = 2
  Addresses = {a, b}
  MaxSid = 2
  MaxOutstanding = 2
  MaxFaults = 1
INVARIANTS
  
  UsageExact
  TimerSound

  
CHECK_DEADLOCK FALSE
