CONSTANTS
  Timers = {t1, t2}
  Count = 5
  MaxTick <- FiveLevels
  TickMs = 2
  Delays = {9, 49}
  MaxNow = 54
  MaxLag = 4
SYMMETRY Symmetry
SPECIFICATION WheelSpec
INVARIANTS
  NeverEarly
  NeverLate
CHECK_DEADLOCK FALSE
