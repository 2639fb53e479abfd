SPECIFICATION Spec
CONSTANTS
  d = d
  o = o
  c = c
  k = k
  None = None
  Untouched = Untouched
  Jobs = {d, o}
  Defaults = {d}
  OneShots = {o}
  Callers = {c}
  Tick = k
  MaxMinutes = 1
  MaxEdits = 2
  MaxCrashes = 1
  MaxFaults = 1
INVARIANTS OncePerMinute EditsStick FiresOnce
CHECK_DEADLOCK FALSE
