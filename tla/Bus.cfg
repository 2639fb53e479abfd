SPECIFICATION Spec
CONSTANTS
  a = a
  b = b
  t = t
  u = u
  None = None
  Gates = {a, b}
  Tabs = {t, u}
  MaxEntries = 2
  MaxReplay = 2
  MaxPending = 1
  MaxEvents = 5
SYMMETRY Symmetric
INVARIANTS NoSilentGap NumbersInOrder
CHECK_DEADLOCK FALSE
