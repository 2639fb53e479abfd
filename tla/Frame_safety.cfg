SPECIFICATION Spec
CONSTANTS
  x = x
  y = y
  None = None
  Tabs = {x, y}
  MaxFrames = 3
  MaxTurns = 1
  MaxHellos = 3
  MaxEntries = 1
  MaxFailures = 1
  MaxRestarts = 1
  MaxResets = 1
INVARIANTS TapedFirst InOrder NoSilentGap
SYMMETRY Symmetry
CHECK_DEADLOCK FALSE
