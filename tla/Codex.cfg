SPECIFICATION Spec
CONSTANTS
  p1 = p1
  p2 = p2
  p3 = p3
  Goal = Goal
  None = None
  Procs = {p1, p2, p3}
  MaxPrompts = 2
  Resumed = TRUE
  MaxUpsets = 3
INVARIANTS OwnTurn EndsForItsCause OneProcess
CHECK_DEADLOCK FALSE
