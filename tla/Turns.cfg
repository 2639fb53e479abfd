SPECIFICATION Spec
CONSTANTS
  p1 = p1
  p2 = p2
  p3 = p3
  Watch = Watch
  Task = Task
  None = None
  MaxSubmits = 2
  Procs = {p1, p2, p3}
  MaxTries = 1
  MaxTasks = 1
  MaxRecycles = 1
  MaxCrashes = 1
  MaxLate = 1
  MaxUpsets = 1
INVARIANTS EndsOnce OwnAnswer OneTurn AnswersKept
CHECK_DEADLOCK FALSE
