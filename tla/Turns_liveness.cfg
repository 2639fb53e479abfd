SPECIFICATION FairSpec
CONSTANTS
  p1 = p1
  p2 = p2
  Watch = Watch
  Task = Task
  None = None
  MaxSubmits = 2
  Procs = {p1, p2}
  MaxTries = 0
  MaxTasks = 1
  MaxRecycles = 1
  MaxCrashes = 1
  MaxLate = 1
  MaxUpsets = 1
PROPERTY QueueDrains
CHECK_DEADLOCK FALSE
