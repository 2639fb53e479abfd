SPECIFICATION FairSpec
CONSTANTS
  a = a
  b = b
  r = r
  s = s
  None = None
  Jobs = {a, b}
  Repairs = {r}
  RepairOf <- OneRepair
  ManualPlan = {}
  LocalOrigin = {b}
  Adjudicated = {}
  MaxCrashes = 1
  MaxFaults = 0
  SpawnMayFail = FALSE
  LeaderMayDie = FALSE
PROPERTIES ClaimedIsClosed ReceivedIsTaken
CHECK_DEADLOCK FALSE
