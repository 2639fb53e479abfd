SPECIFICATION Spec
CONSTANTS
  a = a
  b = b
  r = r
  s = s
  None = None
  Jobs = {a, b}
  Repairs = {r, s}
  RepairOf <- OwnRepairs
  ManualPlan = {b}
  LocalOrigin = {b}
  Adjudicated = {a, b}
  MaxCrashes = 2
  MaxFaults = 1
  SpawnMayFail = TRUE
  LeaderMayDie = TRUE
INVARIANTS ReportedOutcomeTrue OneVerdict
CHECK_DEADLOCK FALSE
