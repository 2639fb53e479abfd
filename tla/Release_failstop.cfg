SPECIFICATION Spec
CONSTANTS
  a = a
  b = b
  r = r
  s = s
  None = None
  Jobs = {a, b}
  Repairs = {r}
  RepairOf <- OneRepair
  ManualPlan = {}
  LocalOrigin = {b}
  Adjudicated = {a, b}
  MaxCrashes = 1
  MaxFaults = 1
  SpawnMayFail = FALSE
  LeaderMayDie = FALSE
INVARIANTS OneScopeAtATime FuseHoldsUnresolved DeployedIsPushed
PROPERTIES SettleOnlyDeadScope DeploysAtMostOnce RevokedNeverClaimed
CHECK_DEADLOCK FALSE
