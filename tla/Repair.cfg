SPECIFICATION FairSpec
CONSTANTS
  r = r
  None = None
  Repairs = {r}
  RoutesOf <- AnyRoute
  MaxCrashes = 2
  MaxFaults = 1
  MayShutDown = TRUE
INVARIANTS Tier1Accounted SuccessMeansRun ReportTruthful TerminatedIsFinal
PROPERTIES FencedTurn KeepsPromise Settled
CHECK_DEADLOCK FALSE
