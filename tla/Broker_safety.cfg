SPECIFICATION Spec
CONSTANTS
  r = r
  s = s
  x = x
  y = y
  c = c
  d = d
  v = v
  m = m
  None = None
  Repairs = {r}
  Tier1Repairs = {}
  KeysOf <- Keys
  Params = {x, y}
  Requests <- Asked
  Callers = {c, d}
  V5Ids = {v}
  AutoIds = {m}
  AutoModes = {TRUE, FALSE}
  BatchLimit = 2
  MaxCalls = 3
  MaxCrashes = 1
  MaxFaults = 1
INVARIANTS OutboxInOrder CutoverIsAnnounced ReleaseIsCutover CarriedOutOnce
SYMMETRY Symmetry
CHECK_DEADLOCK FALSE
