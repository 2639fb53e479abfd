SPECIFICATION Spec
CONSTANTS
  m1 = m1
  m2 = m2
  None = None
  o = o
  Legacy = {o}
  Turns = {m1, m2}
  PageTurns = 1
  MaxParts = 1
  MaxWrites = 1
  MaxReads = 2
  MaxUpsets = 1
SYMMETRY Symmetric
INVARIANTS ShowsWhatItKnows OwnMessagesStay
PROPERTIES LiveViewGrows
CHECK_DEADLOCK FALSE
