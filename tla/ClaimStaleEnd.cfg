SPECIFICATION Spec
CONSTANTS
  Calls = {c1, c2}
  NoCall = NoCall
  Procs = {p1}
  Groups = {g1}
  NoGroup = NoGroup
  RingCap = 1
  DrainBatch = 2
  Unread = Unread
  NoSummary = NoSummary
  Scopes = {}
  MaxCaptures = 1
  MaxStarts = 1
  MaxFaults = 2
  Overlap = FALSE
SYMMETRY CallSymmetry
INVARIANT OpenWindowKept
CHECK_DEADLOCK FALSE
