SPECIFICATION FairSpec
CONSTANTS
  Calls = {c1}
  NoCall = NoCall
  Procs = {p1}
  Groups = {g1}
  NoGroup = NoGroup
  RingCap = 1
  DrainBatch = 1
  Unread = Unread
  NoSummary = NoSummary
  Scopes = {g1}
  MaxCaptures = 2
  MaxStarts = 1
  MaxFaults = 0
  Overlap = FALSE
CHECK_DEADLOCK FALSE
PROPERTY CallsReturn
INVARIANT TypeOK
