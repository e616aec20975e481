SPECIFICATION Spec
CONSTANTS
  Calls = {c1, c2}
  NoCall = NoCall
  Procs = {p1}
  Groups = {g1}
  NoGroup = NoGroup
  RingCap = 1
  DrainBatch = 1
  Unread = Unread
  NoSummary = NoSummary
  Scopes = {}
  MaxCaptures = 1
  MaxStarts = 2
  MaxFaults = 2
  Overlap = FALSE
SYMMETRY CallSymmetry
INVARIANTS AnsweredSummaryComplete AnsweredHasAll AnsweredWindowKept BeginAnswerComing EndAnswerComing
PROPERTY KeepsBook
CHECK_DEADLOCK FALSE
