SPECIFICATION Spec
CONSTANTS
  Calls = {c1, c2}
  NoCall = NoCall
  Procs = {p1}
  Groups = {g1}
  NoGroup = NoGroup
  RingCap = 2
  DrainBatch = 2
  Unread = Unread
  MaxEvents = 2
  Overlap = FALSE
  Messages <- ScopedMarks
  Syscalls <- Decodable
  Movers = {}
SYMMETRY CallSymmetry
CHECK_DEADLOCK FALSE
INVARIANT CapturedInCallAttributed
