SPECIFICATION FairSpec
CONSTANTS
  Calls = {c1}
  NoCall = NoCall
  Procs = {p1}
  Groups = {g1}
  NoGroup = NoGroup
  RingCap = 2
  DrainBatch = 2
  Unread = Unread
  MaxEvents = 2
  Overlap = FALSE
  Messages <- OneSession
  Syscalls <- Decodable
  Movers = {}
PROPERTIES BeginConfirmed EndAnswered ShutdownStops
CHECK_DEADLOCK FALSE
