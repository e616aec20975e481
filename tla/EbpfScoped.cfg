SPECIFICATION Spec
CONSTANTS
  Calls = {c1}
  NoCall = NoCall
  Procs = {p1}
  Groups = {g1}
  NoGroup = NoGroup
  RingCap = 2
  DrainBatch = 2
  Unread = Unread
  MaxEvents = 2
  Overlap = TRUE
  Messages <- OddMessages
  Syscalls <- AllSyscalls
  Movers = {p1}
INVARIANTS TypeOK FilteredByThisPass
CHECK_DEADLOCK FALSE
