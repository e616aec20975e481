SPECIFICATION Spec
CONSTANTS
  Calls = {c1, c2}
  NoCall = NoCall
  NoSummary = NoSummary
  MonitorDir = "allowed"
  FlagSets <- OpenFlags
  ScriptedEvents <- Script
  Targets = {"allowed", "outside"}
  MaxSyscalls = 1
  MaxStarts = 1
PROPERTY KeepsBook
INVARIANTS NothingMissed NothingInvented
CHECK_DEADLOCK FALSE
