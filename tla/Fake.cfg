SPECIFICATION ProcessSpec
CONSTANTS
  Calls = {c1, c2}
  NoCall = NoCall
  Procs = {p1}
  Groups = {g1}
  NoGroup = NoGroup
  t1 = t1
  t2 = t2
  NoTool = NoTool
  ToolOf <- CallTools
  Scripts <- TwoScripts
  Messages <- AllControl
  CommandLines <- Settings
INVARIANTS TypeOK ReplayedExactly ParsedAsGiven SuccessMeansAnswered
PROPERTY KeepsLedger
CHECK_DEADLOCK FALSE
