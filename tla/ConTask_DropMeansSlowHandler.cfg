CONSTANTS
  CmdLimit = 3
  EvtLimit = 2
  Calls = {c1, c2}
  Refs = {s1}
  MaxH3 = 1
SPECIFICATION Spec
INVARIANT DropMeansSlowHandler
CHECK_DEADLOCK FALSE
