CONSTANTS
  CmdLimit = 2
  EvtLimit = 2
  Calls = {c1, c2}
  Refs = {s1}
  MaxH3 = 1
SPECIFICATION FairSpec
INVARIANTS TypeOK CmdPermits EvtPermits DeadlineCovered AcceptHasPermit ConnectedFirst CallsTracked
PROPERTIES EndAnswersCalls QueuedIsProcessed ClosedStopsTimers ImplementsConApi
CHECK_DEADLOCK FALSE
