CONSTANTS
  Client = cl
  Attempt = at
  Servers = {v1, v2}
  MaxTimers = 1
  MaxLoss = 1
  MaxDup = 1
SPECIFICATION FairSpec
INVARIANTS TypeOK OneServerCompletes AckedIsReceived
PROPERTIES CompletesWithoutLoss TimerGetsItThrough ImplementsOneHandshake
CHECK_DEADLOCK FALSE
