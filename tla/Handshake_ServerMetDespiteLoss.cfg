CONSTANTS
  Client = cl
  Attempt = at
  Servers = {v1, v2}
  MaxTimers = 1
  MaxLoss = 1
  MaxDup = 0
SPECIFICATION FairSpec
PROPERTY ServerMetDespiteLoss
CHECK_DEADLOCK FALSE
