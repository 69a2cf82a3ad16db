CONSTANTS
  UdpLimit = 2
  ConLimit = 1
  EvtLimit = 1
  Callers = {c1, c2}
  Attempts = {a1}
  MaxInitial = 2
SPECIFICATION Spec
INVARIANT OneInConPerAttempt
CHECK_DEADLOCK FALSE
