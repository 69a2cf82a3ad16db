CONSTANTS
  UdpLimit = 2
  ConLimit = 1
  EvtLimit = 1
  Callers = {c1, c2}
  Attempts = {a1}
  MaxInitial = 1
SPECIFICATION FairSpec
INVARIANTS TypeOK LimitsKept EvtPermits LiveIsRouted CallsTracked
PROPERTIES ConnectAnswered ImplementsEpApi
CHECK_DEADLOCK FALSE
