CONSTANTS
  UdpLimit = 3
  Closers = {k1, k2}
  Senders = {s1, s2}
  MaxInbox = 2
SPECIFICATION FairSpec
INVARIANTS TypeOK ParkedIsWakeable LimitKept ErrorIsLast
PROPERTY ShutdownEndsStream
CHECK_DEADLOCK FALSE
