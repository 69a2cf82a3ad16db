CONSTANTS
  UdpLimit = 2
  Closers = {k1}
  Senders = {s1, s2}
  MaxInbox = 1
SPECIFICATION FairSpec
PROPERTY CloseReleasesSocket
CHECK_DEADLOCK FALSE
