CONSTANTS
  Streams = {s1, s2}
  TrailerStreams = {s2}
  EvtLimit = 1
  MaxFrames = 4
SPECIFICATION FairSpec
INVARIANTS TypeOK EntriesCurrent NoStaleEntry
PROPERTIES FinishedIsHanded ImplementsMessages
CHECK_DEADLOCK FALSE
