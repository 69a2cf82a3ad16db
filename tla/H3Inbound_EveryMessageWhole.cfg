CONSTANTS
  Streams = {s1, s2}
  TrailerStreams = {s2}
  EvtLimit = 1
  MaxFrames = 3
SPECIFICATION Spec
INVARIANT EveryMessageWhole
CHECK_DEADLOCK FALSE
