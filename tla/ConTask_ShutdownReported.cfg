CONSTANTS
    CmdLimit = 2
    EvtLimit = 1
    Calls = {c1}
    Refs = {s1}
    MaxH3 = 1

SPECIFICATION FairSpec

PROPERTY ShutdownReported

CHECK_DEADLOCK FALSE
