CONSTANTS
    Mss = 4
    InitialCwnd = 4
    MinCwnd = 4
    MaxCwnd = 12
    HystartPackets = 3
    PktLens = {1, 4}
    NumSpaces = 2
    LastSend = 6
    Word = 1048576

SPECIFICATION Spec

INVARIANT WindowIsBounded
PROPERTY NeverOversends

CHECK_DEADLOCK FALSE
