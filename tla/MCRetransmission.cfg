SPECIFICATION FairSpec
CONSTANTS
    Frames = {s1, s2, c1, a1}
    Eliciting = {s1, s2, c1}
    Reliable = {s1, s2}
    AckFrames <- MCAckFrames
    PktLens = {1, 2}
    LostDelays = {2}
    Ptos = {1}
    MaxNum = 2
    LastSend = 2
    MaxTime = 6
INVARIANTS
    TypeOK
    FramesConserved
    ReliableFramesKept
    CountExact
    BytesExact
    LossTimeIsOfAPacketInFlight
    SleepsWithDeadline
PROPERTY LossIsDetected
