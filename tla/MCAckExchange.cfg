SPECIFICATION ExchangeSpec
CONSTANTS
    Frames = {s1, s2, a1}
    Eliciting = {s1, s2}
    Reliable = {s1, s2}
    AckFrames = {}
    PktLens = {1}
    LostDelays = {1}
    Ptos = {1}
    MaxNum = 3
    LastSend = 4
    MaxTime = 5
INVARIANTS
    NoFalseAck
    NothingLost
PROPERTY ImplementsDelivery
