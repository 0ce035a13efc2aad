SPECIFICATION FairSpec
CONSTANTS
    Streams = {s1, s2}
    Closing = {s1}
    Timed = {s1}
    WriteLens = {2}
    MaxWrites = 2
    InitialWindow = 1
    Windows = {4}
    Rooms = {3}
    HeaderLen = 1
    Word = 4
INVARIANTS
    QueueIsTheSet
    FramesCarryWhatIsReported
    WithinWindow
    OneFin
    DataIsActive
PROPERTY EveryWriteReturns
