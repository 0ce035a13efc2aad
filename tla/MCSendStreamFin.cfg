SPECIFICATION FairSpec
CONSTANTS
    Streams = {s1}
    Closing = {s1}
    Timed = {}
    WriteLens = {1}
    MaxWrites = 1
    InitialWindow = 2
    Windows = {2}
    Rooms = {1, 2}
    HeaderLen = 1
    Word = 8
PROPERTY FinFollowsClose
