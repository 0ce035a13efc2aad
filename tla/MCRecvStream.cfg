SPECIFICATION FairSpec
CONSTANTS
    PeerChoices <- MCPeerChoices
    ReadLens = {1, 4}
    InitialSwnds = {1, 4}
    InitialRwnd = 3
    MaxRwndSize = 4
INVARIANTS
    GrantsAreKept
    NoReaderSleepsOnData
    CreditIsExact
PROPERTY WholeStreamIsRead
