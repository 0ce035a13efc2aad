SPECIFICATION FairSpec
CONSTANTS
    PeerChoices <- MCPeerChoices
    ReadLens = {3}
    InitialSwnds = {5}
    InitialRwnd = 5
    MaxRwndSize = 5
PROPERTY EmptyReadIsTheEnd
