SPECIFICATION Spec
CONSTANTS
    s1 = s1
    s2 = s2
    Sessions = {s1, s2}
    Ids = {i1, i2, i3, i4, i5}
    ActiveConnId = 2
    PeerMaxSeq <- MCPeerMaxSeq
    MaxRetires <- MCMaxRetires
SYMMETRY IdsAreAlike
INVARIANTS
    RoutesAreExact
    DestinationIsValid
    EveryIdIsAnswered
CHECK_DEADLOCK FALSE
