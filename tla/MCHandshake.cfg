SPECIFICATION FairSpec
CONSTANT Closers = {"client", "server"}
INVARIANTS
    ClosedSpacesAreDone
    PacketsArePossible
PROPERTIES
    HandshakeCompletes
    CloseIsHeard
CHECK_DEADLOCK FALSE
