CONSTANTS
    Own = {o1}
    Peers = {p1}
    MaxOpens = 2

SPECIFICATION Spec

INVARIANT NothingOfCloseIsLeft

CHECK_DEADLOCK FALSE
