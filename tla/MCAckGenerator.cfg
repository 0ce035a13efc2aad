SPECIFICATION Spec
CONSTANT MaxNum = 6
INVARIANTS
    RangesSeparated
    FrameIsExact
    NothingUnreportedIsForgotten
PROPERTY NeverForgets
