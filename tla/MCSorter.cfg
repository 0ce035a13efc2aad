SPECIFICATION FairSpec
CONSTANTS
    MAX_SIZE = 12
    CLUSTER_SIZE = 3
    Total = 7
    LongTotal = 10
    Segmentations <- MCSegmentations
    ReadLens = {1, 5}
INVARIANTS
    GapsAreWhatIsMissing
    AvailIsThePrefix
    ReadableIsHeld
PROPERTIES
    ImplementsByteStream
    EverythingIsRead
