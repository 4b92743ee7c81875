CONSTANTS
    s1 = s1
    s2 = s2
    p1 = p1
    p2 = p2
    Streams <- MCStreams
    Parsers <- MCOneParser
    MaxDay = 1
    RefreshInterval = 2
    InfoInterval = 1
    StoreMayFail = FALSE
SPECIFICATION FairSpec
INVARIANTS
    TypeOK
    DayCovered
PROPERTY
    EventuallyIndexed
CHECK_DEADLOCK FALSE
