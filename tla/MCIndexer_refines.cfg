CONSTANTS
    s1 = s1
    s2 = s2
    p1 = p1
    p2 = p2
    Streams <- MCStreams
    Parsers <- MCOneParser
    MaxDay = 1
    RefreshInterval = 2
    InfoInterval = 1
    StoreMayFail = TRUE
SPECIFICATION Spec
INVARIANT
    TodayCatalogued
PROPERTY
    Provisioned
CHECK_DEADLOCK FALSE
SYMMETRY MCSymmetry
