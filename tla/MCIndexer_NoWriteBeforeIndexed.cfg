CONSTANTS
    s1 = s1
    s2 = s2
    p1 = p1
    p2 = p2
    Streams <- MCStreams
    Parsers <- MCParsers
    MaxDay = 1
    RefreshInterval = 2
    InfoInterval = 1
    StoreMayFail = FALSE
SPECIFICATION Spec
INVARIANT NoWriteBeforeIndexed
CHECK_DEADLOCK FALSE
SYMMETRY MCSymmetry
