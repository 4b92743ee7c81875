CONSTANTS
    DumpFiles <- MCDumps
    WordSize = 2
    Rate = 3
    LoopOptions = {FALSE, TRUE}
    ThrottleBound = 2
    Layout <- MCLayout
SPECIFICATION Spec
INVARIANTS
    TypeOK
    CounterTracksOffset
    RateLimit
PROPERTIES
    ReplayEnds
    ReplayedForever
\* Without --loop, once zsys_interrupted is set the zloop returns and the
\* tool exits.
CHECK_DEADLOCK FALSE
