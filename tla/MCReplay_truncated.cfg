CONSTANTS
    DumpFiles <- MCCutDumps
    WordSize = 2
    Rate = 3
    LoopOptions = {FALSE, TRUE}
    ThrottleBound = 2
    Layout <- MCLayout
SPECIFICATION Spec
PROPERTY
    EveryReplayEnds
CHECK_DEADLOCK FALSE
