SPECIFICATION FairSpec
CONSTANTS
    p1 = p1
    p2 = p2
    p3 = p3
    NoPid = NoPid
    Pid <- Pids3
    Commands = 3
    ProcMax = 2
    MaxSignals = 1
    MaxTooBig = 1
INVARIANTS
    EveryCommandTracked
    RunsAtMostMaxProcs
    PoolIsTrue
    StatusHasCause
PROPERTIES
    NothingStartsAfterAbort
    XargsEnds
CHECK_DEADLOCK FALSE
