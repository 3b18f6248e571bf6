SPECIFICATION FairSpec
CONSTANTS
    short = short
    long = long
    Item <- MCItem
    Size <- MCSize
    PrefixLen = 0
    InitialArgc = 1
    InitialChars = 1
    ArgMax = 10
    MaxArgCount = 7
    ArgsPerExec = 0
    LinesPerExec = 0
    ExitIfSizeExceeded = FALSE
    ReplacePat = FALSE
    MustAccept <- NoneMustBeAccepted
    MaxPushes = 7
INVARIANTS
    TypeOK
    ExactlyOnceInOrder
    WithinArgCount
    WithinArgMax
    GivesUpOnSingleArg
PROPERTIES
    ExecEnds
    ImplementsArgStream
CHECK_DEADLOCK FALSE
