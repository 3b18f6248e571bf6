SPECIFICATION FindSpec
CONSTANTS
    top = top
    sub = sub
    fileInTop = fileInTop
    fileInSub = fileInSub
    Dir = {top, sub}
    NoDir = NoDir
    Home <- MCHome
    Local = TRUE
    Item <- MCItem
    Size <- MCSize
    PrefixLen = 2
    InitialArgc = 1
    InitialChars = 1
    ArgMax = 50
    MaxArgCount = 50
    ArgsPerExec = 0
    LinesPerExec = 0
    ExitIfSizeExceeded = FALSE
    ReplacePat = FALSE
    MustAccept <- NoneMustBeAccepted
    MaxPushes = 5
INVARIANTS
    RunsInOwnDirectory
    AllMatchedRun
CHECK_DEADLOCK FALSE
