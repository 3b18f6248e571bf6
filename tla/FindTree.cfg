SPECIFICATION MCSpec
CONSTANTS
    name = name
    size = size
    exec = exec
    prune = prune
    Names <- MCNames
    Tests <- MCTests
    Actions <- MCActions
    QuietActions <- MCQuietActions
    Cost <- MCCost
    Rate <- MCRate
    CheapCosts = {1}
    Levels = {0, 3}
    MaxWords = 5
    TicksPerSec = 2
    DAYSECS = 4
    MinuteSecs = 2
    Parts = 2
    StartTimes <- MCStartTimes
    Amounts <- MCAmounts
    Numbers <- MCNumbers
    Units <- MCUnits
    Masks <- MCMasks
    Files <- MCFiles
    References <- MCReferences
INVARIANTS
    TreeIsTheExpression
    OptimisedTheSame
    NamesFirst
    TimesMean
    NumbersMean
CHECK_DEADLOCK FALSE
