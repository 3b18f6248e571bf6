SPECIFICATION Spec
CONSTANTS
    OneByteMax = 1
    OldOffset = 1
    WordBase = 8
    SortedPaths <- MCSortedPaths
    MaxUpdates = 0
    MaxGiven = 4
    MaxTroubles = 1
    Matches <- MCMatches
    Existing <- MCExisting
    Scenarios <- SlocateScenarios
INVARIANTS
    SlocateReadsBack
CHECK_DEADLOCK FALSE
