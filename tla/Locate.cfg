SPECIFICATION Spec
CONSTANTS
    OneByteMax = 1
    OldOffset = 1
    WordBase = 8
    SortedPaths <- MCSortedPaths
    MaxUpdates = 2
    MaxGiven = 4
    MaxTroubles = 1
    Matches <- MCMatches
    Existing <- MCExisting
    Scenarios <- MCScenarios
INVARIANTS
    SearchIsExact
    StatusTellsMatch
    LimitKept
    StatsDoNotLeak
    GuessIsSound
PROPERTIES
    ImplementsLocateDb
CHECK_DEADLOCK FALSE
