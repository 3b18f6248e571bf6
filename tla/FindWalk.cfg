SPECIFICATION FairSpec
CONSTANTS
    Nodes = 4
    Kinds <- MCKinds
    Dots = {1}
    Depths = {1}
INVARIANTS
    AppliedOnce
    OrderOfVisits
    NothingMissed
    PruneIsTransient
    DeletesAll
PROPERTIES
    WalkEnds
CHECK_DEADLOCK FALSE
