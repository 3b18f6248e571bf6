SPECIFICATION MCSpec
CONSTANTS
    SysArgMax = 48
    EnvSizes = {0, 32, 38, 43, 45}
    Headroom = 4
    LineMax = 2
    DefaultArgSize = 8
    PointerSize = 2
    SizeModulus = 1000
    InitialSize = 1
    Typed <- MCTyped
    MaxOptions = 4
INVARIANTS
    LastOptionWins
    SizeIsAllowed
    ItemsFound
    AllInputUsed
    EmptyInputRule
    LinesBounded
    
    WholeTemplate
CHECK_DEADLOCK FALSE
