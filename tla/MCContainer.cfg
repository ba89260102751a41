SPECIFICATION Spec
CONSTANTS
    AppOptions <- MCAppOptions
    BootOptions <- MCBootOptions
    NoIdent <- MCNoIdent
    AppBlockSizes = {2, 4}
    BootBlockSize = 2
    BootSize = 4
    BlockCountMax = 7
    Keys <- MCKeys
    Storage <- MCStorage
    Platform <- MCPlatform
    Patch <- MCPatch
    Short <- MCShort
    None = None
    Meta = 3
    MaxDamage = 3
    t1 = t1
    t2 = t2
    h1 = h1
    h2 = h2
    k1 = k1
    k2 = k2
    board = board
    other = other
INVARIANTS
    TypeOK
    BuiltVerifies
    DamageCaught
    SignedAuthentic
    RootIsReference
CHECK_DEADLOCK FALSE
