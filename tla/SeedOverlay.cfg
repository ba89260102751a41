CONSTANTS
    Mid <- MCMid
    Cell <- OverlayCell
    Blank = "FF"
    Hole = "00"
    NoFile = NoFile
    Seed <- MCSeed
    SeedOff = 1
    Declared <- MCDeclared
    Valid <- OverlayValid
    LeftBehind <- OverlayLeftBehind
    WriteMax = 1
    MaxTotal = 3
    CountMax = 1
    Target = 1
    Image <- OverlayImage
    PayloadOff = 2
    EarlyTimeout = FALSE
    MaxQueue = 2
    MaxFailures = 2
SPECIFICATION Spec
INVARIANT HeaderAndLeavesBlank
