CONSTANTS
    Mid <- MCMid
    Cell <- MCCell
    Blank = "FF"
    Hole = "00"
    NoFile = NoFile
    Seed <- MCSeed
    SeedOff = 1
    Declared <- MCDeclared
    Valid <- MCValid
    LeftBehind <- MCLeftBehind
    WriteMax = 1
    MaxTotal = 3
    CountMax = 1
    Target = 1
    Image <- MCImage
    PayloadOff = 2
    EarlyTimeout = FALSE
    MaxQueue = 2
    MaxFailures = 2
SPECIFICATION Spec
INVARIANTS TypeOK BelievedChunksStored CaptureExact
PROPERTY CaptureImplements
