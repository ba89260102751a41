CONSTANTS
    Mid <- MCMid
    Cell <- MCCell
    Blank = "FF"
    Hole = "00"
    NoFile = NoFile
    Seed <- MCSeed
    SeedOff = 1
    Declared <- MCDeclared
    Valid <- MCValid
    LeftBehind <- MCLeftBehind
    WriteMax = 2
    MaxTotal = 2
    CountMax = 1
SPECIFICATION Spec
INVARIANTS TypeOK CapturedWellFormed DescribedStillServed ServedBackedByFile
PROPERTIES PublishAtomic RestartKeepsOffer
