CONSTANTS
    AddrSpace = 16
    OffsetSpan = 4
    SegmentStep = 2
    RegionStart = 6
    RegionSize = 4
    Erased = 255
    Values <- MCValues
    MaxRecords = 3
SPECIFICATION Spec
INVARIANTS ImageExact RegionExact
