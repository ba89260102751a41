CONSTANTS
    Page = 2
    AppBases <- MCAppBases
    ExtraFS = 14
    BootScratch = 16
    AppEnd = 20
    FallbackMemory = 8
    FallbackSpan = 10
    RamSize = 3
    U32Max = 18
    Lens <- MCLens
    Segments <- MCSegments
    Memories <- MCMemories
    Totals <- MCTotals
    Layouts <- MCLayouts
    None = None
SPECIFICATION Spec
INVARIANTS TypeOK WindowHoldsBoth NeededBaseIntact ImageRebuilt ContainerIntact
