SPECIFICATION Spec
CONSTANTS
    Id = {a, b}
    NoId = none
    CHUNK <- MC_CHUNK
    MAX_HEAP <- MC_MAX_HEAP
    Sizes <- MCSizes
INVARIANTS
    HeapTiled
    FreeBlocksMerged
    RoverOnBlock
    NoneLost
    GrowsOnlyWhenFull
PROPERTIES
    ImplementsAllocator
