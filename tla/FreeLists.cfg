SPECIFICATION Spec
CONSTANTS
    Id = {a, b, c, d}
    NoId = none
    CHUNK = 20
    MAX_HEAP = 44
    Sizes = {8, 20}
    Files = {"mm_v1", "mm_v3", "mm_v4", "mm_backup"}
    MAX_CALLS = 7
SYMMETRY IdSymmetry
INVARIANTS
    ListIsTheFreeBlocks
    mm_checkSucceeds
PROPERTIES
    ImplementsAllocator
CHECK_DEADLOCK FALSE
