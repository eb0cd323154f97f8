SPECIFICATION Spec
CONSTANTS
    Id = {a, b, c}
    NoId = none
    CHUNK <- MC_CHUNK
    MAX_HEAP <- MC_MAX_HEAP
    Sizes <- MCSizes
    Files <- MCFiles
    Pointers <- MCPointers
    MAX_OPS <- MC_MAX_OPS
    NUM_TRACES = 2
SYMMETRY MCSymmetry
INVARIANTS
    DriverAccepts
    RangesAreTheBlocks
    UtilizationIsPeak
PROPERTIES
    ReplayAgrees
CHECK_DEADLOCK FALSE
