SPECIFICATION Spec
CONSTANTS
    set_num = 4
    lines_per_set = 3
    block_size = 2
    Address <- MCAddress
    TRACE_LENGTH = 6
INVARIANTS
    LinesDiffer
PROPERTY
    ImplementsLRU
CHECK_DEADLOCK FALSE
