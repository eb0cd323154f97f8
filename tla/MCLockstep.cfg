SPECIFICATION Spec
CONSTANTS
    WORD = 2
    MEM_SIZE = 48
    LOOKAHEAD = 2
    instr_limit = 24
    seq_limit = 24
    max_steps = 24
    Images <- MCImages
INVARIANTS
    CommitsInOrder
    StatePrecise
    SeqPrecise
    Y64Precise
CHECK_DEADLOCK FALSE
