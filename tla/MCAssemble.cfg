SPECIFICATION Spec
CONSTANTS
    WORD = 2
    MEM_SIZE = 24
    Sources <- MCSources
INVARIANTS
    AssemblersAgree
    YasAcceptsToo
CHECK_DEADLOCK FALSE
