SPECIFICATION Spec
CONSTANTS
    NEWLINE = 0
    Texts <- MCTexts
    WIRE = 3
    RIO_BUFSIZE = 2
    LineSize = {2, 4, 6}
    ReadSize = {1, 3}
    Addresses = {v4, v6}
    MAX_LIST = 2
INVARIANTS
    OpensCleanly
PROPERTIES
    ImplementsStream
    CallsReturn
CHECK_DEADLOCK FALSE
