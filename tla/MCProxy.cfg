SPECIFICATION Spec
CONSTANTS
    t1 = t1
    t2 = t2
    Thread <- MCThread
    Request <- MCRequest
    Response <- MCResponse
    Garbage <- MCGarbage
    Unassigned = Unassigned
INVARIANTS
    RelaysInOrder
    LogsWhole
    NoLeak
PROPERTY
    ThreadsEnd
CHECK_DEADLOCK FALSE
