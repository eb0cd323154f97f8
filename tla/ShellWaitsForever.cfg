SPECIFICATION Spec
CONSTANTS
    Pid = {p1, p2}
    NoPid = nopid
    Keys = {"INT", "TSTP"}
    MAXJOBS = 2
    JidBound = 3
INVARIANT WaitsForSomeone
