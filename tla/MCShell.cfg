SPECIFICATION Spec
CONSTANTS
    Pid = {p1, p2}
    NoPid = nopid
    Keys = {"INT", "TSTP"}
    MAXJOBS = 2
    JidBound = 2
SYMMETRY PidSymmetry
INVARIANTS
    TypeOK
    AtMostOneFG
    NoGhostJob
    StoppedIsStopped
    EveryChildListed
PROPERTIES
    BackgroundUntouched
    ImplementsJobControl
