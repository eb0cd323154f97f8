SPECIFICATION LiveSpec
CONSTANTS
    Pid = {p1, p2}
    NoPid = nopid
    Keys = {"INT", "QUIT"}
    MAXJOBS = 1
    JidBound = 1
PROPERTIES
    ZombiesReaped
    EvalWaitEnds
    CtrlCReachesJob
