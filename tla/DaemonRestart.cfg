SPECIFICATION Spec
CONSTANTS
    Caller = {c1, c2}
    Pid = {p1, p2, p3}
    NoPid = NoPid
    Crashes = TRUE
    Reuse = FALSE
PROPERTY OnlyAskedQuit
CHECK_DEADLOCK FALSE
