SPECIFICATION FairSpec
CONSTANTS
    Caller = {c1}
    Pid = {p1, p2, p3}
    NoPid = NoPid
    Crashes = TRUE
    Reuse = TRUE
INVARIANT TypeOK
INVARIANT DaemonIsKnown
PROPERTY OnlyAskedQuit
PROPERTY StopReturns
CHECK_DEADLOCK FALSE
