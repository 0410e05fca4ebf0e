SPECIFICATION FairSpec
CONSTANTS
    Proc = {d, c}
    Daemon = d
    Free = free
    Path = {p, q}
    Blob = {x, y}
    Absent = absent
    Subtree <- MCFileOrAll
    Faults = {"exit", "unread", "stalelock", "kill", "orphan"}
    MaxOps = 3
    MaxFaults = 2
INVARIANTS TypeOK LinearHistory StrayOnlyFromFaults
PROPERTIES CommitTouchesOnlyItsPaths ReturnMeansDone ImplementsAtomicMirror EveryCallReturns
