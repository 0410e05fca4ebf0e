SPECIFICATION Spec
CONSTANTS
    Path = {x, y}
    Content = {c1, c2}
    Absent = Absent
    Session = Session
    Other = Other
    Rollback = Rollback
    Revocable = {y}
    Moves = TRUE
    Edits = TRUE
    MaxCommits = 4
INVARIANT TypeOK
INVARIANT RolledMeansUndone
INVARIANT MirrorMatchesDisk
INVARIANT LaterCommitsKept
CHECK_DEADLOCK FALSE
