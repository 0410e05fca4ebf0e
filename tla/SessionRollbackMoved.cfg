SPECIFICATION Spec
CONSTANTS
    Path = {x, y}
    Content = {c1, c2}
    Absent = Absent
    Session = Session
    Other = Other
    Rollback = Rollback
    Revocable = {}
    Moves = TRUE
    Edits = FALSE
    MaxCommits = 3
INVARIANT SessionUndone
CHECK_DEADLOCK FALSE
