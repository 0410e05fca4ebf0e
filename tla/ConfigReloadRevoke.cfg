SPECIFICATION Spec
CONSTANTS
    Source <- Sibling
    File <- Sibling
    Dir <- Tree
    ConfDir <- C
    Writer = {w1}
    NoScope = NoScope
    NoJob = NoJob
    Missing = Missing
    Saved = Saved
    Moved = Moved
    Saves = {"whole"}
    Revokes = TRUE
    Fails = FALSE
    MaxSaves = 1
    MaxEdits = 0
INVARIANT MirrorMatchesStatus
CHECK_DEADLOCK FALSE
