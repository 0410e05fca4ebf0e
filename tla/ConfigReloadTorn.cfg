SPECIFICATION Spec
CONSTANTS
    Source <- Sibling
    File <- Sibling
    Dir <- Tree
    ConfDir <- C
    Writer = {w1}
    NoScope = NoScope
    NoJob = NoJob
    Missing = Missing
    Saved = Saved
    Moved = Moved
    Saves = {"inplace"}
    Revokes = FALSE
    Fails = FALSE
    MaxSaves = 2
    MaxEdits = 0
INVARIANT RowsMatchConfig
CHECK_DEADLOCK FALSE
