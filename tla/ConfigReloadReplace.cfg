SPECIFICATION Spec
CONSTANTS
    Source <- Sibling
    File <- Sibling
    Dir <- Tree
    ConfDir <- C
    Writer = {w1}
    NoScope = NoScope
    NoJob = NoJob
    Missing = Missing
    Saved = Saved
    Moved = Moved
    Saves = {"replace"}
    Revokes = FALSE
    Fails = FALSE
    MaxSaves = 1
    MaxEdits = 0
INVARIANT EverySaveIsNoticed
CHECK_DEADLOCK FALSE
