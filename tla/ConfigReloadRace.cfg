SPECIFICATION Spec
CONSTANTS
    Source <- Pair
    File <- Pair
    Dir <- Tree
    ConfDir <- C
    Writer = {w1}
    NoScope = NoScope
    NoJob = NoJob
    Missing = Missing
    Saved = Saved
    Moved = Moved
    Saves = {"whole"}
    Revokes = TRUE
    Fails = FALSE
    MaxSaves = 1
    MaxEdits = 1
PROPERTY NoneMirroredOnceDeactivated
CHECK_DEADLOCK FALSE
