SPECIFICATION Spec
CONSTANTS
    Source <- Beside
    File <- BesideFiles
    Dir <- Tree
    ConfDir <- C
    Writer = {w1}
    NoScope = NoScope
    NoJob = NoJob
    Missing = Missing
    Saved = Saved
    Moved = Moved
    Saves = {"whole"}
    Revokes = TRUE
    Fails = FALSE
    MaxSaves = 3
    MaxEdits = 0
PROPERTY ReconcileKeepsConfigWatch
CHECK_DEADLOCK FALSE
