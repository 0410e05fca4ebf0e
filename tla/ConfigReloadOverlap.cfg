SPECIFICATION Spec
CONSTANTS
    Source <- Overlap
    File <- OverlapFiles
    Dir <- Tree
    ConfDir <- C
    Writer = {w1}
    NoScope = NoScope
    NoJob = NoJob
    Missing = Missing
    Saved = Saved
    Moved = Moved
    Saves = {"whole"}
    Revokes = TRUE
    Fails = FALSE
    MaxSaves = 2
    MaxEdits = 0
INVARIANT StatusMeansInScope
CHECK_DEADLOCK FALSE
