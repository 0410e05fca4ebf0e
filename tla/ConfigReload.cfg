SPECIFICATION FairSpec
CONSTANTS
    Source <- Pair
    File <- Pair
    Dir <- Tree
    ConfDir <- C
    Writer = {w1}
    NoScope = NoScope
    NoJob = NoJob
    Missing = Missing
    Saved = Saved
    Moved = Moved
    Saves = {"whole", "inplace", "backup"}
    Revokes = TRUE
    Fails = TRUE
    MaxSaves = 2
    MaxEdits = 1
INVARIANT TypeOK
INVARIANT QuiescentMeansApplied
INVARIANT BaselineIsApplied
INVARIANT StaleScopeHasEvent
INVARIANT OnlyGrantedAreVersioned
PROPERTY ReloadCompletes
CHECK_DEADLOCK FALSE
