SPECIFICATION Spec
CONSTANTS
    Source <- Grants
    File <- Files
    Dir <- Tree
    Vanish <- Only
    Ino = {i1, i2}
    Changes = {}
    Revokes = TRUE
    Races = FALSE
    MaxSaves = 1
    MaxChanges = 1
    MaxBoots = 2
    MaxCrashes = 0
    NoFile = NoFile
    NoSnapshot = NoSnapshot
INVARIANT DroppedAreRemoved
CHECK_DEADLOCK FALSE
