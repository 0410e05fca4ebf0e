SPECIFICATION Spec
CONSTANTS
    Source <- Files
    File <- Files
    Dir <- Tree
    Vanish <- None
    Ino = {i1, i2}
    Changes = {}
    Revokes = FALSE
    Races = TRUE
    MaxSaves = 1
    MaxChanges = 0
    MaxBoots = 2
    MaxCrashes = 0
    NoFile = NoFile
    NoSnapshot = NoSnapshot
INVARIANT BaselineIsApplied
CHECK_DEADLOCK FALSE
