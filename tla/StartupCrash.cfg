SPECIFICATION Spec
CONSTANTS
    Source <- Files
    File <- Files
    Dir <- Tree
    Vanish <- None
    Ino = {i1, i2}
    Changes = {}
    Revokes = TRUE
    Races = FALSE
    MaxSaves = 1
    MaxChanges = 0
    MaxBoots = 3
    MaxCrashes = 1
    NoFile = NoFile
    NoSnapshot = NoSnapshot
INVARIANT MirrorMatchesStatus
CHECK_DEADLOCK FALSE
