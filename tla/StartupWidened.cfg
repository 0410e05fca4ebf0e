SPECIFICATION Spec
CONSTANTS
    Source <- Wide
    File <- Files
    Dir <- Tree
    Vanish <- None
    Ino = {i1, i2}
    Changes = {}
    Revokes = TRUE
    Races = FALSE
    MaxSaves = 2
    MaxChanges = 0
    MaxBoots = 3
    MaxCrashes = 0
    NoFile = NoFile
    NoSnapshot = NoSnapshot
INVARIANT MirrorMatchesStatus
CHECK_DEADLOCK FALSE
