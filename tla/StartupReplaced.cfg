SPECIFICATION Spec
CONSTANTS
    Source <- Files
    File <- Files
    Dir <- Tree
    Vanish <- None
    Ino = {i1, i2}
    Changes = {"put"}
    Revokes = TRUE
    Races = FALSE
    MaxSaves = 0
    MaxChanges = 1
    MaxBoots = 2
    MaxCrashes = 0
    NoFile = NoFile
    NoSnapshot = NoSnapshot
PROPERTY NoSpuriousRemovals
CHECK_DEADLOCK FALSE
