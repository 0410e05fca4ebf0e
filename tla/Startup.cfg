SPECIFICATION Spec
CONSTANTS
    Source <- Wide
    File <- Files
    Dir <- Tree
    Vanish <- Only
    Ino = {i1, i2}
    Changes = {"put", "delete", "edit"}
    Revokes = TRUE
    Races = TRUE
    MaxSaves = 2
    MaxChanges = 2
    MaxBoots = 3
    MaxCrashes = 1
    NoFile = NoFile
    NoSnapshot = NoSnapshot
SYMMETRY InoSymmetry
INVARIANT TypeOK
INVARIANT UpMeansApplied
INVARIANT UpMeansVersioned
INVARIANT DroppedIsReconciled
CHECK_DEADLOCK FALSE
