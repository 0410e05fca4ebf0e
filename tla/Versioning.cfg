SPECIFICATION Spec
CONSTANTS
    na = na
    nb = nb
    nc = nc
    nd = nd
    ne = ne
    ns = ns
    nt = nt
    nx = nx
    i1 = i1
    i2 = i2
    i3 = i3
    Source <- MCSource
    Dir <- MCDir
    Folder <- MCFolder
    File <- MCFile
    Start <- MCStart
    Ino = {i1, i2, i3}
    Content = {0, 1, 2}
    None = None
    MaxOps = 3
SYMMETRY InoSymmetry
INVARIANT TypeOK
INVARIANT HistoryMatchesDisk
INVARIANT RowsFollowFiles
CHECK_DEADLOCK FALSE
