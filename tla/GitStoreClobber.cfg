SPECIFICATION Spec
CONSTANTS
    Proc = {d, c}
    Daemon = d
    Free = free
    Path = {p, q}
    Blob = {x, y}
    Absent = absent
    Subtree <- MCSubtree
    Faults = {}
    MaxOps = 4
    MaxFaults = 0
PROPERTIES CheckedWriteNeverClobbers
