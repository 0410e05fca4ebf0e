SPECIFICATION Spec
CONSTANTS
    Proc = {d, c}
    Daemon = d
    Free = free
    Path = {p, q}
    Blob = {x, y}
    Absent = absent
    Subtree <- MCSubtree
    Faults = {"exit", "stalelock", "kill"}
    MaxOps = 3
    MaxFaults = 3
PROPERTIES BootClearsLeftover
