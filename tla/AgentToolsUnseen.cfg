SPECIFICATION Spec
CONSTANTS
    a1 = a1
    a2 = a2
    Agent = {a1}
    Path = {p}
    Scope = {p}
    Text = {0, 1, 4}
    None = None
    MaxCalls = 2
    MaxEdits = 1
PROPERTY CheckedWriteSeesEdits
CHECK_DEADLOCK FALSE
