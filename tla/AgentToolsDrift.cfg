SPECIFICATION Spec
CONSTANTS
    a1 = a1
    a2 = a2
    Agent = {a1}
    Path = {p}
    Scope = {p}
    Text = {0, 1, 2, 4}
    None = None
    MaxCalls = 3
    MaxEdits = 2
INVARIANT TypeOK
INVARIANT GrantsFollowSuccess
INVARIANT OneLabelPerHint
PROPERTY AcceptedMeansSeen
CHECK_DEADLOCK FALSE
