SPECIFICATION Spec
CONSTANTS
    a1 = a1
    a2 = a2
    Agent = {a1, a2}
    Path = {p, q}
    Scope = {p}
    Text = {0, 1, 4}
    None = None
    MaxCalls = 2
    MaxEdits = 1
SYMMETRY AgentSymmetry
INVARIANT TypeOK
INVARIANT GrantsFollowSuccess
INVARIANT OneLabelPerHint
PROPERTY AcceptedMeansSeen
CHECK_DEADLOCK FALSE
