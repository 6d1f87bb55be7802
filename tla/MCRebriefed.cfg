\* A sidecar whose connection breaks while the hub lives.
CONSTANTS
    h = h
    i = i
    p = p
    m = m
    n = n
    Agent = Agent
    None = None
    Own = Own
    Default = Default
    Nowhere = Nowhere
    HandoffIds = {h}
    InterruptIds = {i}
    PermissionIds = {p}
    Messages = {m, n}
    Casts <- MCHandoffCast
    HistoryLimit = 3
    UiQueueMax = 2
    RotationLines = 3
    AgentQueueMax = 1
    DomLimit = 2
    MaxLives = 2
    MaxMoves = 2
    MaxDrops = 1
    MaxCuts = 1
SPECIFICATION Spec
CHECK_DEADLOCK FALSE
INVARIANT BriefedOnce
