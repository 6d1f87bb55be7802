\* Entities, messages and an agent, up to two of them, over a restart of the hub.
CONSTANTS
    h = h
    i = i
    p = p
    m = m
    n = n
    Agent = Agent
    None = None
    Own = Own
    Default = Default
    Nowhere = Nowhere
    HandoffIds = {h}
    InterruptIds = {i}
    PermissionIds = {p}
    Messages = {m, n}
    Casts <- MCCasts
    HistoryLimit = 3
    UiQueueMax = 2
    RotationLines = 3
    AgentQueueMax = 1
    DomLimit = 2
    MaxLives = 2
    MaxMoves = 2
    MaxDrops = 1
    MaxCuts = 1
SPECIFICATION Spec
CONSTRAINT MCCrossings
CHECK_DEADLOCK FALSE
INVARIANTS
    DeliveryTypeOK
    CardsInPage
    CardsAgree
    PendingShown
    ChatShown
    LegendHonest
    RetryDue
    PendingTold
    BriefedOnPeers
PROPERTIES
    ToldForward
