\* A session that ends before the listener of its end is registered.
CONSTANTS
    None = None
    MaxSessions = 2
    MaxClients = 2
    MaxFlows = 2
    MaxScans = 1
    MaxActs = 3
    Scenes <- MCScenes
SPECIFICATION Spec
CHECK_DEADLOCK FALSE
INVARIANTS
    NoDeadTabs
