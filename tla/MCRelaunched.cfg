\* A session that is launched while the close mark's timer still runs.
CONSTANTS
    None = None
    MaxSessions = 2
    MaxClients = 2
    MaxFlows = 2
    MaxScans = 1
    MaxActs = 3
    Scenes <- MCScenes
SPECIFICATION Spec
CHECK_DEADLOCK FALSE
INVARIANTS
    KillsWhatWasConfirmed
