\* One name of the terminal pane, with the composer.
CONSTANTS
    None = None
    MaxSessions = 2
    MaxClients = 2
    MaxFlows = 2
    MaxScans = 1
    MaxActs = 3
    Scenes <- MCScenes
SPECIFICATION Spec
CHECK_DEADLOCK FALSE
INVARIANTS
    DesktopTypeOK
    OneClient
    LaunchesEnd
    PictureShown
    ConfirmedOnly
    PostedOnce
