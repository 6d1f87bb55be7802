\* Blocks of two lines, rollups of two blocks; rotation, clearing and a crash.
SPECIFICATION FairSpec
CONSTANTS
    Block = 2
    Batch = 2
    Threshold = 2
    RotateAt = 7
    Replies = {"bullets", "empty", "fails"}
    MaxLines = 8
    MaxClears = 1
    MaxCrashes = 1
INVARIANTS
    SummaryTypeOK
    BlocksTile
    RolledIntoItsRollup
    GivesUp
PROPERTIES
    StaysShown
    CursorOnlyAdvances
    EveryRunEnds
\* The lines of the model run out.
CHECK_DEADLOCK FALSE
