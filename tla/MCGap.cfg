SPECIFICATION Spec
CONSTANTS
    Block = 2
    Batch = 2
    Threshold = 2
    RotateAt = 20
    Replies = {"bullets"}
    MaxLines = 8
    MaxClears = 1
    MaxCrashes = 0
INVARIANTS
    NoGap
CHECK_DEADLOCK FALSE
