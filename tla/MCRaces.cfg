\* Two handoffs that race with the sweep and a crash, or that edit nutshells.
SPECIFICATION Spec
CONSTANTS
    r1 = r1
    r2 = r2
    h1 = h1
    h2 = h2
    i1 = i1
    i2 = i2
    Agents = {a}
    Human = human
    System = system
    Rooms = {r1, r2}
    DefaultRoom = r1
    EveryRoom = everyRoom
    Absent = absent
    None = none
    Unspecified = unspecified
    HandoffIds = {h1, h2}
    InterruptIds = {}
    PermissionIds = {}
    Proposed = {none, r1, r2, unspecified}
    TTLs = {1}
    MaxTime = 2
    MaxCrashes = 1
SYMMETRY IdSymmetry
CONSTRAINT RacingOrEditing
INVARIANTS
    TypeOK
    TablesMatchLog
    ClosedByEntitled
    ReconciliationIsSound
    AnnouncedUnlessCrashed
    NutshellIsLastEdit
    NutshellStaysInRoom
\* Every entity may be resolved, every clock and counter at its bound.
CHECK_DEADLOCK FALSE
