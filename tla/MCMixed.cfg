\* Two interrupts and a permission in one log, or two handoffs left to the
\* sweep, with a crash, under the fairness of the event loop.
SPECIFICATION FairSpec
CONSTANTS
    r1 = r1
    r2 = r2
    h1 = h1
    h2 = h2
    i1 = i1
    i2 = i2
    Agents = {a}
    Human = human
    System = system
    Rooms = {r1}
    DefaultRoom = r1
    EveryRoom = everyRoom
    Absent = absent
    None = none
    Unspecified = unspecified
    HandoffIds = {h1, h2}
    InterruptIds = {i1, i2}
    PermissionIds = {p}
    Proposed = {none}
    TTLs = {1}
    MaxTime = 2
    MaxCrashes = 1
CONSTRAINT MixingOrSweeping
INVARIANTS
    ClosedByEntitled
PROPERTIES
    ImplementsEventLog
    ResolvedOnce
    OverdueIsResolved
\* Every entity may be resolved, every clock and counter at its bound.
CHECK_DEADLOCK FALSE
