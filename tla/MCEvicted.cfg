\* An agent removed while it is connected, which registers and connects again.
SPECIFICATION Spec
CONSTANTS
    Names = {a}
    Permanent = {}
    Streams = {s1, s2}
    QueueMax = 1
    Unset = unset
    MaxLives = 2
    MaxEntries = 1
SYMMETRY StreamSymmetry
INVARIANTS
    ExpiresOnlyDisconnected
\* Every connection may be closed, every counter at its bound.
CHECK_DEADLOCK FALSE
