\* An agent and the human, three connections, a queue of two entries.
SPECIFICATION Spec
CONSTANTS
    Names = {a, human}
    Permanent = {human}
    Streams = {s1, s2, s3}
    QueueMax = 2
    Unset = unset
    MaxLives = 2
    MaxEntries = 4
SYMMETRY StreamSymmetry
INVARIANTS
    RegistryTypeOK
    PresenceHonest
    ConnectedIsServed
    DeliveredInOrder
    NoLostWakeup
PROPERTIES
    LostOnlyByOverflowOrRemoval
\* Every connection may be closed, every counter at its bound.
CHECK_DEADLOCK FALSE
