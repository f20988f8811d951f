SPECIFICATION FairSpec
CONSTANTS
    Events = {e1, e2}
    Workers = {w1, w2}
    MaxAttempts = 2
    MaxReceives = 2
    BatchSize = 2
    Invalid = {e2}
    Drifting = {e1}
    Faults = {"transient", "permanent", "queue", "worker"}
INVARIANTS
    EffectAtMostOnce
    NoEventIsLost
PROPERTIES
    QueueDrains
CHECK_DEADLOCK FALSE
