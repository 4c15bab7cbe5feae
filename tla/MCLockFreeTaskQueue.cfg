CONSTANTS
    Producers = {p1}
    Consumers = {c1, c2}
    Items   = {x, y}
    Empty   = Empty
    Free    = Free
    Cap     = 2
    Lag     = 0
    MaxPush = 3
    Spins   = 1
    MaxSpinners = 1
SPECIFICATION QueueSpec
INVARIANTS CountsAreExact NoLostWakeup
PROPERTY IsJobQueue
SYMMETRY Symmetry
CHECK_DEADLOCK FALSE
