CONSTANTS
    Producers = {p1, p2}
    Consumers = {c1}
    Items   = {x}
    Empty   = Empty
    Free    = Free
    Cap     = 2
    Lag     = 0
    MaxPush = 2
    Spins   = 2
    MaxSpinners = 1
SPECIFICATION FairQueueSpec
PROPERTIES AcceptedIsTaken ShutdownCompletes
CHECK_DEADLOCK FALSE
