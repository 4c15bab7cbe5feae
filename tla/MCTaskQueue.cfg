CONSTANTS
    Producers = {p1, p2}
    Workers   = {w1, w2}
    Items     = {x, y}
    NoItem    = NoItem
    Capacity  = 2
    MaxPush   = 4
SPECIFICATION FairSpec
INVARIANT NobodySleepsInVain
PROPERTIES IsJobQueue ShutdownReleasesAll
CHECK_DEADLOCK FALSE
