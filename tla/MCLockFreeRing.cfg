CONSTANTS
    Producers = {p1, p2}
    Consumers = {c1, c2}
    Items   = {x, y}
    Empty   = Empty
    MinCapacity = 2
    Cap     <- MCCap
    Lag     = 1
    MaxPush = 3
SPECIFICATION RingSpec
INVARIANTS RingTypeOK OwnsCellAlone Bounded DeliversInOrder ReleasesItems
PROPERTY RefusesTruthfully
SYMMETRY Symmetry
