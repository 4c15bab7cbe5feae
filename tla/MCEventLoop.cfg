CONSTANTS
    k1 = k1
    k2 = k2
    m1 = m1
    m2 = m2
    m3 = m3
    Clients   = {k1, k2}
    Workers   = {w1, w2}
    Loop      = Loop
    Fds       = {1, 2}
    Messages  = {m1, m2, m3}
    NoMessage = NoMessage
    Nobody    = Nobody
    Script    <- MCScript
    MaxSignals = 1
SPECIFICATION ServerSpec
INVARIANTS ClosesOnlyItsOwn ClosesNoOther RoutesOpenSockets CleanExit
SYMMETRY Symmetry
CHECK_DEADLOCK FALSE
