CONSTANTS
    NoJob      = NoJob
    main       = main
    aux        = aux
    Submitters = {main, aux}
    Owner      = main
    Workers    = {w1, w2}
    Capacity   = 2
    Programs   <- MCPrograms
    Kinds      = {"steady", "burst"}
SPECIFICATION BenchSpec
INVARIANTS JobsOwnedOnce DrainedOnReturn SlotsExclusive SamplesComplete
PROPERTIES IsJobQueue FutureResolves ShutdownReturns
CHECK_DEADLOCK FALSE
