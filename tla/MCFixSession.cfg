CONSTANTS
    NaN       = NaN
    Weight    <- MCWeight
    Width     = 8
    QtyWidth  = 6
    Scripts   <- MCScripts
    Noise     <- MCNoise
    Workers   = 2
    Reasons   <- MCReasons
SPECIFICATION FixSpec
INVARIANTS FramingExact AnsweredAsSent NoOrderFromDamage RepliesWellFormed
CHECK_DEADLOCK FALSE
