CONSTANTS
    Threads   = {t1, t2, t3}
    Accounts  = {1, 2, 3}
    Amounts   <- MCAmounts
    MaxFunds  = 0
    NaN       = NaN
    Workloads <- MCWorkloads
    Start     <- MCStart
    Symbols   <- MCSymbols
SPECIFICATION RiskSpec
INVARIANTS NoDoubleSpend Serializable
PROPERTY EveryOrderAnswered
CHECK_DEADLOCK FALSE
