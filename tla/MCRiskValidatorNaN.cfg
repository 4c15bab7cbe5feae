CONSTANTS
    Threads   = {t1, t2}
    Accounts  = {1, 2, 3}
    Amounts   <- NaNAmounts
    MaxFunds  = 0
    NaN       = NaN
    Workloads <- NaNWorkloads
    Start     <- MCStart
    Symbols   <- MCSymbols
SPECIFICATION RiskSpec
INVARIANT NoDoubleSpend
CHECK_DEADLOCK FALSE
