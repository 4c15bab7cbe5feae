CONSTANTS
    Threads  = {t1, t2, t3}
    Accounts = {a1}
    Amounts  = {1, 2}
    MaxFunds = 2
    NaN      = NaN
SPECIFICATION Spec
INVARIANTS TypeOK Conserved NoOverspend
PROPERTY AtomicLedger
SYMMETRY Symmetry
