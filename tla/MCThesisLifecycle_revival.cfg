SPECIFICATION Spec
CONSTANTS
    p1 = p1
    t1 = t1
    NoFile = NoFile
    NoRow = NoRow
    Procs = {p1}
    Trades = {t1}
    MayDie = FALSE
PROPERTY RejectedStays
