SPECIFICATION Spec
CONSTANTS
    w1 = w1
    Recorders = {w1}
    b1 = b1
    BoxRuns = {b1}
    a1 = a1
    ActionsRuns = {a1}
    c1 = c1
    Checkers = {c1}
    NoRow = NoRow
    NoCutoff = NoCutoff
    LastTick = 6
    Weekdays <- AllButSecond
    DayLen = 3
    AnchorAt = 1
    LateAfter = 0
    MissAfter = 1
    Lookback = 4
INVARIANTS
    TypeOK
    DbIsBackedByDisk
    
PROPERTIES
    LogOnlyGrows
CHECK_DEADLOCK FALSE
