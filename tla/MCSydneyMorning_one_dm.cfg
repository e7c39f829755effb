SPECIFICATION Spec
CONSTANTS
    r1 = r1
    r2 = r2
    Runs = {r1, r2}
    NoRun = NoRun
    main = main
    Branches = {main}
    MainBranch = main
    LastDay = 1
    Weekdays <- AllDays
    Chunks = 1
    MaxAttempts = 1
    MaxPush = 1
    MaxReruns = 0
INVARIANTS
    OneDmPerDay
CHECK_DEADLOCK FALSE
