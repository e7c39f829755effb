SPECIFICATION FairSpec
CONSTANTS
    r1 = r1
    r2 = r2
    NoRun = NoRun
    main = main
    Branches = {main}
    MainBranch = main
    r3 = r3
    Runs = {r1, r2, r3}
    LastDay = 1
    Weekdays <- AllDays
    Chunks = 2
    MaxAttempts = 1
    MaxPush = 1
    MaxReruns = 0
PROPERTIES
    KeepsPromise
    EveryFireSettles
CHECK_DEADLOCK FALSE
