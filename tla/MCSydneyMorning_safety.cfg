SPECIFICATION Spec
CONSTANTS
    r1 = r1
    r2 = r2
    NoRun = NoRun
    main = main
    Branches = {main}
    MainBranch = main
    Runs = {r1, r2}
    LastDay = 2
    Weekdays <- AllButLast
    Chunks = 1
    MaxAttempts = 2
    MaxPush = 2
    MaxReruns = 1
SYMMETRY RunSymmetry
INVARIANTS
    TypeOK
    ReceiptMeansDelivered
    SentOnlyAfterDurableStamp
    GreenIsDurable
    SuccessPingMeansDelivered
    CleanDmMeansTimerStarted
PROPERTIES
    NoDmAfterReceipt
CHECK_DEADLOCK FALSE
