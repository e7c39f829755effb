SPECIFICATION FairSpec
CONSTANTS
    intel = intel
    research = research
    r1 = r1
    r2 = r2
    Runs = {r1, r2}
    Order <- TwoDesks
    Ops = Ops
    f1 = f1
    Fixtures = {f1}
    Listening = FALSE
    MayFail = TRUE
    NoRow = NoRow
PROPERTIES
    EveryRunEnds
CHECK_DEADLOCK FALSE
