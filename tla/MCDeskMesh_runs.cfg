SPECIFICATION Spec
CONSTANTS
    intel = intel
    research = research
    r1 = r1
    r2 = r2
    Runs = {r1, r2}
    Order <- TwoDesks
    Ops = Ops
    f1 = f1
    f2 = f2
    Fixtures = {f1, f2}
    Listening = TRUE
    MayFail = TRUE
    NoRow = NoRow
SYMMETRY MeshSymmetry
INVARIANTS
    TypeOK
    OneRowPerEnvelope
    MeshShowsTheStore
CHECK_DEADLOCK FALSE
