SPECIFICATION Spec
CONSTANTS
    r1 = r1
    r2 = r2
    r3 = r3
    Runs = {r1, r2, r3}
    Anchors = {1, 2}
    perp = perp
    equity = equity
    Names = {perp, equity}
INVARIANTS
    TypeOK
    CaptureIsTrue
CHECK_DEADLOCK FALSE
SYMMETRY Symmetry
