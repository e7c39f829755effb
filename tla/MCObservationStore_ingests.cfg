SPECIFICATION Spec
CONSTANTS
    i1 = i1
    i2 = i2
    i3 = i3
    Sessions = {i1, i2, i3}
    slot = slot
    Slots = {slot}
    v1 = v1
    v2 = v2
    Values = {v1, v2}
    NoValue = NoValue
    p1 = p1
    Payloads = {p1}
    NoBytes = NoBytes
    NoKey = NoKey
    DayLen = 1
    MaxClock = 1
    MaxBatch = 2
SYMMETRY StoreSymmetry
INVARIANTS
    TypeOK
    OneRowPerClaim
    

    
CHECK_DEADLOCK FALSE
