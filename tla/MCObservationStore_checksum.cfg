SPECIFICATION Spec
CONSTANTS
    i1 = i1
    Sessions = {i1}
    slot = slot
    Slots = {slot}
    v1 = v1
    v2 = v2
    Values = {v1, v2}
    NoValue = NoValue
    p1 = p1
    p2 = p2
    Payloads = {p1, p2}
    NoBytes = NoBytes
    NoKey = NoKey
    DayLen = 1
    MaxClock = 1
    MaxBatch = 2
INVARIANTS
    ChecksumMatches
CHECK_DEADLOCK FALSE
