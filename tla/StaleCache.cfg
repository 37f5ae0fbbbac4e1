\* A swap decided before the gateway has confirmed the first role.
SPECIFICATION Spec
CONSTANTS
    Replica = {p1}
    Call = {c1, c2, c3}
    Day = {d1, d2}
    Seeded = {d1, d2}
    NoDay = NoDay
    NoRow = NoRow
    NoBody = NoBody
    MaxStamp = 3
    MaxFaults = 0
INVARIANTS
    SwapLeavesOneRole
CHECK_DEADLOCK FALSE
