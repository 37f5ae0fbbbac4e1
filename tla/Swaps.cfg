\* One replica: three deliveries of changes and repeats, one fault.
SPECIFICATION FairSpec
CONSTANTS
    Replica = {p1}
    Call = {c1, c2, c3}
    Day = {d1, d2}
    Seeded = {d1, d2}
    NoDay = NoDay
    NoRow = NoRow
    NoBody = NoBody
    MaxStamp = 3
    MaxFaults = 1
INVARIANTS
    RolesInv
    RowMatchesRoles
    LatestAssignmentStands
PROPERTIES
    NeverBackInTime
    EveryCallAnswered
CHECK_DEADLOCK FALSE
