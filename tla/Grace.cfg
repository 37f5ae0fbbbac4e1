\* Two processes of the bot; a member who joins, and one whom an earlier process
\* tracked and Discord may never return.
SPECIFICATION FairSpec
CONSTANTS
    Member = {m1, m2}
    Replica = {p1, p2}
    Earlier = {m1}
    Unfetchable = {m1}
    NoRow = NoRow
    NoJob = NoJob
    Window = 1
    MaxTime = 1
    MaxStays = 2
    MaxFaults = 1
INVARIANTS
    RowTellsTheStay
PROPERTIES
    KickIsDeserved
    StaleIsHandled
\* Once the task of the sweep has died, the bot may have nothing left to do.
CHECK_DEADLOCK FALSE
