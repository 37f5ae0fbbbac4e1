\* Two processes, the commands of two officers, and a member who joins.
SPECIFICATION Spec
CONSTANTS
    Replica = {p1, p2}
    Call = {c1, c2}
    Officer = {o1, o2}
    Title = {t1}
    Body = {b1, b2}
    o1 = o1
    o2 = o2
    t1 = t1
    b1 = b1
    b2 = b2
    NoRow = NoRow
    Nobody = Nobody
    ListLimit = 0
    Asked <- MCAsked
    MaxFaults = 1
SYMMETRY MCSymmetry
INVARIANTS
    AnswersAreTrue
    OffMeansNoAlert
    OnMeansAlert
PROPERTIES
    ChangesAreAskedOnce
\* The interactions are spent.
CHECK_DEADLOCK FALSE
