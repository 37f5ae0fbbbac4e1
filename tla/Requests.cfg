\* A request of siege-web, a guild that changes, failures and a shutdown.
SPECIFICATION FairSpec
CONSTANTS
    Request = {q1}
    Member = {m1, m2}
    Channel = {ch}
    Name = {n1, n2}
    m1 = m1
    m2 = m2
    ch = ch
    n1 = n1
    n2 = n2
    Gone = Gone
    Nothing = Nothing
    Asked <- MCAsked
    MaxFaults = 3
INVARIANTS
    AnswerTellsDelivery
    LookupsAreTrue
PROPERTIES
    AcceptedIsAnswered
\* Every request may be done.
CHECK_DEADLOCK FALSE
