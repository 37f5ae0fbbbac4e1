\* Three releases, two channels, every order of deployment and first boot.
SPECIFICATION FairSpec
CONSTANTS
    Target = {t1, t2}
    Nowhere = Nowhere
    NoRow = NoRow
    MaxDeploys = 4
    MaxFaults = 3
INVARIANTS
    RowsBelongTogether
    ReleaseIsComplete
PROPERTIES
    ServesAgain
\* Every deployment may be done.
CHECK_DEADLOCK FALSE
