\* One replica under fairness: suppression, what a successful tick means, and that what is due is served.
SPECIFICATION FairSpec
CONSTANTS
    hydra = hydra
    tankEnd = tankEnd
    chimera = chimera
    Reminder = {hydra, tankEnd, chimera}
    Reminders <- MCReminders
    Replica = {p1}
    Name = {n1}
    Schedule <- MCSchedule
    Occurs <- MCOccurs
    LastDate = 0
    LastTime = 1
    MaxId = 1
    NoRow = NoRow
    NoSlot = NoSlot
    WeekdayOf <- MCWeekdayOf
    CondDates <- MCCondDates
    MaxFaults = 2
INVARIANTS
    IInv
    ReplacedNeverClaimed
PROPERTIES
    SuccessMeansServed
    DueIsServed
