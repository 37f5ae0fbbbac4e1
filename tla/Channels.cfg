\* Two overlapping replicas deliver the channel reminders.
SPECIFICATION Spec
CONSTANTS
    hydra = hydra
    tankEnd = tankEnd
    chimera = chimera
    Reminder = {tankEnd, chimera}
    Reminders <- MCReminders
    Replica = {p1, p2}
    Name = {}
    Schedule <- MCSchedule
    Occurs <- MCOccurs
    LastDate = 1
    LastTime = 1
    MaxId = 0
    NoRow = NoRow
    NoSlot = NoSlot
    WeekdayOf <- MCWeekdayOf
    CondDates <- MCCondDates
    MaxFaults = 2
SYMMETRY ReplicaSymmetry
INVARIANTS
    DuplicateNeedsLostReply
    NoSilentDrop
PROPERTIES
    PostedWhenDue
    ImplementsSlots
