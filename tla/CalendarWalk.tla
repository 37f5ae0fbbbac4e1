------------------------------ MODULE CalendarWalk ------------------------------
(***************************************************************************)
(* A reference for Calendar: a walk from day to day that counts weekdays,  *)
(* the Tuesdays of a month and the days since an announcement with steps   *)
(* of one, and asks Calendar what the scheduler would keep on each day.    *)
(***************************************************************************)
EXTENDS Calendar

CONSTANTS
    Start,      \* the first day
    Anchors,    \* the anchor dates of a member notification
    MaxDays     \* bound: the length of the walk

ASSUME WalkAssumption ==
    /\ MaxDays \in Nat
    /\ Start \in Dates /\ Start.day = 1
    /\ \A a \in Anchors : a \in Dates /\ toordinal(a) >= toordinal(Start)

VARIABLES
    today, days,       \* the day, and how many have passed
    weekday,           \* counted from the first
    tuesdays,          \* of this month, so far
    sinceHeadsup,      \* days since the scheduler last kept the tank-week heads-up,
    since48, since24,  \* the siege heads-ups, today not counted
    sinceStart,        \* days since a siege last started
    anchor, cadence,   \* a member notification
    occurred,          \* its occurrences in this month, so far
    sinceOccurred      \* days since the last one before today

walkVars == <<today, days, weekday, tuesdays, sinceHeadsup, since48, since24, sinceStart,
          anchor, cadence, occurred, sinceOccurred>>

Long == MaxDays + 1

KeptNow(name, date) == \E row \in Seed : row.name = name /\ Kept(row, date)

Occurs(date) == is_occurrence_date(anchor, cadence, date)

WalkInit ==
    /\ today = Start /\ days = 0
    /\ weekday = Weekday(Start)
    /\ tuesdays = IF weekday = 1 THEN 1 ELSE 0
    /\ sinceHeadsup = Long /\ since48 = Long /\ since24 = Long
    /\ sinceStart = Long /\ sinceOccurred = Long
    /\ anchor \in Anchors /\ cadence \in Cadence
    /\ occurred = IF Occurs(Start) THEN 1 ELSE 0

Tomorrow == Plus(today, 1)

Since(age, now) == IF now THEN 1 ELSE IF age = Long THEN Long ELSE age + 1

Tally(n, now) == (IF Tomorrow.day = 1 THEN 0 ELSE n) + (IF now THEN 1 ELSE 0)

NextDay ==
    /\ days < MaxDays
    /\ today' = Tomorrow /\ days' = days + 1
    /\ weekday' = (weekday + 1) % 7
    /\ tuesdays' = Tally(tuesdays, weekday' = 1)
    /\ sinceHeadsup' = Since(sinceHeadsup, KeptNow("Hydra Tank Week Heads-up", today))
    /\ since48' = Since(since48, KeptNow("Siege 48h Heads-up", today))
    /\ since24' = Since(since24, KeptNow("Siege 24h Heads-up", today))
    /\ sinceStart' = Since(sinceStart, is_siege_start_date(today))
    /\ occurred' = Tally(occurred, Occurs(Tomorrow))
    /\ sinceOccurred' = Since(sinceOccurred, Occurs(today))
    /\ UNCHANGED <<anchor, cadence>>

WalkSpec == WalkInit /\ [][NextDay]_walkVars

--------------------------------------------------------------------------------
\* Tank week ends on the first Tuesday of every month and on no other day, and
\* the scheduler keeps the heads-up a week before each end, across months and
\* years, and before nothing else.
TankWeekAnnounced ==
    /\ KeptNow("Hydra Tank Week End", today) <=> weekday = 1 /\ tuesdays = 1
    /\ days >= 7 => (sinceHeadsup = 7 <=> is_end_of_tank_date(today))

\* A siege starts every fourteen days, and the scheduler keeps its two rows
\* (their weekdays included) two days and one day before each start, and on no
\* other day.
SiegeAnnounced ==
    /\ today = SIEGE_ANCHOR_DATE => is_siege_start_date(today)
    /\ sinceStart # Long => (sinceStart = 14 <=> is_siege_start_date(today))
    /\ days >= 2 => (since48 = 2 <=> is_siege_start_date(today))
    /\ days >= 1 => (since24 = 1 <=> is_siege_start_date(today))

\* Every event of the game is announced on its days and on no others.
EventsAnnounced == TankWeekAnnounced /\ SiegeAnnounced

\* A notification occurs on its anchor date first; weekly and biweekly ones
\* then every seven or fourteen days, a monthly one once in each month, short
\* months included.
OccursRegularly ==
    LET period == IF cadence = "weekly" THEN 7 ELSE 14
    IN /\ toordinal(today) < toordinal(anchor) => ~Occurs(today)
       /\ today = anchor => Occurs(today)
       /\ toordinal(today) > toordinal(anchor) /\ cadence # "monthly" =>
            (Occurs(today) <=> sinceOccurred = period)
       /\ today.day = monthrange(today.year, today.month) /\ cadence = "monthly" =>
            occurred = IF EarlierMonth(today, anchor) THEN 0 ELSE 1
================================================================================
