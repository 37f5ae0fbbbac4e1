-------------------------------- MODULE Calendar --------------------------------
(***************************************************************************)
(* reminders/calendar.py: the dates of tank week and siege, with the rows  *)
(* of reminders/seed.py that depend on them; member_notifications/         *)
(* schedule.py: the occurrence dates of a member notification.  A date is  *)
(* a record, as datetime.date is; weekdays count from Monday, 0.           *)
(***************************************************************************)
EXTENDS Integers

--------------------------------------------------------------------------------
(* What the code takes from Python's datetime and calendar.                *)

Date(y, m, d) == [year |-> y, month |-> m, day |-> d]

IsLeap(y) == y % 4 = 0 /\ (y % 100 # 0 \/ y % 400 = 0)

monthrange(y, m) ==
    CASE m = 2 -> IF IsLeap(y) THEN 29 ELSE 28
      [] m \in {4, 6, 9, 11} -> 30
      [] OTHER -> 31

\* The dates from the year 1 on.
Dates == {d \in [year : Nat \ {0}, month : 1 .. 12, day : 1 .. 31] :
            d.day <= monthrange(d.year, d.month)}

DaysBeforeMonth(y, m) ==
    LET common == <<0, 31, 59, 90, 120, 151, 181, 212, 243, 273, 304, 334>>
    IN common[m] + (IF m > 2 /\ IsLeap(y) THEN 1 ELSE 0)

toordinal(d) ==
    LET y == d.year - 1
    IN 365 * y + (y \div 4) - (y \div 100) + (y \div 400)
         + DaysBeforeMonth(d.year, d.month) + d.day

Weekday(d) == (toordinal(d) + 6) % 7

\* today + timedelta(days=n), for an n no longer than a month.
Plus(d, n) ==
    LET last == monthrange(d.year, d.month)
    IN CASE d.day + n <= last -> Date(d.year, d.month, d.day + n)
         [] d.day + n > last /\ d.month < 12 -> Date(d.year, d.month + 1, d.day + n - last)
         [] OTHER -> Date(d.year + 1, 1, d.day + n - last)

--------------------------------------------------------------------------------
(* Tank week.                                                              *)

\* Mutant of tank_week_ending_tuesday: a first that is a Tuesday is passed over.
SecondTuesday(y, m) ==
    Date(y, m, 1 + IF Weekday(Date(y, m, 1)) = 1 THEN 7 ELSE ((1 - Weekday(Date(y, m, 1))) % 7))

tank_week_ending_tuesday(y, m) == Date(y, m, 1 + ((1 - Weekday(Date(y, m, 1))) % 7))

is_end_of_tank_date(today) ==
    Weekday(today) = 1 /\ today = tank_week_ending_tuesday(today.year, today.month)

\* Mutant of is_tank_week_headsup_date: the ending Tuesday is looked for in
\* the month of today.
HeadsupOfThisMonth(today) ==
    /\ Weekday(today) = 1
    /\ toordinal(today) = toordinal(tank_week_ending_tuesday(today.year, today.month)) - 7

is_tank_week_headsup_date(today) ==
    LET candidate == Plus(today, 7)
    IN /\ Weekday(today) = 1
       /\ toordinal(today) =
            toordinal(tank_week_ending_tuesday(candidate.year, candidate.month)) - 7

--------------------------------------------------------------------------------
(* Siege.                                                                  *)

SIEGE_ANCHOR_DATE == Date(2026, 7, 21)

SIEGE_PERIOD_DAYS == 14

SiegeOffset(today) == (toordinal(today) - toordinal(SIEGE_ANCHOR_DATE)) % SIEGE_PERIOD_DAYS

is_siege_start_date(today) == SiegeOffset(today) = 0

is_siege_48h_headsup_date(today) == SiegeOffset(today) = 12

\* Mutant of is_siege_24h_headsup_date: a day late.
SiegeHeadsupLate(today) == SiegeOffset(today) = 0

is_siege_24h_headsup_date(today) == SiegeOffset(today) = 13

--------------------------------------------------------------------------------
(* The rows of the seed, and the filter of the scheduler.                  *)

Row(name, weekday, condition) ==
    [name |-> name, weekday |-> weekday, month_condition |-> condition]

\* Mutant of Seed: the siege rows are seeded with each other's weekday.
SeedSwapped ==
    {Row("Hydra", 1, "none"), Row("Chimera", 2, "none"),
     Row("Hydra Tank Week Heads-up", 1, "tank_week_headsup"),
     Row("Hydra Tank Week End", 1, "tank_week_end"),
     Row("Siege 48h Heads-up", 0, "siege_48h_headsup"),
     Row("Siege 24h Heads-up", 6, "siege_24h_headsup")}

Seed ==
    {Row("Hydra", 1, "none"), Row("Chimera", 2, "none"),
     Row("Hydra Tank Week Heads-up", 1, "tank_week_headsup"),
     Row("Hydra Tank Week End", 1, "tank_week_end"),
     Row("Siege 48h Heads-up", 6, "siege_48h_headsup"),
     Row("Siege 24h Heads-up", 0, "siege_24h_headsup")}

Holds(condition, today) ==
    CASE condition = "none" -> TRUE
      [] condition = "tank_week_headsup" -> is_tank_week_headsup_date(today)
      [] condition = "tank_week_end" -> is_end_of_tank_date(today)
      [] condition = "siege_48h_headsup" -> is_siege_48h_headsup_date(today)
      [] condition = "siege_24h_headsup" -> is_siege_24h_headsup_date(today)
      [] OTHER -> FALSE

\* What the scheduler keeps on a date: the row's weekday and its condition.
Kept(row, today) == row.weekday = Weekday(today) /\ Holds(row.month_condition, today)

--------------------------------------------------------------------------------
(* Member notifications.                                                   *)

Cadence == {"weekly", "biweekly", "monthly"}

\* Mutant of clamped_anchor_day: a day the month does not have is skipped.
AnchorDayAsIs(anchor_day, y, m) == anchor_day

clamped_anchor_day(anchor_day, y, m) ==
    IF anchor_day < monthrange(y, m) THEN anchor_day ELSE monthrange(y, m)

\* Tuples of year and month compared as Python compares them.
EarlierMonth(a, b) == a.year < b.year \/ (a.year = b.year /\ a.month < b.month)

is_occurrence_date(anchor, cadence, today) ==
    LET delta == toordinal(today) - toordinal(anchor)
    IN CASE cadence = "weekly"   -> delta >= 0 /\ delta % 7 = 0
         [] cadence = "biweekly" -> delta >= 0 /\ delta % 14 = 0
         [] cadence = "monthly"  ->
              /\ ~EarlierMonth(today, anchor)
              /\ today.year = anchor.year /\ today.month = anchor.month => delta >= 0
              /\ today.day = clamped_anchor_day(anchor.day, today.year, today.month)
================================================================================
