--------------------------- MODULE SeededRows_proof ---------------------------
(***************************************************************************)
(* The rows of the table reminders, from both sides.  Calendar and         *)
(* CalendarWalk: what they announce, on every date and along every walk,   *)
(* and when a member notification occurs.  Rollout: however deployments,   *)
(* first boots, backfills and stops interleave, rows of one release are    *)
(* there together, with one target, and a process that runs finds the      *)
(* rows its release knows of unless an older one seeded.                   *)
(***************************************************************************)
EXTENDS CalendarWalk, Rollout, TLAPS

--------------------------------------------------------------------------------
(* Months and days.                                                        *)

LEMMA MonthTypes ==
    ASSUME NEW y \in Nat \ {0}, NEW m \in 1 .. 12
    PROVE  /\ DaysBeforeMonth(y, m) \in Nat
           /\ monthrange(y, m) \in 28 .. 31
  BY DEF DaysBeforeMonth, monthrange, IsLeap

\* Within a month, ordinals differ as days do.
LEMMA DaysOfMonth ==
    ASSUME NEW y \in Nat \ {0}, NEW m \in 1 .. 12, NEW k \in Int
    PROVE  /\ toordinal(Date(y, m, 1)) \in Int
           /\ toordinal(Date(y, m, k)) = toordinal(Date(y, m, 1)) + k - 1
  BY MonthTypes DEF toordinal, Date

LEMMA FieldsOfDate ==
    ASSUME NEW d \in Dates
    PROVE  /\ d = Date(d.year, d.month, d.day)
           /\ d.year \in Nat \ {0} /\ d.month \in 1 .. 12 /\ d.day \in 1 .. 31
           /\ d.day <= monthrange(d.year, d.month)
  BY DEF Dates, Date

LEMMA OrdinalType ==
    ASSUME NEW d \in Dates
    PROVE  toordinal(d) \in Int
  <1>1. d.year \in Nat \ {0} /\ d.month \in 1 .. 12 /\ d.day \in 1 .. 31
    BY FieldsOfDate
  <1>2. DaysBeforeMonth(d.year, d.month) \in Nat
    BY <1>1, MonthTypes
  <1>3. QED
    BY <1>1, <1>2 DEF toordinal

--------------------------------------------------------------------------------
(* Adding days to a date adds them to its ordinal, over the ends of months *)
(* and years.                                                              *)

LEMMA NextMonth ==
    ASSUME NEW y \in Nat \ {0}, NEW m \in 1 .. 11
    PROVE  DaysBeforeMonth(y, m + 1) = DaysBeforeMonth(y, m) + monthrange(y, m)
  BY DEF DaysBeforeMonth, monthrange, IsLeap

LEMMA LeapDays ==
    ASSUME NEW y \in Nat \ {0}
    PROVE  /\ y \div 4 = ((y - 1) \div 4) + (IF y % 4 = 0 THEN 1 ELSE 0)
           /\ y \div 100 = ((y - 1) \div 100) + (IF y % 100 = 0 THEN 1 ELSE 0)
           /\ y \div 400 = ((y - 1) \div 400) + (IF y % 400 = 0 THEN 1 ELSE 0)
           /\ y % 400 = 0 => y % 100 = 0
           /\ y % 100 = 0 => y % 4 = 0
  BY Z3

LEMMA NextYear ==
    ASSUME NEW y \in Nat \ {0}
    PROVE  toordinal(Date(y + 1, 1, 1)) = toordinal(Date(y, 12, 31)) + 1
  <1>1. DaysBeforeMonth(y + 1, 1) = 0 /\ DaysBeforeMonth(y, 12) = 334 + (IF IsLeap(y) THEN 1 ELSE 0)
    BY DEF DaysBeforeMonth, IsLeap
  <1>2. toordinal(Date(y + 1, 1, 1)) =
          365 * y + (y \div 4) - (y \div 100) + (y \div 400) + 1
    BY <1>1 DEF toordinal, Date
  <1>3. toordinal(Date(y, 12, 31)) =
          365 * (y - 1) + ((y - 1) \div 4) - ((y - 1) \div 100) + ((y - 1) \div 400)
            + 365 + (IF IsLeap(y) THEN 1 ELSE 0)
    BY <1>1 DEF toordinal, Date
  <1>4. (IF IsLeap(y) THEN 1 ELSE 0) =
          (IF y % 4 = 0 THEN 1 ELSE 0) - (IF y % 100 = 0 THEN 1 ELSE 0) + (IF y % 400 = 0 THEN 1 ELSE 0)
    BY LeapDays DEF IsLeap
  <1>5. QED
    BY <1>2, <1>3, <1>4, LeapDays

LEMMA PlusAdvances ==
    ASSUME NEW y \in Nat \ {0}, NEW m \in 1 .. 12, NEW j \in 1 .. 31, NEW n \in 0 .. 14,
           j <= monthrange(y, m)
    PROVE  /\ Plus(Date(y, m, j), n) \in Dates
           /\ toordinal(Plus(Date(y, m, j), n)) = toordinal(Date(y, m, j)) + n
  <1> DEFINE last == monthrange(y, m)
             k == j + n - last
             first == toordinal(Date(y, m, 1))
  <1>1. last \in 28 .. 31 /\ k \in Int /\ first \in Int
    <2>1. last \in 28 .. 31
      BY MonthTypes
    <2>2. first \in Int
      BY 0 \in Int, DaysOfMonth
    <2>3. k \in Int
      <3> HIDE DEF last
      <3>1. QED
        BY <2>1
    <2>4. QED
      BY <2>1, <2>2, <2>3
  <1>2. toordinal(Date(y, m, j)) = first + j - 1
    <2>1. j \in Int
      OBVIOUS
    <2>2. QED
      BY <2>1, DaysOfMonth
  <1>3. CASE j + n <= last
    <2>1. Plus(Date(y, m, j), n) = Date(y, m, j + n)
      BY <1>1, <1>3 DEF Plus, Date
    <2>2. Date(y, m, j + n) \in Dates
      BY <1>1, <1>3 DEF Dates, Date
    <2>3. toordinal(Date(y, m, j + n)) = first + (j + n) - 1
      <3> DEFINE i == j + n
      <3>1. i \in Int
        OBVIOUS
      <3> HIDE DEF i
      <3>2. toordinal(Date(y, m, i)) = first + i - 1
        BY <3>1, DaysOfMonth
      <3>3. QED
        BY <3>2 DEF i
    <2> HIDE DEF first
    <2>4. QED
      BY <1>1, <1>2, <2>1, <2>2, <2>3
  <1>4. CASE j + n > last /\ m < 12
    <2>1. Plus(Date(y, m, j), n) = Date(y, m + 1, k)
      BY <1>1, <1>4 DEF Plus, Date
    <2>2. m \in 1 .. 11 /\ m + 1 \in 1 .. 12 /\ k \in 1 .. 14
      BY <1>1, <1>4
    <2>3. monthrange(y, m + 1) \in 28 .. 31
      BY <2>2, MonthTypes
    <2>4. Date(y, m + 1, k) \in Dates
      BY <2>2, <2>3 DEF Dates, Date
    <2>5. toordinal(Date(y, m + 1, 1)) = first + last
      <3>1. DaysBeforeMonth(y, m + 1) = DaysBeforeMonth(y, m) + last
        BY <2>2, NextMonth
      <3>2. DaysBeforeMonth(y, m) \in Nat
        BY MonthTypes
      <3> HIDE DEF last
      <3>3. QED
        BY <1>1, <3>1, <3>2 DEF toordinal, Date
    <2>6. toordinal(Date(y, m + 1, k)) = toordinal(Date(y, m + 1, 1)) + k - 1
      <3> HIDE DEF k
      <3>1. QED
        BY <1>1, <2>2, DaysOfMonth
    <2>7. toordinal(Date(y, m + 1, k)) = first + j + n - 1
      <3> HIDE DEF first, last
      <3>1. QED
        BY <1>1, <2>5, <2>6
    <2> HIDE DEF first, k
    <2>8. QED
      BY <1>1, <1>2, <2>1, <2>4, <2>7
  <1>5. CASE j + n > last /\ m = 12
    <2>1. Plus(Date(y, m, j), n) = Date(y + 1, 1, k)
      BY <1>1, <1>5 DEF Plus, Date
    <2>2. last = 31 /\ k \in 1 .. 14 /\ y + 1 \in Nat \ {0} /\ 1 \in 1 .. 12
      BY <1>1, <1>5 DEF monthrange
    <2>3. monthrange(y + 1, 1) \in 28 .. 31
      BY <2>2, MonthTypes
    <2>4. Date(y + 1, 1, k) \in Dates
      BY <2>2, <2>3 DEF Dates, Date
    <2>5. toordinal(Date(y + 1, 1, 1)) = first + 31
      <3>1. toordinal(Date(y, 12, 31)) = toordinal(Date(y, 12, 1)) + 31 - 1
        BY DaysOfMonth
      <3>2. QED
        BY <1>1, <1>5, <3>1, NextYear
    <2>6. toordinal(Date(y + 1, 1, k)) = toordinal(Date(y + 1, 1, 1)) + k - 1
      <3> HIDE DEF k
      <3>1. QED
        BY <1>1, <2>2, DaysOfMonth
    <2>7. toordinal(Date(y + 1, 1, k)) = first + j + n - 1
      <3> HIDE DEF first
      <3>1. QED
        BY <1>1, <2>2, <2>5, <2>6
    <2> HIDE DEF first, k
    <2>8. QED
      BY <1>1, <1>2, <2>1, <2>4, <2>7
  <1>6. QED
    BY <1>1, <1>3, <1>4, <1>5

COROLLARY PlusIsDate ==
    ASSUME NEW d \in Dates, NEW n \in 0 .. 14
    PROVE  Plus(d, n) \in Dates /\ toordinal(Plus(d, n)) = toordinal(d) + n
  <1> DEFINE y == d.year
             m == d.month
             j == d.day
  <1>1. /\ y \in Nat \ {0} /\ m \in 1 .. 12 /\ j \in 1 .. 31
        /\ j <= monthrange(y, m) /\ d = Date(y, m, j)
    BY FieldsOfDate
  <1> HIDE DEF y, m, j
  <1>2. /\ Plus(Date(y, m, j), n) \in Dates
        /\ toordinal(Plus(Date(y, m, j), n)) = toordinal(Date(y, m, j)) + n
    BY <1>1, PlusAdvances
  <1>3. QED
    BY <1>1, <1>2

--------------------------------------------------------------------------------
(* Tank week.                                                              *)

LEMMA FirstTuesday ==
    ASSUME NEW f \in Int, NEW j \in 1 .. 31
    PROVE  (j <= 7 /\ (f + j - 1 + 6) % 7 = 1) <=> j = 1 + ((1 - ((f + 6) % 7)) % 7)
  BY Z3

\* is_end_of_tank_date holds on the Tuesday of the first seven days of a
\* month, and on no other day.
THEOREM EndIsFirstTuesday ==
    ASSUME NEW d \in Dates
    PROVE  is_end_of_tank_date(d) <=> Weekday(d) = 1 /\ d.day <= 7
  <1> DEFINE y == d.year
             m == d.month
             j == d.day
             first == toordinal(Date(y, m, 1))
  <1>1. /\ y \in Nat \ {0} /\ m \in 1 .. 12 /\ j \in 1 .. 31 /\ j \in Int
        /\ d = Date(y, m, j)
    BY FieldsOfDate
  <1>2. first \in Int /\ toordinal(Date(y, m, j)) = first + j - 1
    <2> HIDE DEF y, m, j
    <2>1. QED
      BY <1>1, DaysOfMonth
  <1>3. Weekday(d) = (first + j - 1 + 6) % 7
    BY <1>1, <1>2 DEF Weekday
  <1>4. Weekday(Date(y, m, 1)) = (first + 6) % 7
    BY DEF Weekday
  <1>5. d = tank_week_ending_tuesday(y, m) <=> j = 1 + ((1 - ((first + 6) % 7)) % 7)
    BY <1>1, <1>4 DEF tank_week_ending_tuesday, Date
  <1>6. is_end_of_tank_date(d) <=> Weekday(d) = 1 /\ d = tank_week_ending_tuesday(y, m)
    BY DEF is_end_of_tank_date
  <1> HIDE DEF first, j
  <1>7. (j <= 7 /\ (first + j - 1 + 6) % 7 = 1) <=> j = 1 + ((1 - ((first + 6) % 7)) % 7)
    BY <1>1, <1>2, FirstTuesday
  <1>8. QED
    BY <1>3, <1>5, <1>6, <1>7 DEF j

\* The head-up comes a week before the end, over the ends of months too:
\* is_tank_week_headsup_date looks into the month of a week later.
THEOREM HeadsupAWeekBefore ==
    ASSUME NEW d \in Dates
    PROVE  is_tank_week_headsup_date(d) <=> is_end_of_tank_date(Plus(d, 7))
  <1> DEFINE c == Plus(d, 7)
             t == tank_week_ending_tuesday(c.year, c.month)
             first == toordinal(Date(c.year, c.month, 1))
  <1>1. c \in Dates /\ toordinal(c) = toordinal(d) + 7 /\ toordinal(d) \in Int
    BY PlusIsDate, OrdinalType
  <1>2. Weekday(c) = Weekday(d)
    BY <1>1 DEF Weekday
  <1> HIDE DEF c
  <1>3. /\ c.year \in Nat \ {0} /\ c.month \in 1 .. 12 /\ c.day \in Int
        /\ c = Date(c.year, c.month, c.day)
    BY <1>1, FieldsOfDate
  <1>4. first \in Int /\ toordinal(c) = first + c.day - 1
    BY <1>3, DaysOfMonth
  <1>5. t.day \in Int /\ t = Date(c.year, c.month, t.day)
    <2>1. Weekday(Date(c.year, c.month, 1)) \in Int
      BY <1>4 DEF Weekday
    <2>2. QED
      BY <2>1 DEF tank_week_ending_tuesday, Date
  <1> HIDE DEF t
  <1>6. toordinal(t) = first + t.day - 1
    BY <1>3, <1>5, DaysOfMonth
  <1>7. c = t <=> c.day = t.day
    BY <1>3, <1>5 DEF Date
  <1>8. c = t <=> toordinal(d) = toordinal(t) - 7
    <2> HIDE DEF first
    <2>1. QED
      BY <1>1, <1>3, <1>4, <1>5, <1>6, <1>7
  <1>9. is_end_of_tank_date(c) <=> Weekday(c) = 1 /\ c = t
    BY DEF is_end_of_tank_date, t
  <1>10. is_tank_week_headsup_date(d) <=> Weekday(d) = 1 /\ toordinal(d) = toordinal(t) - 7
    BY DEF is_tank_week_headsup_date, t, c
  <1>11. QED
    BY <1>2, <1>8, <1>9, <1>10 DEF c

--------------------------------------------------------------------------------
(* Siege.                                                                  *)

LEMMA AnchorOrdinal == toordinal(SIEGE_ANCHOR_DATE) = 739818
  <1>1. DaysBeforeMonth(2026, 7) = 181
    BY DEF DaysBeforeMonth, IsLeap
  <1>2. toordinal(Date(2026, 7, 21)) = 365 * 2025 + 506 - 20 + 5 + 181 + 21
    BY <1>1 DEF toordinal, Date
  <1>3. QED
    BY <1>2 DEF SIEGE_ANCHOR_DATE

\* Every siege has its two head-ups, two days and one day before, and no
\* head-up is without a siege: before the anchor as well as after it.
THEOREM SiegeHeadsups ==
    ASSUME NEW d \in Dates
    PROVE  /\ is_siege_48h_headsup_date(d) <=> is_siege_start_date(Plus(d, 2))
           /\ is_siege_24h_headsup_date(d) <=> is_siege_start_date(Plus(d, 1))
  <1>1. /\ toordinal(d) \in Int
        /\ toordinal(Plus(d, 1)) = toordinal(d) + 1
        /\ toordinal(Plus(d, 2)) = toordinal(d) + 2
    BY PlusIsDate, OrdinalType
  <1>2. \A n \in Int : /\ (n - 739818) % 14 = 12 <=> (n + 2 - 739818) % 14 = 0
                       /\ (n - 739818) % 14 = 13 <=> (n + 1 - 739818) % 14 = 0
    BY Z3
  <1>3. QED
    BY <1>1, <1>2, AnchorOrdinal
       DEF is_siege_48h_headsup_date, is_siege_24h_headsup_date, is_siege_start_date,
           SiegeOffset, SIEGE_PERIOD_DAYS

LEMMA SeedRows ==
    ASSUME NEW entry \in Seed
    PROVE  \/ entry.month_condition = "none"
           \/ entry.month_condition \in {"tank_week_headsup", "tank_week_end"} /\ entry.weekday = 1
           \/ entry.month_condition = "siege_48h_headsup" /\ entry.weekday = 6
           \/ entry.month_condition = "siege_24h_headsup" /\ entry.weekday = 0
  <1>1. CASE entry = Row("Hydra", 1, "none")
    BY <1>1 DEF Row
  <1>2. CASE entry = Row("Chimera", 2, "none")
    BY <1>2 DEF Row
  <1>3. CASE entry = Row("Hydra Tank Week Heads-up", 1, "tank_week_headsup")
    BY <1>3 DEF Row
  <1>4. CASE entry = Row("Hydra Tank Week End", 1, "tank_week_end")
    BY <1>4 DEF Row
  <1>5. CASE entry = Row("Siege 48h Heads-up", 6, "siege_48h_headsup")
    BY <1>5 DEF Row
  <1>6. CASE entry = Row("Siege 24h Heads-up", 0, "siege_24h_headsup")
    BY <1>6 DEF Row
  <1>7. QED
    BY <1>1, <1>2, <1>3, <1>4, <1>5, <1>6 DEF Seed

\* The scheduler asks for a row's weekday as well as for its condition: no
\* row of the seed has a condition that holds on a day of another weekday,
\* so none of the dates of tank week and siege goes unannounced.
THEOREM SeedWeekdaysFit ==
    ASSUME NEW d \in Dates, NEW entry \in Seed,
           entry.month_condition # "none", Holds(entry.month_condition, d)
    PROVE  Kept(entry, d)
  <1>1. toordinal(d) \in Int
    BY OrdinalType
  <1>2. \A n \in Int : /\ (n - 739818) % 14 = 12 => (n + 6) % 7 = 6
                       /\ (n - 739818) % 14 = 13 => (n + 6) % 7 = 0
    BY Z3
  <1>3. CASE entry.month_condition = "siege_48h_headsup" /\ entry.weekday = 6
    <2>1. SiegeOffset(d) = 12
      BY <1>3 DEF Holds, is_siege_48h_headsup_date
    <2>2. QED
      BY <1>1, <1>2, <1>3, <2>1, AnchorOrdinal
         DEF Kept, Weekday, SiegeOffset, SIEGE_PERIOD_DAYS
  <1>4. CASE entry.month_condition = "siege_24h_headsup" /\ entry.weekday = 0
    <2>1. SiegeOffset(d) = 13
      BY <1>4 DEF Holds, is_siege_24h_headsup_date
    <2>2. QED
      BY <1>1, <1>2, <1>4, <2>1, AnchorOrdinal
         DEF Kept, Weekday, SiegeOffset, SIEGE_PERIOD_DAYS
  <1>5. CASE entry.month_condition \in {"tank_week_headsup", "tank_week_end"} /\ entry.weekday = 1
    <2>1. Weekday(d) = 1
      BY <1>5 DEF Holds, is_tank_week_headsup_date, is_end_of_tank_date
    <2>2. QED
      BY <1>5, <2>1 DEF Kept
  <1>6. QED
    BY <1>3, <1>4, <1>5, SeedRows

--------------------------------------------------------------------------------
(* Member notifications.                                                   *)

\* A monthly notification has exactly one occurrence in every month after
\* that of its anchor, whatever the day of the anchor and the length of the
\* month.
THEOREM MonthlyOncePerMonth ==
    ASSUME NEW a \in Dates, NEW y \in Nat \ {0}, NEW m \in 1 .. 12,
           EarlierMonth([year |-> a.year, month |-> a.month],
                        [year |-> y, month |-> m])
    PROVE  \E j \in 1 .. monthrange(y, m) :
             \A k \in 1 .. monthrange(y, m) :
               is_occurrence_date(a, "monthly", Date(y, m, k)) <=> k = j
  <1> DEFINE j == clamped_anchor_day(a.day, y, m)
  <1>1. monthrange(y, m) \in 28 .. 31 /\ a.day \in 1 .. 31
    BY MonthTypes, FieldsOfDate
  <1>2. j \in 1 .. monthrange(y, m)
    BY <1>1 DEF clamped_anchor_day
  <1>3. a.year \in Nat /\ a.month \in 1 .. 12
    BY FieldsOfDate
  <1>4. ASSUME NEW k \in 1 .. monthrange(y, m)
        PROVE  is_occurrence_date(a, "monthly", Date(y, m, k)) <=> k = j
    <2>1. /\ ~EarlierMonth(Date(y, m, k), a)
          /\ ~(y = a.year /\ m = a.month)
      BY <1>3 DEF EarlierMonth, Date
    <2>2. QED
      BY <2>1 DEF is_occurrence_date, Date
  <1>5. QED
    BY <1>2, <1>4

\* From its anchor on, a weekly notification occurs again seven days later
\* and on none of the days between; a biweekly one fourteen.
THEOREM OccursEveryPeriod ==
    ASSUME NEW a \in Dates, NEW d \in Dates
    PROVE  /\ is_occurrence_date(a, "weekly", d) =>
                \A n \in 1 .. 7 :
                  is_occurrence_date(a, "weekly", Plus(d, n)) <=> n = 7
           /\ is_occurrence_date(a, "biweekly", d) =>
                \A n \in 1 .. 14 :
                  is_occurrence_date(a, "biweekly", Plus(d, n)) <=> n = 14
  <1> DEFINE delta == toordinal(d) - toordinal(a)
  <1>1. toordinal(d) \in Int /\ toordinal(a) \in Int /\ delta \in Int
    BY OrdinalType
  <1>2. ASSUME NEW n \in 1 .. 14
        PROVE  toordinal(Plus(d, n)) - toordinal(a) = delta + n
    <2>1. n \in 0 .. 14
      OBVIOUS
    <2>2. toordinal(Plus(d, n)) = toordinal(d) + n
      BY <2>1, PlusIsDate
    <2>3. QED
      BY <1>1, <2>2
  <1>3. QED
    BY <1>1, <1>2 DEF is_occurrence_date

--------------------------------------------------------------------------------
(* The order of months is the order of their days.                         *)

LEMMA MonthsAscend ==
    ASSUME NEW y \in Nat \ {0}, NEW m \in 1 .. 12, NEW n \in 1 .. 12, m < n
    PROVE  DaysBeforeMonth(y, m) + monthrange(y, m) <= DaysBeforeMonth(y, n)
<1> DEFINE D(i) == DaysBeforeMonth(y, i)
<1>1. \A i \in 1 .. 11 : D(i + 1) = D(i) + monthrange(y, i)
    BY NextMonth
<1>2. \A i \in 1 .. 12 : D(i) \in Nat
    BY MonthTypes
<1>3. \A i \in 1 .. 11 : monthrange(y, i) \in Nat
    BY MonthTypes
<1> HIDE DEF D
<1>4. D(m + 1) <= D(n)
    <2>1. /\ D(2) <= D(3) /\ D(3) <= D(4) /\ D(4) <= D(5) /\ D(5) <= D(6) /\ D(6) <= D(7)
          /\ D(7) <= D(8) /\ D(8) <= D(9) /\ D(9) <= D(10) /\ D(10) <= D(11) /\ D(11) <= D(12)
        BY <1>1, <1>2, <1>3
    <2>2. /\ D(2) \in Nat /\ D(3) \in Nat /\ D(4) \in Nat /\ D(5) \in Nat /\ D(6) \in Nat
          /\ D(7) \in Nat /\ D(8) \in Nat /\ D(9) \in Nat /\ D(10) \in Nat /\ D(11) \in Nat
          /\ D(12) \in Nat
        BY <1>2
    <2> QED
        BY <2>1, <2>2
<1>5. D(m + 1) = D(m) + monthrange(y, m)
    BY <1>1
<1> QED
    BY <1>4, <1>5 DEF D

\* The days of the years up to y.
DaysOfYears(y) == 365 * y + (y \div 4) - (y \div 100) + (y \div 400)

LEMMA YearBounds ==
    ASSUME NEW d \in Dates
    PROVE  DaysOfYears(d.year - 1) < toordinal(d) /\ toordinal(d) <= DaysOfYears(d.year)
<1> DEFINE y == d.year
           m == d.month
           leap == IF IsLeap(y) THEN 1 ELSE 0
<1>1. /\ y \in Nat \ {0} /\ m \in 1 .. 12 /\ d.day \in 1 .. 31 /\ d.day <= monthrange(y, m)
    BY FieldsOfDate
<1>2. DaysBeforeMonth(y, m) \in Nat /\ monthrange(y, m) \in 28 .. 31
    BY <1>1, MonthTypes
<1>3. toordinal(d) = DaysOfYears(y - 1) + DaysBeforeMonth(y, m) + d.day
    BY DEF toordinal, DaysOfYears
<1> HIDE DEF y, m
<1>4. DaysBeforeMonth(y, m) + monthrange(y, m) <= 365 + leap
    BY <1>1 DEF DaysBeforeMonth, monthrange, IsLeap
<1>5. DaysOfYears(y) = DaysOfYears(y - 1) + 365 + leap
    <2>1. leap = (IF y % 4 = 0 THEN 1 ELSE 0) - (IF y % 100 = 0 THEN 1 ELSE 0)
                    + (IF y % 400 = 0 THEN 1 ELSE 0)
        BY <1>1, LeapDays DEF IsLeap
    <2> HIDE DEF leap
    <2> QED
        BY <1>1, <2>1, LeapDays DEF DaysOfYears
<1>6. DaysOfYears(y - 1) \in Int /\ leap \in Int
    BY <1>1 DEF DaysOfYears
<1> HIDE DEF leap
<1> QED
    BY <1>1, <1>2, <1>3, <1>4, <1>5, <1>6 DEF y

LEMMA YearsAscend ==
    ASSUME NEW y \in Nat, NEW z \in Nat, y <= z
    PROVE  DaysOfYears(y) <= DaysOfYears(z) /\ DaysOfYears(y) \in Int /\ DaysOfYears(z) \in Int
  BY Z3 DEF DaysOfYears

LEMMA EarlierMonthIsBefore ==
    ASSUME NEW a \in Dates, NEW b \in Dates, EarlierMonth(a, b)
    PROVE  toordinal(a) < toordinal(b)
<1>1. /\ a.year \in Nat \ {0} /\ a.month \in 1 .. 12 /\ a.day \in 1 .. 31
      /\ a.day <= monthrange(a.year, a.month)
      /\ b.year \in Nat \ {0} /\ b.month \in 1 .. 12 /\ b.day \in 1 .. 31
    BY FieldsOfDate
<1>2. CASE a.year = b.year /\ a.month < b.month
    <2>1. DaysBeforeMonth(a.year, a.month) + monthrange(a.year, a.month)
             <= DaysBeforeMonth(b.year, b.month)
        BY <1>1, <1>2, MonthsAscend
    <2>2. /\ DaysBeforeMonth(a.year, a.month) \in Nat /\ DaysBeforeMonth(b.year, b.month) \in Nat
          /\ monthrange(a.year, a.month) \in 28 .. 31
        BY <1>1, MonthTypes
    <2> QED
        BY <1>1, <1>2, <2>1, <2>2 DEF toordinal
<1>3. CASE a.year < b.year
    <2>1. a.year \in Nat /\ b.year - 1 \in Nat /\ a.year <= b.year - 1
        BY <1>1, <1>3
    <2>2. toordinal(a) <= DaysOfYears(a.year) /\ toordinal(b) > DaysOfYears(b.year - 1)
        BY YearBounds
    <2>3. toordinal(a) \in Int /\ toordinal(b) \in Int
        BY OrdinalType
    <2>4. /\ DaysOfYears(a.year) <= DaysOfYears(b.year - 1)
          /\ DaysOfYears(a.year) \in Int /\ DaysOfYears(b.year - 1) \in Int
        BY <2>1, YearsAscend
    <2> QED
        BY <2>2, <2>3, <2>4
<1> QED
    BY <1>2, <1>3 DEF EarlierMonth

\* Two dates of one month, or of one of two.
LEMMA MonthsCompare ==
    ASSUME NEW a \in Dates, NEW b \in Dates
    PROVE  \/ EarlierMonth(a, b) \/ EarlierMonth(b, a)
           \/ /\ a.year = b.year /\ a.month = b.month
              /\ toordinal(a) - toordinal(b) = a.day - b.day
<1>1. /\ a.year \in Nat \ {0} /\ a.month \in 1 .. 12 /\ a.day \in 1 .. 31
      /\ b.year \in Nat \ {0} /\ b.month \in 1 .. 12 /\ b.day \in 1 .. 31
    BY FieldsOfDate
<1>2. ASSUME a.year = b.year, a.month = b.month
      PROVE  toordinal(a) - toordinal(b) = a.day - b.day
    <2>1. DaysBeforeMonth(a.year, a.month) \in Nat
        BY <1>1, MonthTypes
    <2> QED
        BY <1>1, <1>2, <2>1 DEF toordinal
<1> QED
    BY <1>1, <1>2 DEF EarlierMonth

\* Days added one after the other.
LEMMA PlusAgain ==
    ASSUME NEW d \in Dates
    PROVE  /\ Plus(d, 0) = d
           /\ \A n \in 0 .. 13 : Plus(Plus(d, 1), n) = Plus(d, n + 1)
<1> DEFINE y == d.year
           m == d.month
           j == d.day
           last == monthrange(y, m)
<1>1. /\ y \in Nat \ {0} /\ m \in 1 .. 12 /\ j \in 1 .. 31 /\ j <= last /\ d = Date(y, m, j)
    BY FieldsOfDate
<1>2. last \in 28 .. 31
    BY <1>1, MonthTypes
<1> HIDE DEF y, m, j
<1>3. Plus(d, 0) = d
    BY <1>1, <1>2 DEF Plus, Date
<1>4. ASSUME NEW n \in 0 .. 13 PROVE Plus(Plus(d, 1), n) = Plus(d, n + 1)
    <2>1. CASE j + 1 <= last
        <3>1. Plus(d, 1) = Date(y, m, j + 1)
            BY <1>1, <1>2, <2>1 DEF Plus, Date
        <3>2. j + 1 + n = j + (n + 1)
            BY <1>1
        <3> QED
            BY <1>1, <1>2, <3>1, <3>2 DEF Plus, Date
    <2>2. CASE j + 1 > last /\ m < 12
        <3>1. j = last
            BY <1>1, <1>2, <2>2
        <3>2. Plus(d, 1) = Date(y, m + 1, 1) /\ Plus(d, n + 1) = Date(y, m + 1, 1 + n)
            BY <1>1, <1>2, <2>2, <3>1 DEF Plus, Date
        <3>3. monthrange(y, m + 1) \in 28 .. 31
            BY <1>1, <2>2, MonthTypes
        <3> QED
            BY <3>2, <3>3 DEF Plus, Date
    <2>3. CASE j + 1 > last /\ m = 12
        <3>1. j = last
            BY <1>1, <1>2, <2>3
        <3>2. Plus(d, 1) = Date(y + 1, 1, 1) /\ Plus(d, n + 1) = Date(y + 1, 1, 1 + n)
            BY <1>1, <1>2, <2>3, <3>1 DEF Plus, Date
        <3>3. monthrange(y + 1, 1) \in 28 .. 31
            BY <1>1, MonthTypes
        <3> QED
            BY <3>2, <3>3 DEF Plus, Date
    <2> QED
        BY <1>1, <1>2, <2>1, <2>2, <2>3
<1> QED
    BY <1>3, <1>4

\* Tomorrow is another day of this month, or the first of a later one.
LEMMA TomorrowIs ==
    ASSUME NEW d \in Dates
    PROVE  LET t == Plus(d, 1)
           IN \/ /\ t.year = d.year /\ t.month = d.month /\ t.day = d.day + 1
                 /\ t.day # 1 /\ d.day < monthrange(d.year, d.month)
              \/ t.day = 1 /\ d.day = monthrange(d.year, d.month)
<1>1. /\ d.year \in Nat \ {0} /\ d.month \in 1 .. 12 /\ d.day \in 1 .. 31
      /\ d.day <= monthrange(d.year, d.month)
    BY FieldsOfDate
<1>2. monthrange(d.year, d.month) \in 28 .. 31
    BY <1>1, MonthTypes
<1> QED
    BY <1>1, <1>2 DEF Plus, Date

\* A monthly notification, without the days of its first month.
LEMMA MonthlyOccurs ==
    ASSUME NEW a \in Dates, NEW d \in Dates
    PROVE  /\ is_occurrence_date(a, "monthly", d) <=>
                /\ ~EarlierMonth(d, a)
                /\ d.day = clamped_anchor_day(a.day, d.year, d.month)
           /\ clamped_anchor_day(a.day, a.year, a.month) = a.day
           /\ clamped_anchor_day(a.day, d.year, d.month) \in 1 .. monthrange(d.year, d.month)
<1>1. /\ d.year \in Nat \ {0} /\ d.month \in 1 .. 12 /\ d.day \in 1 .. 31
      /\ a.year \in Nat \ {0} /\ a.month \in 1 .. 12 /\ a.day \in 1 .. 31
      /\ a.day <= monthrange(a.year, a.month)
    BY FieldsOfDate
<1>2. monthrange(d.year, d.month) \in 28 .. 31 /\ monthrange(a.year, a.month) \in 28 .. 31
    BY <1>1, MonthTypes
<1>3. clamped_anchor_day(a.day, a.year, a.month) = a.day
    BY <1>1, <1>2 DEF clamped_anchor_day
<1>4. clamped_anchor_day(a.day, d.year, d.month) \in 1 .. monthrange(d.year, d.month)
    BY <1>1, <1>2 DEF clamped_anchor_day
<1>5. ASSUME d.year = a.year, d.month = a.month, d.day = a.day
      PROVE  toordinal(d) - toordinal(a) >= 0
    <2>1. toordinal(d) = toordinal(a) /\ toordinal(a) \in Int
        BY <1>5, OrdinalType DEF toordinal
    <2> QED
        BY <2>1
<1> QED
    BY <1>3, <1>4, <1>5 DEF is_occurrence_date

--------------------------------------------------------------------------------
(* What the scheduler keeps on a date.                                     *)

LEMMA KeptOn ==
    ASSUME NEW d \in Dates
    PROVE  /\ KeptNow("Hydra Tank Week End", d) <=> is_end_of_tank_date(d)
           /\ KeptNow("Hydra Tank Week Heads-up", d) <=> is_end_of_tank_date(Plus(d, 7))
           /\ KeptNow("Siege 48h Heads-up", d) <=> SiegeOffset(d) = 12
           /\ KeptNow("Siege 24h Heads-up", d) <=> SiegeOffset(d) = 13
<1> DEFINE end == Row("Hydra Tank Week End", 1, "tank_week_end")
           headsup == Row("Hydra Tank Week Heads-up", 1, "tank_week_headsup")
           two == Row("Siege 48h Heads-up", 6, "siege_48h_headsup")
           one == Row("Siege 24h Heads-up", 0, "siege_24h_headsup")
<1>1. end \in Seed /\ headsup \in Seed /\ two \in Seed /\ one \in Seed
    BY DEF Seed
<1>2. ASSUME NEW entry \in Seed
      PROVE  /\ entry.name = "Hydra Tank Week End" => entry = end
             /\ entry.name = "Hydra Tank Week Heads-up" => entry = headsup
             /\ entry.name = "Siege 48h Heads-up" => entry = two
             /\ entry.name = "Siege 24h Heads-up" => entry = one
    <2>0. CASE entry = Row("Hydra", 1, "none")
        BY <2>0 DEF Row
    <2>1. CASE entry = Row("Chimera", 2, "none")
        BY <2>1 DEF Row
    <2>2. CASE entry = end
        BY <2>2 DEF Row
    <2>3. CASE entry = headsup
        BY <2>3 DEF Row
    <2>4. CASE entry = two
        BY <2>4 DEF Row
    <2>5. CASE entry = one
        BY <2>5 DEF Row
    <2> QED
        BY <2>0, <2>1, <2>2, <2>3, <2>4, <2>5 DEF Seed
<1>3. /\ KeptNow("Hydra Tank Week End", d) <=> Kept(end, d)
      /\ KeptNow("Hydra Tank Week Heads-up", d) <=> Kept(headsup, d)
      /\ KeptNow("Siege 48h Heads-up", d) <=> Kept(two, d)
      /\ KeptNow("Siege 24h Heads-up", d) <=> Kept(one, d)
    <2>1. /\ end.name = "Hydra Tank Week End" /\ headsup.name = "Hydra Tank Week Heads-up"
          /\ two.name = "Siege 48h Heads-up" /\ one.name = "Siege 24h Heads-up"
        BY DEF Row
    <2> HIDE DEF end, headsup, two, one
    <2> QED
        BY <1>1, <1>2, <2>1 DEF KeptNow
<1>4. /\ Holds(end.month_condition, d) <=> is_end_of_tank_date(d)
      /\ Holds(headsup.month_condition, d) <=> is_tank_week_headsup_date(d)
      /\ Holds(two.month_condition, d) <=> SiegeOffset(d) = 12
      /\ Holds(one.month_condition, d) <=> SiegeOffset(d) = 13
    BY DEF Holds, Row, is_siege_48h_headsup_date, is_siege_24h_headsup_date
<1>5. \A entry \in {end, headsup, two, one} : Kept(entry, d) <=> Holds(entry.month_condition, d)
    <2>1. /\ end.month_condition # "none" /\ headsup.month_condition # "none"
          /\ two.month_condition # "none" /\ one.month_condition # "none"
        BY DEF Row
    <2>2. \A entry \in {end, headsup, two, one} : Kept(entry, d) => Holds(entry.month_condition, d)
        BY DEF Kept
    <2> HIDE DEF end, headsup, two, one
    <2> QED
        BY <1>1, <2>1, <2>2, SeedWeekdaysFit
<1> HIDE DEF end, headsup, two, one
<1> QED
    BY <1>3, <1>4, <1>5, HeadsupAWeekBefore

\* No two ends of tank week within a week.
LEMMA EndsApart ==
    ASSUME NEW d \in Dates, NEW n \in 1 .. 6, is_end_of_tank_date(Plus(d, n))
    PROVE  ~is_end_of_tank_date(Plus(d, 7))
<1>0. n \in 0 .. 14 /\ 7 \in 0 .. 14
    OBVIOUS
<1>1. toordinal(d) \in Int /\ toordinal(Plus(d, n)) = toordinal(d) + n
      /\ toordinal(Plus(d, 7)) = toordinal(d) + 7
    BY <1>0, OrdinalType, PlusIsDate
<1>2. Weekday(Plus(d, n)) = 1
    BY DEF is_end_of_tank_date
<1>3. (toordinal(d) + n + 6) % 7 = 1
    BY <1>1, <1>2 DEF Weekday
<1>4. ASSUME is_end_of_tank_date(Plus(d, 7)) PROVE FALSE
    <2>1. (toordinal(d) + 7 + 6) % 7 = 1
        BY <1>1, <1>4 DEF Weekday, is_end_of_tank_date
    <2>2. \A o \in Int : ~((o + n + 6) % 7 = 1 /\ (o + 7 + 6) % 7 = 1)
        BY Z3
    <2> QED
        BY <1>1, <1>3, <2>1, <2>2
<1> QED
    BY <1>4

--------------------------------------------------------------------------------
(* What the walk has counted.                                              *)

Delta == toordinal(today) - toordinal(anchor)

AnchorDay == clamped_anchor_day(anchor.day, today.year, today.month)

WalkTypes ==
    /\ today \in Dates /\ days \in 0 .. MaxDays
    /\ toordinal(today) = toordinal(Start) + days
    /\ weekday = Weekday(today)
    /\ anchor \in Anchors /\ cadence \in Cadence

\* The last Tuesday is (weekday - 1) % 7 days ago.
TuesdaysCounted == tuesdays = (today.day - ((weekday - 1) % 7) + 6) \div 7

\* An age is that of a day of the walk.
Ages == 1 .. days \cup {Long}

HeadsupAge ==
    /\ sinceHeadsup \in Ages
    /\ \A k \in 1 .. 7 : k <= days =>
          (sinceHeadsup = k <=> is_end_of_tank_date(Plus(today, 7 - k)))

SiegeAges ==
    /\ since48 \in Ages /\ since24 \in Ages /\ sinceStart \in Ages
    /\ days >= 1 => (since48 = 1 <=> SiegeOffset(today) = 13)
    /\ days >= 2 => (since48 = 2 <=> SiegeOffset(today) = 0)
    /\ days >= 1 => (since24 = 1 <=> SiegeOffset(today) = 0)
    /\ sinceStart # Long =>
          sinceStart = IF SiegeOffset(today) = 0 THEN 14 ELSE SiegeOffset(today)

Period == IF cadence = "weekly" THEN 7 ELSE 14

OccurrenceAge == cadence # "monthly" =>
    sinceOccurred = IF Delta <= 0 THEN Long
                    ELSE IF Delta % Period = 0 THEN Period ELSE Delta % Period

OccurrencesOfMonth == cadence = "monthly" =>
    occurred = IF EarlierMonth(today, anchor) \/ today.day < AnchorDay THEN 0 ELSE 1

WalkInv ==
    WalkTypes /\ TuesdaysCounted /\ HeadsupAge /\ SiegeAges /\ OccurrenceAge /\ OccurrencesOfMonth

LEMMA AnchorFacts ==
    ASSUME NEW a \in Anchors
    PROVE  /\ a \in Dates /\ Start \in Dates /\ Start.day = 1 /\ MaxDays \in Nat
           /\ toordinal(a) \in Int /\ toordinal(Start) \in Int /\ toordinal(Start) <= toordinal(a)
<1>1. a \in Dates /\ Start \in Dates /\ Start.day = 1 /\ toordinal(a) >= toordinal(Start)
      /\ MaxDays \in Nat
    BY WalkAssumption
<1> QED
    BY <1>1, OrdinalType

LEMMA OccursOn ==
    ASSUME NEW d \in Dates, anchor \in Dates, cadence \in Cadence
    PROVE  LET delta == toordinal(d) - toordinal(anchor)
           IN /\ cadence # "monthly" => (Occurs(d) <=> delta >= 0 /\ delta % Period = 0)
              /\ cadence = "monthly" =>
                   (Occurs(d) <=> /\ ~EarlierMonth(d, anchor)
                                  /\ d.day = clamped_anchor_day(anchor.day, d.year, d.month))
<1>1. CASE cadence = "monthly"
    BY <1>1, MonthlyOccurs DEF Occurs
<1>2. CASE cadence = "weekly"
    BY <1>2 DEF Occurs, is_occurrence_date, Period
<1>3. CASE cadence = "biweekly"
    BY <1>3 DEF Occurs, is_occurrence_date, Period
<1> QED
    BY <1>1, <1>2, <1>3 DEF Cadence

LEMMA InitWalkInv == WalkInit => WalkInv
<1> SUFFICES ASSUME WalkInit PROVE WalkInv
    OBVIOUS
<1>1. today = Start /\ days = 0 /\ weekday = Weekday(Start) /\ anchor \in Anchors /\ cadence \in Cadence
    BY DEF WalkInit
<1>2. /\ anchor \in Dates /\ Start \in Dates /\ Start.day = 1 /\ MaxDays \in Nat
      /\ toordinal(anchor) \in Int /\ toordinal(Start) \in Int /\ toordinal(Start) <= toordinal(anchor)
    BY <1>1, AnchorFacts
<1>3. WalkTypes
    BY <1>1, <1>2 DEF WalkTypes
<1>4. TuesdaysCounted
    <2>1. weekday \in 0 .. 6
        BY <1>1, <1>2, Z3 DEF Weekday
    <2>2. tuesdays = IF weekday = 1 THEN 1 ELSE 0
        BY DEF WalkInit
    <2>3. \A w \in 0 .. 6 : (1 - ((w - 1) % 7) + 6) \div 7 = IF w = 1 THEN 1 ELSE 0
        BY Z3
    <2> QED
        BY <1>1, <1>2, <2>1, <2>2, <2>3 DEF TuesdaysCounted
<1>5. HeadsupAge /\ SiegeAges
    BY <1>1 DEF WalkInit, HeadsupAge, SiegeAges, Ages
<1>6. Delta <= 0
    BY <1>1, <1>2 DEF Delta
<1>7. OccurrenceAge
    BY <1>6 DEF WalkInit, OccurrenceAge
<1>8. OccurrencesOfMonth
    <2>1. occurred = IF Occurs(Start) THEN 1 ELSE 0
        BY DEF WalkInit
    <2>2. AnchorDay \in 1 .. monthrange(Start.year, Start.month)
        BY <1>1, <1>2, MonthlyOccurs DEF AnchorDay
    <2>3. cadence = "monthly" =>
            (Occurs(Start) <=> ~EarlierMonth(Start, anchor) /\ Start.day = AnchorDay)
        BY <1>1, <1>2, OccursOn DEF AnchorDay
    <2>4. monthrange(Start.year, Start.month) \in 28 .. 31
        BY <1>2, FieldsOfDate, MonthTypes
    <2> QED
        BY <1>1, <1>2, <2>1, <2>2, <2>3, <2>4 DEF OccurrencesOfMonth
<1> QED
    BY <1>3, <1>4, <1>5, <1>7, <1>8 DEF WalkInv

\* The next day keeps what has been counted.
LEMMA StepWalkInv == WalkInv /\ [NextDay]_walkVars => WalkInv'
<1> SUFFICES ASSUME WalkInv, NextDay PROVE WalkInv'
    <2>1. CASE UNCHANGED walkVars
        BY <2>1 DEF walkVars, WalkInv, WalkTypes, TuesdaysCounted, HeadsupAge, SiegeAges, Ages,
           OccurrenceAge, OccurrencesOfMonth, Delta, Period, AnchorDay
    <2> QED
        BY <2>1
<1>1. /\ today \in Dates /\ days \in 0 .. MaxDays /\ days < MaxDays
      /\ toordinal(today) = toordinal(Start) + days
      /\ weekday = Weekday(today) /\ anchor \in Anchors /\ cadence \in Cadence
    BY DEF WalkInv, WalkTypes, NextDay
<1>2. /\ anchor \in Dates /\ MaxDays \in Nat /\ toordinal(anchor) \in Int
      /\ toordinal(Start) \in Int /\ toordinal(Start) <= toordinal(anchor)
      /\ toordinal(today) \in Int
    BY <1>1, AnchorFacts, OrdinalType
<1>3. /\ today' = Plus(today, 1) /\ days' = days + 1 /\ weekday' = (weekday + 1) % 7
      /\ anchor' = anchor /\ cadence' = cadence
    BY DEF NextDay, Tomorrow
<1>4. today' \in Dates /\ toordinal(today') = toordinal(today) + 1
    <2>1. 1 \in 0 .. 14
        OBVIOUS
    <2> QED
        BY <1>1, <1>3, <2>1, PlusIsDate
<1>5. weekday \in 0 .. 6 /\ weekday' \in 0 .. 6 /\ weekday' = Weekday(today')
    <2>1. \A o \in Int : /\ (o + 6) % 7 \in 0 .. 6
                         /\ (((o + 6) % 7) + 1) % 7 = (o + 1 + 6) % 7
        BY Z3
    <2> QED
        BY <1>1, <1>2, <1>3, <1>4, <2>1 DEF Weekday
<1>6. WalkTypes'
    <2>1. toordinal(today') = toordinal(Start) + days'
        BY <1>1, <1>2, <1>3, <1>4
    <2>2. days' \in 0 .. MaxDays
        BY <1>1, <1>2, <1>3
    <2> QED
        BY <1>1, <1>3, <1>4, <1>5, <2>1, <2>2 DEF WalkTypes
<1>7. \/ today'.day = 1 /\ today.day = monthrange(today.year, today.month)
      \/ /\ today'.year = today.year /\ today'.month = today.month
         /\ today'.day = today.day + 1 /\ today'.day # 1
    BY <1>1, <1>3, TomorrowIs
<1>8. today.day \in 1 .. 31 /\ today'.day \in 1 .. 31
    BY <1>1, <1>4, FieldsOfDate
<1>9. TuesdaysCounted'
    <2>1. tuesdays = (today.day - ((weekday - 1) % 7) + 6) \div 7
        BY DEF WalkInv, TuesdaysCounted
    <2>2. tuesdays' = (IF today'.day = 1 THEN 0 ELSE tuesdays) + (IF weekday' = 1 THEN 1 ELSE 0)
        BY <1>3 DEF NextDay, Tally, Tomorrow
    <2>3. CASE today'.day = 1
        <3>1. \A w \in 0 .. 6 : (1 - ((w - 1) % 7) + 6) \div 7 = IF w = 1 THEN 1 ELSE 0
            BY Z3
        <3> QED
            BY <1>5, <2>2, <2>3, <3>1 DEF TuesdaysCounted
    <2>4. CASE today'.day = today.day + 1 /\ today'.day # 1
        <3>1. \A w \in 0 .. 6, j \in 1 .. 31 :
                 (j + 1 - ((((w + 1) % 7) - 1) % 7) + 6) \div 7
                   = ((j - ((w - 1) % 7) + 6) \div 7) + IF (w + 1) % 7 = 1 THEN 1 ELSE 0
            BY Z3
        <3> QED
            BY <1>3, <1>5, <1>8, <2>1, <2>2, <2>4, <3>1 DEF TuesdaysCounted
    <2> QED
        BY <1>7, <2>3, <2>4
<1>10. ASSUME NEW age, NEW now \in BOOLEAN, NEW next, age \in Ages, next = Since(age, now)
       PROVE  /\ next \in 1 .. days' \cup {Long}
              /\ next = 1 <=> now
              /\ \A k \in Nat : 1 <= k /\ k <= days => (next = k + 1 <=> ~now /\ age = k)
    <2>1. Long = MaxDays + 1 /\ Ages = 1 .. days \cup {Long}
        BY DEF Long, Ages
    <2>2. CASE now
        BY <1>1, <1>2, <1>3, <1>10, <2>1, <2>2 DEF Since
    <2>3. CASE ~now /\ age = Long
        BY <1>1, <1>2, <1>3, <1>10, <2>1, <2>3 DEF Since
    <2>4. CASE ~now /\ age # Long
        BY <1>1, <1>2, <1>3, <1>10, <2>1, <2>4 DEF Since
    <2> QED
        BY <2>2, <2>3, <2>4
<1>11. HeadsupAge'
    <2> DEFINE now == KeptNow("Hydra Tank Week Heads-up", today)
    <2>1. now \in BOOLEAN /\ (now <=> is_end_of_tank_date(Plus(today, 7)))
        BY <1>1, KeptOn DEF KeptNow
    <2>2. sinceHeadsup \in Ages /\ sinceHeadsup' = Since(sinceHeadsup, now)
        BY DEF WalkInv, HeadsupAge, NextDay
    <2>3. \A k \in 1 .. 7 : k <= days =>
             (sinceHeadsup = k <=> is_end_of_tank_date(Plus(today, 7 - k)))
        BY DEF WalkInv, HeadsupAge
    <2> HIDE DEF now
    <2>4. /\ sinceHeadsup' \in 1 .. days' \cup {Long}
          /\ sinceHeadsup' = 1 <=> now
          /\ \A k \in Nat : 1 <= k /\ k <= days =>
                (sinceHeadsup' = k + 1 <=> ~now /\ sinceHeadsup = k)
        BY <1>10, <2>1, <2>2
    <2>5. ASSUME NEW k \in 1 .. 7, k <= days'
          PROVE  sinceHeadsup' = k <=> is_end_of_tank_date(Plus(today', 7 - k))
        <3>1. 7 - k \in 0 .. 13 /\ (7 - k) + 1 = 8 - k
            OBVIOUS
        <3>2. Plus(today', 7 - k) = Plus(today, 8 - k)
            BY <1>1, <1>3, <3>1, PlusAgain
        <3>3. CASE k = 1
            BY <2>1, <2>4, <3>2, <3>3
        <3>4. CASE k > 1
            <4> DEFINE j == k - 1
            <4>1. j \in 1 .. 6 /\ j \in 1 .. 7 /\ j \in Nat /\ j <= days /\ k = j + 1
                BY <1>1, <1>3, <2>5, <3>4
            <4>2. 8 - k = 7 - j /\ 7 - j \in 1 .. 6
                BY <4>1
            <4>3. sinceHeadsup' = k <=> ~now /\ sinceHeadsup = j
                BY <2>4, <4>1
            <4>4. sinceHeadsup = j <=> is_end_of_tank_date(Plus(today, 7 - j))
                BY <2>3, <4>1
            <4>5. is_end_of_tank_date(Plus(today, 7 - j)) => ~now
                BY <1>1, <2>1, <4>2, EndsApart
            <4> QED
                BY <3>2, <4>2, <4>3, <4>4, <4>5
        <3> QED
            BY <3>3, <3>4
    <2> QED
        BY <2>4, <2>5 DEF HeadsupAge, Ages, Long
<1>12. SiegeAges'
    <2> DEFINE off == SiegeOffset(today)
    <2>1. off \in 0 .. 13 /\ SiegeOffset(today') = (off + 1) % 14
        <3>1. \A o \in Int : /\ (o - 739818) % 14 \in 0 .. 13
                             /\ (o + 1 - 739818) % 14 = (((o - 739818) % 14) + 1) % 14
            BY Z3
        <3> QED
            BY <1>2, <1>4, <3>1, AnchorOrdinal DEF SiegeOffset, SIEGE_PERIOD_DAYS
    <2>2. /\ KeptNow("Siege 48h Heads-up", today) <=> off = 12
          /\ KeptNow("Siege 24h Heads-up", today) <=> off = 13
          /\ is_siege_start_date(today) <=> off = 0
        BY <1>1, KeptOn DEF is_siege_start_date
    <2>3. /\ since48 \in Ages /\ since48' = Since(since48, off = 12)
          /\ since24 \in Ages /\ since24' = Since(since24, off = 13)
          /\ sinceStart \in Ages /\ sinceStart' = Since(sinceStart, off = 0)
        BY <2>2 DEF WalkInv, SiegeAges, NextDay, Since
    <2>4. /\ days >= 1 => (since48 = 1 <=> off = 13)
          /\ sinceStart # Long => sinceStart = IF off = 0 THEN 14 ELSE off
        BY DEF WalkInv, SiegeAges
    <2> HIDE DEF off
    <2>5. /\ since48' \in 1 .. days' \cup {Long} /\ (since48' = 1 <=> off = 12)
          /\ \A k \in Nat : 1 <= k /\ k <= days => (since48' = k + 1 <=> off # 12 /\ since48 = k)
        <3>1. (off = 12) \in BOOLEAN
            OBVIOUS
        <3> DEFINE now == off = 12
        <3>2. since48 \in Ages /\ since48' = Since(since48, now)
            BY <2>3
        <3> HIDE DEF now
        <3>3. /\ since48' \in 1 .. days' \cup {Long} /\ (since48' = 1 <=> now)
              /\ \A k \in Nat : 1 <= k /\ k <= days => (since48' = k + 1 <=> ~now /\ since48 = k)
            BY <1>10, <3>1, <3>2 DEF now
        <3> QED
            BY <3>3 DEF now
    <2>6. since24' \in 1 .. days' \cup {Long} /\ (since24' = 1 <=> off = 13)
        BY <1>10, <2>3
    <2>7. sinceStart' \in 1 .. days' \cup {Long}
        BY <1>10, <2>3
    <2>8. /\ days' >= 1 => (since48' = 1 <=> (off + 1) % 14 = 13)
          /\ days' >= 1 => (since24' = 1 <=> (off + 1) % 14 = 0)
        BY <2>1, <2>5, <2>6
    <2>9. days' >= 2 => (since48' = 2 <=> (off + 1) % 14 = 0)
        <3>1. days' >= 2 => 1 \in Nat /\ 1 <= days /\ days >= 1
            BY <1>1, <1>3
        <3>2. 2 = 1 + 1
            OBVIOUS
        <3>3. days' >= 2 => (since48' = 2 <=> off # 12 /\ off = 13)
            BY <2>4, <2>5, <3>1, <3>2
        <3> QED
            BY <2>1, <3>3
    <2>10. sinceStart' # Long => sinceStart' = IF (off + 1) % 14 = 0 THEN 14 ELSE (off + 1) % 14
        BY <2>1, <2>3, <2>4 DEF Since
    <2> QED
        BY <2>1, <2>5, <2>6, <2>7, <2>8, <2>9, <2>10 DEF SiegeAges, Ages, Long
<1>13. Delta' = Delta + 1 /\ Delta \in Int /\ Delta <= days /\ Period' = Period
    BY <1>1, <1>2, <1>3, <1>4 DEF Delta, Period
<1>14. OccurrenceAge'
    <2> SUFFICES ASSUME cadence # "monthly" PROVE OccurrenceAge'
        BY <1>3 DEF OccurrenceAge
    <2>1. sinceOccurred = IF Delta <= 0 THEN Long
                          ELSE IF Delta % Period = 0 THEN Period ELSE Delta % Period
        BY DEF WalkInv, OccurrenceAge
    <2>2. sinceOccurred' = Since(sinceOccurred, Occurs(today))
        BY DEF NextDay
    <2>3. Occurs(today) <=> Delta >= 0 /\ Delta % Period = 0
        BY <1>1, <1>2, OccursOn DEF Delta
    <2>4. sinceOccurred' = IF Delta' <= 0 THEN Long
                           ELSE IF Delta' % Period = 0 THEN Period ELSE Delta' % Period
        <3>1. \A n \in Nat : /\ n % 7 \in 0 .. 6 /\ n % 14 \in 0 .. 13
                             /\ n % 7 <= n /\ n % 14 <= n
                             /\ n % 7 = 0 => (n + 1) % 7 = 1
                             /\ n % 14 = 0 => (n + 1) % 14 = 1
                             /\ (n + 1) % 7 = 0 => n % 7 = 6
                             /\ (n + 1) % 14 = 0 => n % 14 = 13
                             /\ (n + 1) % 7 # 0 => (n + 1) % 7 = (n % 7) + 1
                             /\ (n + 1) % 14 # 0 => (n + 1) % 14 = (n % 14) + 1
            BY Z3
        <3>2. Period \in {7, 14} /\ Long = MaxDays + 1
            BY DEF Period, Long
        <3>3. CASE Delta < 0
            BY <1>13, <2>1, <2>2, <2>3, <3>3 DEF Since
        <3>4. CASE Delta = 0
            <4>1. Occurs(today) /\ Delta' = 1
                BY <1>13, <2>3, <3>1, <3>2, <3>4
            <4> QED
                BY <2>2, <3>1, <3>2, <4>1 DEF Since
        <3>5. CASE Delta > 0
            <4> DEFINE n == Delta
                       p == Period
            <4>1. n \in Nat /\ n <= days /\ days <= MaxDays /\ Delta' = n + 1
                BY <1>1, <1>2, <1>13, <3>5
            <4> HIDE DEF n, p
            <4>2. ASSUME n % p = 0 PROVE sinceOccurred' = 1 /\ (n + 1) % p = 1
                BY <2>2, <2>3, <3>1, <3>2, <3>5, <4>1, <4>2 DEF Since, n, p
            <4>3. ASSUME n % p # 0
                  PROVE  sinceOccurred' = (n % p) + 1
                <5>1. sinceOccurred = n % p
                    BY <1>13, <2>1, <3>5, <4>3 DEF n, p
                <5>2. n % p # Long
                    <6>1. n % p <= n /\ n % p \in Int
                        BY <3>1, <3>2, <4>1 DEF p
                    <6> QED
                        BY <1>1, <1>2, <3>2, <4>1, <6>1
                <5> QED
                    BY <2>2, <2>3, <4>3, <5>1, <5>2 DEF Since, n, p
            <4>4. /\ (n + 1) % p = 0 => (n % p) + 1 = p
                  /\ (n + 1) % p # 0 => (n + 1) % p = (n % p) + 1
                  /\ (n + 1) % p = 0 => n % p # 0
                BY <3>1, <3>2, <4>1 DEF p
            <4>5. sinceOccurred' = IF (n + 1) % p = 0 THEN p ELSE (n + 1) % p
                BY <4>2, <4>3, <4>4
            <4> QED
                BY <4>1, <4>5, <1>13, <3>5 DEF n, p
        <3> QED
            BY <1>13, <3>3, <3>4, <3>5
    <2> QED
        BY <1>13, <2>4 DEF OccurrenceAge
<1>15. OccurrencesOfMonth'
    <2> SUFFICES ASSUME cadence = "monthly" PROVE OccurrencesOfMonth'
        BY <1>3 DEF OccurrencesOfMonth
    <2> DEFINE day == clamped_anchor_day(anchor.day, today'.year, today'.month)
    <2>1. AnchorDay' = day
        BY <1>3 DEF AnchorDay
    <2>2. occurred' = (IF today'.day = 1 THEN 0 ELSE occurred) + (IF Occurs(today') THEN 1 ELSE 0)
        BY <1>3 DEF NextDay, Tally, Tomorrow
    <2>3. Occurs(today') <=> ~EarlierMonth(today', anchor) /\ today'.day = day
        BY <1>1, <1>2, <1>4, OccursOn
    <2>4. day \in 1 .. monthrange(today'.year, today'.month)
          /\ monthrange(today'.year, today'.month) \in 28 .. 31
        BY <1>2, <1>4, MonthlyOccurs, FieldsOfDate, MonthTypes
    <2>5. occurred = IF EarlierMonth(today, anchor) \/ today.day < AnchorDay THEN 0 ELSE 1
        BY DEF WalkInv, OccurrencesOfMonth
    <2>6. occurred' = IF EarlierMonth(today', anchor) \/ today'.day < day THEN 0 ELSE 1
        <3>1. CASE today'.day = 1
            BY <1>8, <2>2, <2>3, <2>4, <3>1
        <3>2. CASE /\ today'.year = today.year /\ today'.month = today.month
                   /\ today'.day = today.day + 1 /\ today'.day # 1
            <4>1. AnchorDay = day /\ (EarlierMonth(today', anchor) <=> EarlierMonth(today, anchor))
                BY <3>2 DEF AnchorDay, EarlierMonth
            <4> HIDE DEF day
            <4> QED
                BY <1>8, <2>2, <2>3, <2>4, <2>5, <3>2, <4>1
        <3> QED
            BY <1>7, <3>1, <3>2
    <2> QED
        BY <1>3, <2>1, <2>6 DEF OccurrencesOfMonth
<1> QED
    BY <1>6, <1>9, <1>11, <1>12, <1>14, <1>15 DEF WalkInv

\* The scheduler's rows announce every end of tank week and every siege, on
\* their days and no others, however long the walk and wherever it starts.
THEOREM EventsAreAnnounced == WalkSpec => []EventsAnnounced
<1>1. WalkInv => EventsAnnounced
    <2> SUFFICES ASSUME WalkInv PROVE EventsAnnounced
        OBVIOUS
    <2>1. today \in Dates /\ days \in Nat /\ weekday = Weekday(today) /\ toordinal(today) \in Int
        BY OrdinalType DEF WalkInv, WalkTypes
    <2>2. today.day \in 1 .. 31
        BY <2>1, FieldsOfDate
    <2>3. KeptNow("Hydra Tank Week End", today) <=> weekday = 1 /\ tuesdays = 1
        <3>1. weekday = 1 => tuesdays = (today.day + 6) \div 7
            BY <2>2 DEF WalkInv, TuesdaysCounted
        <3>2. \A j \in 1 .. 31 : (j + 6) \div 7 = 1 <=> j <= 7
            BY Z3
        <3> QED
            BY <2>1, <2>2, <3>1, <3>2, KeptOn, EndIsFirstTuesday
    <2>4. days >= 7 => (sinceHeadsup = 7 <=> is_end_of_tank_date(today))
        <3>1. 7 \in 1 .. 7 /\ 7 - 7 = 0
            OBVIOUS
        <3>2. days >= 7 => (sinceHeadsup = 7 <=> is_end_of_tank_date(Plus(today, 0)))
            BY <3>1, <2>1 DEF WalkInv, HeadsupAge
        <3> QED
            BY <2>1, <3>2, PlusAgain
    <2>5. today = SIEGE_ANCHOR_DATE => is_siege_start_date(today)
        BY <2>1 DEF is_siege_start_date, SiegeOffset, SIEGE_PERIOD_DAYS
    <2>6. /\ sinceStart # Long => (sinceStart = 14 <=> is_siege_start_date(today))
          /\ days >= 2 => (since48 = 2 <=> is_siege_start_date(today))
          /\ days >= 1 => (since24 = 1 <=> is_siege_start_date(today))
        <3>1. SiegeOffset(today) \in 0 .. 13
            BY <2>1, AnchorOrdinal DEF SiegeOffset, SIEGE_PERIOD_DAYS
        <3> QED
            BY <3>1 DEF WalkInv, SiegeAges, is_siege_start_date
    <2> QED
        BY <2>3, <2>4, <2>5, <2>6 DEF EventsAnnounced, TankWeekAnnounced, SiegeAnnounced
<1> QED
    BY <1>1, InitWalkInv, StepWalkInv, PTL DEF WalkSpec

\* A member notification occurs on its anchor date first, then every seven or
\* fourteen days, or once in each month, whatever the anchor and the walk.
THEOREM OccurrencesAreRegular == WalkSpec => []OccursRegularly
<1>1. WalkInv => OccursRegularly
    <2> SUFFICES ASSUME WalkInv PROVE OccursRegularly
        OBVIOUS
    <2>1. today \in Dates /\ anchor \in Anchors /\ cadence \in Cadence
        BY DEF WalkInv, WalkTypes
    <2>2. anchor \in Dates /\ toordinal(anchor) \in Int /\ toordinal(today) \in Int
        BY <2>1, AnchorFacts, OrdinalType
    <2>3. /\ cadence # "monthly" => (Occurs(today) <=> Delta >= 0 /\ Delta % Period = 0)
          /\ cadence = "monthly" =>
                (Occurs(today) <=> ~EarlierMonth(today, anchor) /\ today.day = AnchorDay)
        BY <2>1, <2>2, OccursOn DEF Delta, AnchorDay
    <2>4. toordinal(today) < toordinal(anchor) => ~Occurs(today)
        <3>1. CASE cadence # "monthly"
            BY <2>2, <2>3, <3>1 DEF Delta
        <3>2. ASSUME cadence = "monthly", toordinal(today) < toordinal(anchor), Occurs(today)
              PROVE  FALSE
            <4>1. ~EarlierMonth(today, anchor) /\ today.day = AnchorDay
                BY <2>3, <3>2
            <4>2. ~EarlierMonth(anchor, today)
                BY <2>1, <2>2, <3>2, EarlierMonthIsBefore
            <4>3. /\ today.year = anchor.year /\ today.month = anchor.month
                  /\ toordinal(today) - toordinal(anchor) = today.day - anchor.day
                BY <2>1, <2>2, <4>1, <4>2, MonthsCompare
            <4>4. today.day = anchor.day /\ anchor.day \in Int
                BY <2>2, <4>1, <4>3, MonthlyOccurs, FieldsOfDate DEF AnchorDay
            <4> QED
                BY <2>2, <3>2, <4>3, <4>4
        <3> QED
            BY <3>1, <3>2
    <2>5. today = anchor => Occurs(today)
        <3>1. CASE cadence # "monthly"
            <4>1. today = anchor => Delta = 0
                BY <2>2 DEF Delta
            <4>2. 0 % Period = 0
                BY DEF Period
            <4> QED
                BY <2>3, <3>1, <4>1, <4>2
        <3>2. CASE cadence = "monthly"
            <4>1. today = anchor => ~EarlierMonth(today, anchor)
                BY <2>2, FieldsOfDate DEF EarlierMonth
            <4>2. today = anchor => AnchorDay = today.day
                BY <2>2, MonthlyOccurs DEF AnchorDay
            <4> QED
                BY <2>3, <3>2, <4>1, <4>2
        <3> QED
            BY <3>1, <3>2
    <2>6. toordinal(today) > toordinal(anchor) /\ cadence # "monthly" =>
              (Occurs(today) <=> sinceOccurred = Period)
        <3> SUFFICES ASSUME toordinal(today) > toordinal(anchor), cadence # "monthly"
                     PROVE  Occurs(today) <=> sinceOccurred = Period
            OBVIOUS
        <3>1. Delta > 0 /\ Delta \in Nat
            BY <2>2 DEF Delta
        <3>2. sinceOccurred = IF Delta % Period = 0 THEN Period ELSE Delta % Period
            BY <3>1 DEF WalkInv, OccurrenceAge
        <3>3. Period \in {7, 14}
            BY DEF Period
        <3>4. Delta % Period < Period
            <4>1. \A n \in Nat : n % 7 < 7 /\ n % 14 < 14
                BY Z3
            <4> QED
                BY <3>1, <3>3, <4>1
        <3>5. Delta % Period \in Int
            BY <3>1, <3>3
        <3>6. Delta >= 0
            BY <3>1
        <3> QED
            BY <2>3, <3>2, <3>3, <3>4, <3>5, <3>6
    <2>7. today.day = monthrange(today.year, today.month) /\ cadence = "monthly" =>
              occurred = IF EarlierMonth(today, anchor) THEN 0 ELSE 1
        <3>1. AnchorDay \in 1 .. monthrange(today.year, today.month)
            BY <2>1, <2>2, MonthlyOccurs DEF AnchorDay
        <3>2. monthrange(today.year, today.month) \in 28 .. 31
            BY <2>1, FieldsOfDate, MonthTypes
        <3> QED
            BY <3>1, <3>2 DEF WalkInv, OccurrencesOfMonth
    <2> QED
        BY <2>4, <2>5, <2>6, <2>7 DEF OccursRegularly, Period
<1> QED
    BY <1>1, InitWalkInv, StepWalkInv, PTL DEF WalkSpec

--------------------------------------------------------------------------------
(* The table of Rollout.                                                   *)

\* The rows whose days Calendar knows are those the releases add.
LEMMA RowsOfTheSeed == {entry.name : entry \in Seed} = Name
<1>1. Name = {"Hydra", "Chimera", "Hydra Tank Week Heads-up", "Hydra Tank Week End",
              "Siege 48h Heads-up", "Siege 24h Heads-up"}
    BY DEF Name, FirstRows, TankWeekRows, SiegeRows
<1>2. /\ Row("Hydra", 1, "none").name = "Hydra"
      /\ Row("Chimera", 2, "none").name = "Chimera"
      /\ Row("Hydra Tank Week Heads-up", 1, "tank_week_headsup").name = "Hydra Tank Week Heads-up"
      /\ Row("Hydra Tank Week End", 1, "tank_week_end").name = "Hydra Tank Week End"
      /\ Row("Siege 48h Heads-up", 6, "siege_48h_headsup").name = "Siege 48h Heads-up"
      /\ Row("Siege 24h Heads-up", 0, "siege_24h_headsup").name = "Siege 24h Heads-up"
    BY DEF Row
<1>3. /\ Row("Hydra", 1, "none") \in Seed
      /\ Row("Chimera", 2, "none") \in Seed
      /\ Row("Hydra Tank Week Heads-up", 1, "tank_week_headsup") \in Seed
      /\ Row("Hydra Tank Week End", 1, "tank_week_end") \in Seed
      /\ Row("Siege 48h Heads-up", 6, "siege_48h_headsup") \in Seed
      /\ Row("Siege 24h Heads-up", 0, "siege_24h_headsup") \in Seed
    BY DEF Seed
<1>4. ASSUME NEW entry \in Seed PROVE entry.name \in Name
    BY <1>1, <1>2, Zenon DEF Seed
<1>5. ASSUME NEW n \in Name PROVE \E entry \in Seed : entry.name = n
    BY <1>1, <1>2, <1>3, Zenon
<1> QED
    BY <1>4, <1>5

\* Whoever has got so far has had its migrations committed.
Migrated ==
    /\ active <= schema
    /\ pipeline.at \in {"update", "wait"} => pipeline.release <= schema
    /\ \A r \in Release : process[r] # "off" => r <= schema

\* A process runs only on a table that is not empty.
RunsOnRows == \A r \in Release : process[r] = "running" => Rows # {}

\* Without a late seed the table is empty or has all that is migrated.
Complete == Rows # {} /\ ~late => Seeds(schema) \subseteq Rows

\* What a session is about to commit is all of a release, and nobody else can
\* have added it.
StagedWhole ==
    staged # {} => /\ "Hydra" \in Rows
                   /\ \E r \in 2 .. 3 : staged = Adds[r] /\ Adds[r] \cap Rows = {}

RolloutInv ==
    /\ TypeOK
    /\ RowsBelongTogether
    /\ Migrated
    /\ RunsOnRows
    /\ Complete
    /\ StagedWhole
--------------------------------------------------------------------------------
(* The rows of the releases.                                               *)

LEMMA AddsFacts ==
    /\ \A r \in Release : Adds[r] \subseteq Name
    /\ "Hydra" \in Adds[1] /\ "Hydra" \in Name
    /\ \A r \in 2 .. 3 : "Hydra" \notin Adds[r]
    /\ \A q, r \in Release : q # r => Adds[q] \cap Adds[r] = {}
  <1>1. Adds[1] = FirstRows /\ Adds[2] = TankWeekRows /\ Adds[3] = SiegeRows
    BY DEF Adds
  <1>2. /\ Release = {1, 2, 3} /\ 2 .. 3 = {2, 3}
    BY DEF Release
  <1>3. QED
    BY <1>1, <1>2 DEF FirstRows, TankWeekRows, SiegeRows, Name

\* The rows up to a release are those of the releases up to it.
LEMMA SeedsFacts ==
    ASSUME NEW r \in 0 .. 3
    PROVE  /\ Seeds(r) \subseteq Name
           /\ r > 0 => "Hydra" \in Seeds(r)
           /\ \A n : n \in Seeds(r) <=> \E i \in 1 .. r : n \in Adds[i]
           /\ 1 .. r \subseteq Release
  <1>1. 1 .. r \subseteq Release
    BY DEF Release
  <1>2. \A n : n \in Seeds(r) <=> \E i \in 1 .. r : n \in Adds[i]
    BY DEF Seeds
  <1>3. Seeds(r) \subseteq Name
    BY <1>1, <1>2, AddsFacts
  <1>4. r > 0 => "Hydra" \in Seeds(r)
    <2>1. r > 0 => 1 \in 1 .. r
      OBVIOUS
    <2>2. QED
      BY <1>2, <2>1, AddsFacts
  <1>5. QED
    BY <1>1, <1>2, <1>3, <1>4

LEMMA SeedsGrow ==
    ASSUME NEW q \in 0 .. 3, NEW r \in 0 .. 3, q <= r
    PROVE  Seeds(q) \subseteq Seeds(r)
  <1>1. 1 .. q \subseteq 1 .. r
    OBVIOUS
  <1>2. QED
    BY <1>1, SeedsFacts

--------------------------------------------------------------------------------
(* What the steps that add rows leave.                                     *)

\* Copies of Hydra's target keep the rows together and complete them.
LEMMA CopiedTogether ==
    ASSUME TypeOK, RowsBelongTogether, NEW first \in 1 .. 4, NEW last \in 1 .. 3,
           row' = Copied(first, last)
    PROVE  /\ row' \in [Name -> Target \cup {NoRow}]
           /\ RowsBelongTogether'
           /\ Rows # {} <=> Rows' # {}
           /\ Rows \subseteq Rows'
           /\ Rows # {} => \A i \in first .. last : Adds[i] \subseteq Rows'
  <1> USE RolloutAssumption
  <1>1. CASE row["Hydra"] = NoRow
    <2>1. row' = row
      BY <1>1 DEF Copied
    <2>2. Rows = {}
      BY <1>1 DEF RowsBelongTogether, Rows
    <2>3. QED
      BY <2>1, <2>2 DEF TypeOK, RowsBelongTogether, Rows
  <1>2. CASE row["Hydra"] # NoRow
    <2> DEFINE t == row["Hydra"]
    <2>1. t \in Target /\ "Hydra" \in Rows
      BY <1>2, AddsFacts DEF TypeOK, Rows
    <2>2. \A n \in Rows : row[n] = t
      BY <2>1 DEF RowsBelongTogether
    <2>3. /\ row' \in [Name -> Target \cup {NoRow}]
          /\ \A n \in Name : row'[n] = IF row[n] = NoRow /\ \E i \in first .. last : n \in Adds[i]
                                       THEN t ELSE row[n]
      BY <1>2, <2>1 DEF Copied, Filled, TypeOK
    <2>4. Rows' = Rows \cup {n \in Name : \E i \in first .. last : n \in Adds[i]}
      BY <2>1, <2>3 DEF Rows
    <2>5. \A n \in Rows' : row'[n] = t
      BY <2>2, <2>3, <2>4 DEF Rows
    <2>6. first .. last \subseteq Release
      BY DEF Release
    <2>7. \A i \in first .. last : Adds[i] \subseteq Rows'
      BY <2>4, <2>6, AddsFacts
    <2>8. \A r \in Release : Adds[r] \subseteq Rows' \/ Adds[r] \cap Rows' = {}
      <3> SUFFICES ASSUME NEW r \in Release
                   PROVE  Adds[r] \subseteq Rows' \/ Adds[r] \cap Rows' = {}
        OBVIOUS
      <3>1. CASE r \in first .. last
        BY <3>1, <2>7
      <3>2. CASE r \notin first .. last
        <4>1. Adds[r] \cap Rows' = Adds[r] \cap Rows
          BY <3>2, <2>4, <2>6, AddsFacts
        <4>2. QED
          BY <4>1, <2>4 DEF RowsBelongTogether
      <3>3. QED
        BY <3>1, <3>2
    <2>9. QED
      BY <2>1, <2>3, <2>4, <2>5, <2>7, <2>8 DEF RowsBelongTogether
  <1>3. QED
    BY <1>1, <1>2

\* A first boot fills an empty table with all a release has.
LEMMA InsertedTogether ==
    ASSUME TypeOK, RowsBelongTogether, NEW r \in Release, named \in Target,
           Rows \cap Seeds(r) = {},
           row' = [n \in Name |-> IF n \in Seeds(r) THEN named ELSE row[n]]
    PROVE  /\ row' \in [Name -> Target \cup {NoRow}]
           /\ RowsBelongTogether'
           /\ Rows = {} /\ Rows' = Seeds(r) /\ "Hydra" \in Rows'
  <1> USE RolloutAssumption
  <1>0. r \in 0 .. 3 /\ r > 0
    BY DEF Release
  <1>1. Rows = {}
    BY <1>0, SeedsFacts DEF RowsBelongTogether
  <1>2. row' \in [Name -> Target \cup {NoRow}]
    BY DEF TypeOK
  <1>3. Rows' = Seeds(r)
    BY <1>0, <1>1, SeedsFacts DEF Rows, TypeOK
  <1>4. \A n \in Rows' : row'[n] = named
    BY <1>3, <1>0, SeedsFacts
  <1>5. \A q \in Release : Adds[q] \subseteq Rows' \/ Adds[q] \cap Rows' = {}
    <2> SUFFICES ASSUME NEW q \in Release
                 PROVE  Adds[q] \subseteq Rows' \/ Adds[q] \cap Rows' = {}
      OBVIOUS
    <2>1. CASE q <= r
      <3>1. q \in 1 .. r
        BY <2>1 DEF Release
      <3>2. QED
        BY <3>1, <1>0, <1>3, SeedsFacts
    <2>2. CASE ~(q <= r)
      <3>1. \A i \in 1 .. r : i # q /\ i \in Release
        BY <2>2 DEF Release
      <3>2. \A i \in 1 .. r : Adds[i] \cap Adds[q] = {}
        BY <3>1, AddsFacts
      <3>3. QED
        BY <3>2, <1>0, <1>3, SeedsFacts
    <2>3. QED
      BY <2>1, <2>2
  <1>6. "Hydra" \in Rows'
    BY <1>0, <1>3, SeedsFacts
  <1>7. QED
    BY <1>1, <1>2, <1>3, <1>4, <1>5, <1>6 DEF RowsBelongTogether

--------------------------------------------------------------------------------
(* The inductive invariant.                                                *)

LEMMA InitRolloutInv == Init => RolloutInv
  <1> USE RolloutAssumption
  <1> SUFFICES ASSUME Init PROVE RolloutInv
    OBVIOUS
  <1>1. TypeOK
    <2>1. late \in BOOLEAN
      BY DEF Init
    <2>2. pipeline \in [at : {"idle", "migrate", "update", "wait"}, release : 0 .. 3]
      BY DEF Init, Idle
    <2>3. process \in [Release -> ProcessState]
      BY DEF Init, ProcessState
    <2>4. row \in [Name -> Target \cup {NoRow}]
      BY DEF Init
    <2>5. QED
      BY <2>1, <2>2, <2>3, <2>4 DEF Init, TypeOK
  <1>2. Rows = {}
    BY DEF Init, Rows
  <1>3. QED
    BY <1>1, <1>2 DEF Init, RolloutInv, RowsBelongTogether, Migrated, RunsOnRows, Complete,
                      StagedWhole, Idle

\* Steps that add no row: the pipeline, the platform, and the guild.
LEMMA RowsKept ==
    ASSUME RowsBelongTogether, UNCHANGED row
    PROVE  Rows' = Rows /\ RowsBelongTogether'
  BY DEF RowsBelongTogether, Rows

\* What moves between processes and revisions.
LEMMA ProcessStep ==
    ASSUME RolloutInv, UNCHANGED <<row, schema, staged, late>>,
           TypeOK', Migrated', RunsOnRows'
    PROVE  RolloutInv'
  <1>1. Rows' = Rows /\ RowsBelongTogether'
    BY RowsKept DEF RolloutInv
  <1>2. Complete'
    BY <1>1 DEF RolloutInv, Complete, Seeds
  <1>3. StagedWhole'
    BY <1>1 DEF RolloutInv, StagedWhole
  <1>4. QED
    BY <1>1, <1>2, <1>3 DEF RolloutInv

LEMMA MigrateKeeps ==
    ASSUME RolloutInv, Migrate
    PROVE  RolloutInv'
  <1> USE RolloutAssumption
  <1> DEFINE last == pipeline.release
  <1>1. /\ schema \in 0 .. 3 /\ last \in 0 .. 3 /\ schema <= last /\ schema' = last
        /\ row' = Copied(schema + 1, last)
    BY DEF RolloutInv, TypeOK, Migrate
  <1>2. /\ row' \in [Name -> Target \cup {NoRow}]
        /\ RowsBelongTogether'
        /\ Rows # {} <=> Rows' # {}
        /\ Rows \subseteq Rows'
        /\ Rows # {} => \A i \in schema + 1 .. last : Adds[i] \subseteq Rows'
    <2>1. CASE last = 0
      <3>1. row' = row
        <4>1. schema + 1 .. last = {}
          BY <1>1, <2>1
        <4>2. row' = row
          BY <1>1, <4>1 DEF Copied, Filled, RolloutInv, TypeOK
        <4>3. QED
          BY <4>2
      <3>2. QED
        BY <3>1, <1>1, <2>1, RowsKept DEF RolloutInv, TypeOK
    <2>2. CASE last > 0
      BY <1>1, <2>2, CopiedTogether DEF RolloutInv
    <2>3. QED
      BY <1>1, <2>1, <2>2
  <1>3. TypeOK'
    BY <1>1, <1>2 DEF RolloutInv, TypeOK, Migrate
  <1>4. Migrated'
    BY <1>1 DEF RolloutInv, TypeOK, Migrated, Migrate, Release
  <1>5. RunsOnRows'
    BY <1>2 DEF RolloutInv, RunsOnRows, Migrate
  <1>6. Complete'
    <2> SUFFICES ASSUME Rows' # {}, ~late', NEW n \in Seeds(last) PROVE n \in Rows'
      BY <1>1 DEF Complete, Seeds
    <2>1. Rows # {} /\ Seeds(schema) \subseteq Rows'
      BY <1>2 DEF RolloutInv, Complete, Migrate
    <2>2. PICK i \in 1 .. last : n \in Adds[i]
      BY <1>1, SeedsFacts
    <2>3. CASE i <= schema
      BY <2>1, <2>2, <2>3, <1>1, SeedsFacts
    <2>4. CASE ~(i <= schema)
      BY <2>1, <2>2, <2>4, <1>1, <1>2
    <2>5. QED
      BY <2>3, <2>4
  <1>7. StagedWhole'
    BY DEF RolloutInv, StagedWhole, Migrate, NoReader
  <1>8. QED
    BY <1>2, <1>3, <1>4, <1>5, <1>6, <1>7 DEF RolloutInv

LEMMA InsertKeeps ==
    ASSUME RolloutInv, NEW r \in Release, Insert(r)
    PROVE  RolloutInv'
  <1> USE RolloutAssumption
  <1>0. r \in 1 .. 3 /\ process[r] = "counted" /\ r <= schema /\ schema \in 0 .. 3
        /\ schema' = schema /\ staged' = staged /\ named \in Target
    BY DEF RolloutInv, Migrated, Insert, Release, TypeOK, Resolved
  <1>1. CASE Rows \cap Seeds(r) = {}
    <2>1. /\ row' = [n \in Name |-> IF n \in Seeds(r) THEN named ELSE row[n]]
          /\ late' = (late \/ schema > r)
          /\ process' = [process EXCEPT ![r] = "running"]
      BY <1>1 DEF Insert, Goes
    <2>2. /\ row' \in [Name -> Target \cup {NoRow}]
          /\ RowsBelongTogether'
          /\ Rows = {} /\ Rows' = Seeds(r) /\ "Hydra" \in Rows'
      BY <1>0, <1>1, <2>1, InsertedTogether DEF RolloutInv
    <2>3. TypeOK'
      BY <2>1, <2>2 DEF RolloutInv, TypeOK, Insert, ProcessState
    <2>4. Migrated' /\ RunsOnRows'
      BY <1>0, <2>1, <2>2 DEF RolloutInv, TypeOK, Migrated, RunsOnRows, Insert
    <2>5. Complete'
      <3>0. ~late' => ~(schema > r)
        BY <2>1, Zenon
      <3>1. ~late' => schema = r
        BY <1>0, <3>0
      <3>2. QED
        BY <1>0, <2>2, <3>1 DEF Complete, Seeds
    <2>6. staged = {}
      BY <2>2 DEF RolloutInv, StagedWhole
    <2>7. QED
      BY <1>0, <2>2, <2>3, <2>4, <2>5, <2>6 DEF RolloutInv, StagedWhole
  <1>2. CASE Rows \cap Seeds(r) # {}
    <2>1. /\ UNCHANGED <<row, late>> /\ process' = [process EXCEPT ![r] = "failed"]
      BY <1>2 DEF Insert, Goes
    <2>2. TypeOK' /\ Migrated'
      BY <1>0, <2>1 DEF RolloutInv, TypeOK, Migrated, Insert, ProcessState
    <2>3. RunsOnRows'
      BY <2>1, RowsKept DEF RolloutInv, TypeOK, RunsOnRows
    <2>4. QED
      BY <1>0, <2>1, <2>2, <2>3, ProcessStep
  <1>3. QED
    BY <1>1, <1>2

LEMMA CommitStagedKeeps ==
    ASSUME RolloutInv, CommitStaged
    PROVE  RolloutInv'
  <1> USE RolloutAssumption
  <1>0. PICK r \in 2 .. 3 : staged = Adds[r] /\ Adds[r] \cap Rows = {}
    BY DEF RolloutInv, StagedWhole, CommitStaged
  <1>1. "Hydra" \in Rows /\ row["Hydra"] \in Target
    BY AddsFacts DEF RolloutInv, StagedWhole, CommitStaged, TypeOK, Rows
  <1>2. CASE staged' = {} /\ row' = [n \in Name |-> IF n \in staged THEN row["Hydra"] ELSE row[n]]
    <2>1. Rows' = Rows \cup Adds[r]
      BY <1>0, <1>1, <1>2, AddsFacts DEF Rows, Release
    <2>2. \A n \in Rows' : row'[n] = row["Hydra"]
      BY <1>0, <1>1, <1>2, <2>1 DEF RolloutInv, RowsBelongTogether, Rows
    <2>3. \A q \in Release : Adds[q] \subseteq Rows' \/ Adds[q] \cap Rows' = {}
      <3>1. \A q \in Release : q # r => Adds[q] \cap Rows' = Adds[q] \cap Rows
        BY <2>1, AddsFacts DEF Release
      <3>2. QED
        BY <2>1, <3>1 DEF RolloutInv, RowsBelongTogether
    <2>4. RowsBelongTogether'
      BY <1>1, <2>1, <2>2, <2>3 DEF RowsBelongTogether
    <2>5. TypeOK'
      BY <1>1, <1>2 DEF RolloutInv, TypeOK, CommitStaged, SpendFault
    <2>6. Migrated' /\ RunsOnRows' /\ StagedWhole'
      BY <1>2, <2>1 DEF RolloutInv, Migrated, RunsOnRows, StagedWhole, CommitStaged
    <2>7. Complete'
      BY <1>1, <2>1 DEF RolloutInv, Complete, CommitStaged, Seeds
    <2>8. QED
      BY <2>4, <2>5, <2>6, <2>7 DEF RolloutInv
  <1>3. CASE staged' = {} /\ row' = row
    <2>1. Rows' = Rows /\ RowsBelongTogether'
      BY <1>3, RowsKept DEF RolloutInv
    <2>2. TypeOK'
      BY <1>3 DEF RolloutInv, TypeOK, CommitStaged, SpendFault
    <2>3. QED
      BY <1>3, <2>1, <2>2 DEF RolloutInv, Migrated, RunsOnRows, Complete, StagedWhole, CommitStaged, Seeds
  <1>4. QED
    <2>1. staged \ staged = {}
      OBVIOUS
    <2>2. QED
      BY <1>2, <1>3, <2>1 DEF CommitStaged, Committed

LEMMA NextRolloutInv == RolloutInv /\ [Next]_vars => RolloutInv'
  <1> USE RolloutAssumption
  <1> SUFFICES ASSUME RolloutInv, [Next]_vars PROVE RolloutInv'
    OBVIOUS
  <1>1. ASSUME NEW r \in Release, Deploy(r) PROVE RolloutInv'
    <2>1. TypeOK' /\ Migrated' /\ RunsOnRows'
      BY <1>1, RowsKept
         DEF RolloutInv, TypeOK, Deploy, Release, Migrated, RunsOnRows
    <2>2. QED
      BY <1>1, <2>1, ProcessStep DEF Deploy
  <1>2. CASE Migrate
    BY <1>2, MigrateKeeps
  <1>3. CASE MigrateFails
    <2>1. TypeOK' /\ Migrated' /\ RunsOnRows'
      BY <1>3, RowsKept
         DEF RolloutInv, TypeOK, MigrateFails, Idle, SpendFault, Migrated, RunsOnRows
    <2>2. QED
      BY <1>3, <2>1, ProcessStep DEF MigrateFails
  <1>4. CASE Update
    <2>1. /\ pipeline.release \in 0 .. 3 /\ pipeline.release <= schema
          /\ active' = pipeline.release
          /\ \/ process' = process
             \/ process' = [process EXCEPT ![active'] = "boot"]
      BY <1>4 DEF RolloutInv, TypeOK, Migrated, Update
    <2>2. TypeOK'
      BY <1>4, <2>1 DEF RolloutInv, TypeOK, Update, ProcessState
    <2>3. \A r \in Release : process'[r] \in {process[r], "boot"} /\
                             (process'[r] # process[r] => r = active')
      BY <2>1 DEF RolloutInv, TypeOK
    <2>4. Migrated'
      BY <1>4, <2>1, <2>3 DEF RolloutInv, TypeOK, Migrated, Update
    <2>5. RunsOnRows'
      BY <1>4, <2>3, RowsKept DEF RolloutInv, RunsOnRows, Update
    <2>6. QED
      BY <1>4, <2>2, <2>4, <2>5, ProcessStep DEF Update
  <1>5. CASE Waited
    <2>1. TypeOK' /\ Migrated' /\ RunsOnRows'
      BY <1>5, RowsKept
         DEF RolloutInv, TypeOK, Waited, Idle, Migrated, RunsOnRows
    <2>2. QED
      BY <1>5, <2>1, ProcessStep DEF Waited
  <1>6. ASSUME NEW q \in Release, Retire(q) PROVE RolloutInv'
    <2>1. TypeOK' /\ Migrated' /\ RunsOnRows'
      BY <1>6, RowsKept
         DEF RolloutInv, TypeOK, Retire, ProcessState, Migrated, RunsOnRows
    <2>2. QED
      BY <1>6, <2>1, ProcessStep DEF Retire
  <1>7. ASSUME NEW r \in Release, Count(r) PROVE RolloutInv'
    <2>1. TypeOK' /\ Migrated' /\ RunsOnRows'
      BY <1>7, RowsKept
         DEF RolloutInv, TypeOK, Count, Goes, MustSeed, ProcessState, Migrated, RunsOnRows
    <2>2. QED
      BY <1>7, <2>1, ProcessStep DEF Count
  <1>8. ASSUME NEW r \in Release, Unresolved(r) \/ Restart(r) \/ Crash(r) PROVE RolloutInv'
    <2>1. /\ process' \in {[process EXCEPT ![r] = "failed"], [process EXCEPT ![r] = "boot"]}
          /\ process[r] # "off" /\ faults' \in 0 .. MaxFaults
      BY <1>8 DEF Unresolved, Restart, Crash, Goes, SpendFault, RolloutInv, TypeOK
    <2>2. TypeOK' /\ Migrated' /\ RunsOnRows'
      BY <1>8, <2>1, RowsKept
         DEF RolloutInv, TypeOK, Unresolved, Restart, Crash, ProcessState, Migrated, RunsOnRows
    <2>3. QED
      BY <1>8, <2>2, ProcessStep DEF Unresolved, Restart, Crash
  <1>9. ASSUME NEW r \in Release, Insert(r) PROVE RolloutInv'
    BY <1>9, InsertKeeps
  <1>10. ASSUME NEW r \in Release, Stage(r) PROVE RolloutInv'
    <2>1. /\ r \in 2 .. 3 /\ staged' = Missing(r) /\ Missing(r) \subseteq Name
          /\ UNCHANGED <<row, schema, process, pipeline, active, late>>
      BY <1>10, AddsFacts DEF Stage, Missing, RolloutInv, TypeOK, Release
    <2>2. TypeOK'
      BY <1>10, <2>1 DEF RolloutInv, TypeOK, Stage
    <2>3. Rows' = Rows /\ RowsBelongTogether'
      BY <2>1, RowsKept DEF RolloutInv
    <2>4. StagedWhole'
      <3>1. ASSUME Missing(r) # {}
            PROVE  "Hydra" \in Rows /\ Missing(r) = Adds[r] /\ Adds[r] \cap Rows = {}
        <4>1. row["Hydra"] # NoRow /\ ~(Adds[r] \subseteq Rows)
          BY <3>1 DEF Missing, Rows
        <4>2. Adds[r] \cap Rows = {}
          BY <4>1 DEF RolloutInv, RowsBelongTogether
        <4>3. QED
          BY <4>1, <4>2, AddsFacts DEF Missing, Rows
      <3>2. QED
        BY <2>1, <2>3, <3>1 DEF StagedWhole
    <2>5. Migrated' /\ RunsOnRows' /\ Complete'
      BY <2>1, <2>3 DEF RolloutInv, Migrated, RunsOnRows, Complete, Seeds
    <2>6. QED
      BY <2>2, <2>3, <2>4, <2>5 DEF RolloutInv
  <1>11. CASE CommitStaged
    BY <1>11, CommitStagedKeeps
  <1>12. ASSUME NEW t \in Target \cup {Nowhere}, Rename(t) PROVE RolloutInv'
    <2>1. TypeOK' /\ Migrated' /\ RunsOnRows'
      BY <1>12, RowsKept
         DEF RolloutInv, TypeOK, Rename, SpendFault, Migrated, RunsOnRows
    <2>2. QED
      BY <1>12, <2>1, ProcessStep DEF Rename
  <1>13. CASE UNCHANGED vars
    <2>1. TypeOK' /\ Migrated' /\ RunsOnRows'
      BY <1>13, RowsKept DEF RolloutInv, TypeOK, Migrated, RunsOnRows, vars
    <2>2. QED
      BY <1>13, <2>1, ProcessStep DEF vars
  <1>14. QED
    BY <1>1, <1>2, <1>3, <1>4, <1>5, <1>6, <1>7, <1>8, <1>9, <1>10, <1>11, <1>12, <1>13 DEF Next

--------------------------------------------------------------------------------
(* The theorems.                                                           *)

\* The invariant the two properties rest on, in every state: revisions run on
\* migrated tables, a staged set is a whole one, and what an empty table means.
THEOREM RolloutInvariant == Spec => []RolloutInv
  BY InitRolloutInv, NextRolloutInv, PTL DEF Spec

\* Rows that one release adds are in the table together, with Hydra and with
\* one channel and role, in whatever order releases seed and migrate.
THEOREM RowsStayTogether == Spec => []RowsBelongTogether
  BY RolloutInvariant, PTL DEF RolloutInv

\* A running process finds all rows its release knows of, unless an older
\* release seeded after the migrations.
THEOREM RunningFindsItsRows == Spec => []ReleaseIsComplete
  <1>1. RolloutInv => ReleaseIsComplete
    <2> SUFFICES ASSUME RolloutInv, ~late, NEW r \in Release, process[r] = "running"
                 PROVE  Seeds(r) \subseteq Rows
      BY DEF ReleaseIsComplete
    <2>1. r \in 0 .. 3 /\ schema \in 0 .. 3 /\ r <= schema /\ Rows # {}
      BY DEF RolloutInv, Migrated, RunsOnRows, TypeOK, Release
    <2>2. QED
      BY <2>1, SeedsGrow DEF RolloutInv, Complete
  <1>2. QED
    BY <1>1, RolloutInvariant, PTL
================================================================================
