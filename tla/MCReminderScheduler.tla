-------------------------- MODULE MCReminderScheduler --------------------------
(***************************************************************************)
(* Small instances of ReminderScheduler.  The reminders are rows of the    *)
(* seed: Hydra and the tank-week-end reminder that replaces it share a     *)
(* channel, a weekday and a time; Chimera stands in another channel.       *)
(***************************************************************************)
EXTENDS ReminderScheduler, TLC

CONSTANTS hydra, tankEnd, chimera

Reminder1(ch, w, t, c) ==
    [channel |-> ch, weekday |-> w, fire_time |-> t, month_condition |-> c]

MCReminders ==
    [r \in Reminder |->
        CASE r = hydra   -> Reminder1("clan", 1, 0, "none")
          [] r = tankEnd -> Reminder1("clan", 1, 0, "tank_week_end")
          [] r = chimera -> Reminder1("raid", 1, 1, "none")]

\* Date 0 is a Tuesday on which tank week ends, date 1 a Tuesday on which it
\* does not; the dates between them have no reminder and are left out.
MCWeekdayOf == [d \in Date |-> 1]
MCCondDates == [c \in Condition |-> IF c = "tank_week_end" THEN {0} ELSE {}]

\* Two schedules: one occurs on every modelled date, one on the last only.
MCSchedule == {"weekly", "monthly"}
MCOccurs == [s \in MCSchedule |-> IF s = "weekly" THEN Date ELSE {LastDate}]

\* Replicas are interchangeable.
ReplicaSymmetry == Permutations(Replica)
================================================================================
